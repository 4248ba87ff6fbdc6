-------------------------- MODULE CodeIndexProofs --------------------------
(***************************************************************************)
(* CodeIndex for any number of files, calls and searches, any limit on the *)
(* index and any size of the files.                                        *)
(***************************************************************************)
EXTENDS CodeIndex, SubsequencesProofs, SequenceTheorems

IndexerStates == {"idle", "boot", "probe", "next", "remove", "forget", "read",
                  "embed", "insert"}
SearchStates == {"idle", "restore", "fetch"}

\* Where a call waits for a statement, and where it has a file.
Waiting == {"boot", "remove", "forget", "insert", "restore", "fetch"}
Working == {"remove", "forget", "read", "embed", "insert"}

-----------------------------------------------------------------------------
(* Types of the variables the invariants below speak of.                    *)

Point == [label : Nat \ {0}, chunk : Chunk]

StoreTypes ==
    /\ rows \in Seq(Chunk) /\ hnsw \in Seq(Chunk)
    /\ dirty \in BOOLEAN /\ crossed \in BOOLEAN

WorkTypes ==
    /\ version \in [Files -> 0 .. MaxVersion]
    /\ file \in [Indexers -> Files \cup {None}]
    /\ todo \in [Indexers -> Seq(Chunk)]
    /\ contended \in SUBSET Files

CallTypes ==
    /\ pc \in [Calls -> IndexerStates \cup SearchStates]
    /\ \A i \in Indexers : pc[i] \in IndexerStates
    /\ \A s \in Searches : pc[s] \in SearchStates
    /\ stage \in [Calls -> {"none", "issued", "executed"}]
    /\ done \in Seq(Calls)
    /\ got \in [Calls -> Seq(Chunk)]
    /\ point \in [Searches -> Point \cup {None}]
    /\ moved \in [Searches -> BOOLEAN]

TypeInv == StoreTypes /\ WorkTypes /\ CallTypes

\* A call has a file while it works on one, and chunks to add, all of one
\* text of that file, while it adds them.
WorkOf(i) ==
    /\ file[i] # None <=> pc[i] \in Working
    /\ pc[i] \in {"embed", "insert"} =>
         /\ todo[i] # <<>>
         /\ \A k \in DOMAIN todo[i] : /\ todo[i][k][1] = file[i]
                                     /\ todo[i][k][2] = todo[i][1][2]
Work == \A i \in Indexers : WorkOf(i)

LEMMA ChunkOf ==
    ASSUME NEW f \in Files, NEW v \in 0 .. MaxVersion, NEW k \in 1 .. MaxChunks
    PROVE  <<f, v, k>> \in Chunk
BY DEF Chunk, ChunksOf

LEMMA ChunkOfFile ==
    ASSUME NEW f \in Files, NEW c \in Chunk
    PROVE  /\ c[1] \in Files
           /\ c \in ChunksOf(f) <=> c[1] = f
BY DEF Chunk, ChunksOf

LEMMA CutTyped ==
    ASSUME WorkTypes, NEW f \in Files, NEW n \in 0 .. MaxChunks
    PROVE  /\ Cut(f, n) \in Seq(Chunk)
           /\ \A k \in DOMAIN Cut(f, n) :
                  Cut(f, n)[k][1] = f /\ Cut(f, n)[k][2] = version[f]
<1>1. \A k \in 1 .. n : <<f, version[f], k>> \in Chunk
  BY ChunkOf, CodeIndexAssumption DEF WorkTypes
<1>2. n \in Nat
  BY CodeIndexAssumption
<1> QED
  BY <1>1, <1>2 DEF Cut

LEMMA FitsTyped ==
    ASSUME NEW t \in Seq(Chunk)
    PROVE  Fits(t) \in Seq(Chunk)
BY CodeIndexAssumption DEF Fits, Room

LEMMA RefilledTyped ==
    ASSUME StoreTypes, NEW t \in Seq(Chunk)
    PROVE  Refilled(t) \in Seq(Chunk)
<1> DEFINE n == IF Len(t) > Len(hnsw) THEN Len(t) ELSE Len(hnsw)
<1>1. n \in Nat
  BY DEF StoreTypes
<1>2. \A i \in 1 .. n : (IF i <= Len(t) THEN t[i] ELSE hnsw[i]) \in Chunk
  BY DEF StoreTypes
<1> QED
  BY <1>1, <1>2 DEF Refilled

\* What the statements do to the table.
LEMMA WithoutFrom ==
    ASSUME NEW S, NEW T, NEW t \in Seq(S), NEW w, w = Without(t, T)
    PROVE  \A k \in DOMAIN w : \E j \in DOMAIN t : w[k] = t[j]
<1>1. w \in Seq(S \ T)
  BY WithoutProperties
<1>2. PICK e : Selects(e, w, t, T, Len(t))
  BY WithoutSelects
<1>3. \A k \in 1 .. Len(w) : e[k] \in 1 .. Len(t) /\ w[k] = t[e[k]]
  BY <1>2 DEF Selects
<1> QED
  BY <1>1, <1>3

LEMMA DeletedTyped ==
    ASSUME NEW t \in Seq(Chunk), NEW f \in Files
    PROVE  /\ Deleted(t, f) \in Seq(Chunk)
           /\ \A k \in DOMAIN Deleted(t, f) :
                  /\ Deleted(t, f)[k][1] # f
                  /\ \E j \in DOMAIN t : Deleted(t, f)[k] = t[j]
<1>5. PICK d : d = Without(t, ChunksOf(f))
  OBVIOUS
<1>1. d \in Seq(Chunk \ ChunksOf(f))
  BY <1>5, WithoutProperties
<1>6. \A k \in DOMAIN d : \E j \in DOMAIN t : d[k] = t[j]
  BY <1>5, WithoutFrom
<1>4. Deleted(t, f) = d
  BY <1>5 DEF Deleted
<1>2. \A k \in DOMAIN d : d[k] \in Chunk /\ d[k] \notin ChunksOf(f)
  BY <1>1
<1>3. d \in Seq(Chunk)
  BY <1>1, SeqMonotonic
<1> QED
  BY <1>2, <1>3, <1>4, <1>6, ChunkOfFile

LEMMA InsertedTyped ==
    ASSUME NEW t \in Seq(Chunk), NEW c \in Chunk
    PROVE  /\ Inserted(t, c) \in Seq(Chunk)
           /\ \A k \in DOMAIN Inserted(t, c) :
                  \/ Inserted(t, c)[k] = c
                  \/ \E j \in DOMAIN t : Inserted(t, c)[k] = t[j]
<1>5. PICK w : w = Without(t, SameId(c))
  OBVIOUS
<1>1. w \in Seq(Chunk \ SameId(c))
  BY <1>5, WithoutProperties
<1>6. \A k \in DOMAIN w : \E j \in DOMAIN t : w[k] = t[j]
  BY <1>5, WithoutFrom
<1>2. w \in Seq(Chunk)
  BY <1>1, SeqMonotonic
<1>3. Inserted(t, c) = Append(w, c)
  BY <1>5 DEF Inserted
<1>4. /\ Append(w, c) \in Seq(Chunk)
      /\ \A k \in DOMAIN Append(w, c) :
             \/ Append(w, c)[k] = c
             \/ k \in DOMAIN w /\ Append(w, c)[k] = w[k]
  BY <1>2, AppendProperties, LenProperties
<1> QED
  BY <1>3, <1>4, <1>6

\* A chunk whose id is not in the table yet is added at the end.
LEMMA InsertedNew ==
    ASSUME NEW t \in Seq(Chunk), NEW c \in Chunk,
           \A k \in DOMAIN t : t[k] \notin SameId(c)
    PROVE  Inserted(t, c) = Append(t, c)
BY WithoutNothing DEF Inserted

LEMMA InitTypes == Init => TypeInv
<1> SUFFICES ASSUME Init
             PROVE  TypeInv
  OBVIOUS
<1>1. StoreTypes
  <2>1. rows \in Seq(Chunk) /\ hnsw \in Seq(Chunk)
    BY DEF Init
  <2>2. dirty \in BOOLEAN /\ crossed \in BOOLEAN
    BY Zenon DEF Init
  <2> QED
    BY <2>1, <2>2 DEF StoreTypes
<1>2. WorkTypes
  BY CodeIndexAssumption DEF Init, WorkTypes
<1>3. CallTypes
  BY DEF Init, CallTypes, IndexerStates, SearchStates, Calls
<1> QED
  BY <1>1, <1>2, <1>3 DEF TypeInv

\* Where a call goes.
LEMMA GoesTyped ==
    ASSUME CallTypes, NEW c \in Calls, NEW at,
           c \in Indexers => at \in IndexerStates,
           c \in Searches => at \in SearchStates,
           pc' = [pc EXCEPT ![c] = at]
    PROVE  /\ pc' \in [Calls -> IndexerStates \cup SearchStates]
           /\ \A i \in Indexers : pc'[i] \in IndexerStates
           /\ \A s \in Searches : pc'[s] \in SearchStates
<1>1. at \in IndexerStates \cup SearchStates
  BY DEF Calls
<1>2. \A d \in Calls : pc'[d] = IF d = c THEN at ELSE pc[d]
  BY DEF CallTypes
<1>3. pc' \in [Calls -> IndexerStates \cup SearchStates]
  BY <1>1 DEF CallTypes
<1> QED
  BY <1>2, <1>3 DEF CallTypes, Calls

LEMMA IssueTyped ==
    ASSUME CallTypes, NEW c \in Calls, NEW at,
           c \in Indexers => at \in IndexerStates,
           c \in Searches => at \in SearchStates,
           Issue(c, at), done' \in Seq(Calls),
           got' \in [Calls -> Seq(Chunk)],
           point' \in [Searches -> Point \cup {None}],
           moved' \in [Searches -> BOOLEAN]
    PROVE  CallTypes'
<1>1. stage' \in [Calls -> {"none", "issued", "executed"}]
  BY DEF Issue, CallTypes
<1>2. /\ pc' \in [Calls -> IndexerStates \cup SearchStates]
      /\ \A i \in Indexers : pc'[i] \in IndexerStates
      /\ \A s \in Searches : pc'[s] \in SearchStates
  BY GoesTyped DEF Issue
<1> QED
  BY <1>1, <1>2 DEF CallTypes

LEMMA SettleTyped ==
    ASSUME CallTypes, NEW c \in Calls, NEW at,
           c \in Indexers => at \in IndexerStates,
           c \in Searches => at \in SearchStates,
           Settle(c, at), done' \in Seq(Calls),
           got' \in [Calls -> Seq(Chunk)],
           point' \in [Searches -> Point \cup {None}],
           moved' \in [Searches -> BOOLEAN]
    PROVE  CallTypes'
<1>1. stage' \in [Calls -> {"none", "issued", "executed"}]
  BY DEF Settle, CallTypes
<1>2. /\ pc' \in [Calls -> IndexerStates \cup SearchStates]
      /\ \A i \in Indexers : pc'[i] \in IndexerStates
      /\ \A s \in Searches : pc'[s] \in SearchStates
  BY GoesTyped DEF Settle
<1> QED
  BY <1>1, <1>2 DEF CallTypes

LEMMA TailTyped ==
    ASSUME CallTypes, NEW c, NEW at, CalledBack(c, at)
    PROVE  done' \in Seq(Calls)
BY DEF CalledBack, CallTypes

LEMMA ProceedTyped ==
    ASSUME CallTypes, WorkTypes, NEW i \in Indexers, NEW chunks \in Seq(Chunk),
           Proceed(i, chunks) \/ Leave(i), done' \in Seq(Calls),
           UNCHANGED <<version, contended, searchVars, moved>>
    PROVE  CallTypes' /\ WorkTypes'
<1>1. PICK at \in {"next", "idle", "embed"} : Settle(i, at)
  BY DEF Proceed, Leave, Caller
<1>2. file' \in [Indexers -> Files \cup {None}]
      /\ todo' \in [Indexers -> Seq(Chunk)]
  <2>1. CASE Leave(i)
    <3>1. /\ file' = [file EXCEPT ![i] = None]
          /\ todo' = [todo EXCEPT ![i] = <<>>]
      BY <2>1 DEF Leave
    <3> QED
      BY <3>1 DEF WorkTypes
  <2>2. CASE file' = file /\ todo' = [todo EXCEPT ![i] = chunks]
    BY <2>2 DEF WorkTypes
  <2> QED
    BY <2>1, <2>2 DEF Proceed
<1>3. i \in Calls /\ i \notin Searches
  BY CodeIndexAssumption DEF Calls
<1>4. CallTypes'
  BY <1>1, <1>3, SettleTyped DEF searchVars, IndexerStates, CallTypes
<1> QED
  BY <1>2, <1>4 DEF WorkTypes

LEMMA ReturnTyped ==
    ASSUME CallTypes, NEW s \in Searches, Return(s), done' \in Seq(Calls)
    PROVE  CallTypes'
<1>1. s \in Calls /\ s \notin Indexers
  BY CodeIndexAssumption DEF Calls
<1>2. /\ got' \in [Calls -> Seq(Chunk)]
      /\ point' \in [Searches -> Point \cup {None}]
      /\ moved' \in [Searches -> BOOLEAN]
  <2>1. /\ got' = [got EXCEPT ![s] = <<>>]
        /\ point' = [point EXCEPT ![s] = None]
        /\ moved' = [moved EXCEPT ![s] = FALSE]
    BY DEF Return
  <2>2. got' \in [Calls -> Seq(Chunk)]
    BY <1>1, <2>1 DEF CallTypes
  <2>3. point' \in [Searches -> Point \cup {None}]
    BY <2>1 DEF CallTypes
  <2>4. moved' \in [Searches -> BOOLEAN]
    BY <2>1 DEF CallTypes
  <2> QED
    BY <2>2, <2>3, <2>4
<1> QED
  BY <1>1, <1>2, SettleTyped DEF Return, SearchStates

LEMMA LookUpTyped ==
    ASSUME CallTypes, NEW s \in Searches, NEW points \in Seq(Chunk),
           NEW overlapped \in BOOLEAN, LookUp(s, points, overlapped),
           done' \in Seq(Calls)
    PROVE  CallTypes'
<1>1. CASE Return(s)
  BY <1>1, ReturnTyped
<1>2. ASSUME NEW label \in DOMAIN points,
             point' = [point EXCEPT ![s] =
                          [label |-> label, chunk |-> points[label]]],
             got' = [got EXCEPT ![s] = <<>>],
             moved' = [moved EXCEPT ![s] = overlapped],
             Issue(s, "fetch")
      PROVE  CallTypes'
  <2>1. s \in Calls /\ s \notin Indexers
    BY CodeIndexAssumption DEF Calls
  <2>2. got' \in [Calls -> Seq(Chunk)]
    BY <1>2, <2>1 DEF CallTypes
  <2>3. [label |-> label, chunk |-> points[label]] \in Point
    BY DEF Point
  <2>4. point' \in [Searches -> Point \cup {None}]
    BY <1>2, <2>3 DEF CallTypes
  <2>5. moved' \in [Searches -> BOOLEAN]
    BY <1>2 DEF CallTypes
  <2> QED
    BY <1>2, <2>1, <2>2, <2>4, <2>5, IssueTyped DEF SearchStates
<1> QED
  BY <1>1, <1>2 DEF LookUp

LEMMA RemoveTyped ==
    ASSUME TypeInv, NEW i \in Indexers, NEW f \in Files,
           NEW at \in {"remove", "forget"}, Remove(i, f, at)
    PROVE  TypeInv'
<1>1. StoreTypes'
  <2>1. crossed' \in BOOLEAN
    BY DEF Remove, Disturb, TypeInv, StoreTypes
  <2> QED
    BY <2>1 DEF Remove, store, TypeInv, StoreTypes
<1>2. WorkTypes'
  <2>1. contended' \in SUBSET Files
    BY DEF Remove, TypeInv, WorkTypes
  <2> QED
    BY <2>1 DEF Remove, TypeInv, WorkTypes
<1>3. CallTypes'
  <2>1. i \in Calls /\ i \notin Searches
    BY CodeIndexAssumption DEF Calls
  <2>2. moved' \in [Searches -> BOOLEAN]
    BY DEF Remove, Disturb
  <2>3. got' = got /\ point' = point /\ done' = done /\ Issue(i, at)
    BY DEF Remove, searchVars
  <2> QED
    BY <2>1, <2>2, <2>3, IssueTyped DEF TypeInv, CallTypes, IndexerStates
<1> QED
  BY <1>1, <1>2, <1>3 DEF TypeInv

LEMMA IndexTypes ==
    ASSUME TypeInv, Work, NEW i \in Indexers, Index(i)
    PROVE  TypeInv'
<1>1. i \in Calls /\ i \notin Searches
  BY CodeIndexAssumption DEF Calls
<1>2. ASSUME NEW f \in Files, IndexFile(i, f) \/ RemoveFile(i, f) \/ NextFile(i, f)
      PROVE  TypeInv'
  BY <1>2, RemoveTyped DEF IndexFile, RemoveFile, NextFile
<1>3. CASE Restart(i)
  <2>1. StoreTypes'
    <3>1. rows' = rows /\ hnsw' = <<>>
      BY <1>3 DEF Restart
    <3>2. dirty' \in BOOLEAN /\ crossed' \in BOOLEAN
      BY <1>3, Zenon DEF Restart
    <3> QED
      BY <3>1, <3>2 DEF TypeInv, StoreTypes
  <2>2. WorkTypes'
    BY <1>3 DEF Restart, TypeInv, WorkTypes
  <2>3. /\ pc' \in [Calls -> IndexerStates \cup SearchStates]
        /\ \A j \in Indexers : pc'[j] \in IndexerStates
        /\ \A s \in Searches : pc'[s] \in SearchStates
    <3>1. pc' = [c \in Calls |-> IF c = i THEN "boot" ELSE "idle"]
      BY <1>3 DEF Restart
    <3>2. \A c \in Calls : pc'[c] = IF c = i THEN "boot" ELSE "idle"
      BY <3>1
    <3> QED
      BY <1>1, <3>1, <3>2 DEF IndexerStates, SearchStates, Calls
  <2>4. stage' \in [Calls -> {"none", "issued", "executed"}]
    BY <1>3 DEF Restart
  <2>5. done' \in Seq(Calls) /\ got' \in [Calls -> Seq(Chunk)]
    BY <1>3 DEF Restart
  <2>6. point' \in [Searches -> Point \cup {None}]
    BY <1>3 DEF Restart
  <2>7. moved' \in [Searches -> BOOLEAN]
    BY <1>3 DEF Restart
  <2> QED
    BY <2>1, <2>2, <2>3, <2>4, <2>5, <2>6, <2>7 DEF TypeInv, CallTypes
<1>4. CASE Loaded(i)
  <2>1. got[i] \in Seq(Chunk) /\ done' \in Seq(Calls)
    BY <1>1, <1>4, TailTyped DEF Loaded, TypeInv, CallTypes
  <2>2. StoreTypes'
    <3>1. Refilled(Fits(got[i])) \in Seq(Chunk)
      BY <2>1, FitsTyped, RefilledTyped DEF TypeInv
    <3> QED
      BY <1>4, <3>1 DEF Loaded, history, TypeInv, StoreTypes
  <2>3. WorkTypes'
    BY <1>4 DEF Loaded, indexVars, history, TypeInv, WorkTypes
  <2>4. got' \in [Calls -> Seq(Chunk)]
    BY <1>1, <1>4 DEF Loaded, TypeInv, CallTypes
  <2>5. CallTypes'
    BY <1>1, <1>4, <2>1, <2>4, SettleTyped
       DEF Loaded, history, IndexerStates, TypeInv, CallTypes
  <2> QED
    BY <2>2, <2>3, <2>5 DEF TypeInv
<1>5. ASSUME NEW at \in IndexerStates, pc' = [pc EXCEPT ![i] = at],
             UNCHANGED <<store, searchVars, history, version, file, todo, stage,
                         done>>
      PROVE  TypeInv'
  <2>1. /\ pc' \in [Calls -> IndexerStates \cup SearchStates]
        /\ \A j \in Indexers : pc'[j] \in IndexerStates
        /\ \A s \in Searches : pc'[s] \in SearchStates
    BY <1>1, <1>5, GoesTyped DEF TypeInv
  <2> QED
    BY <1>5, <2>1 DEF store, searchVars, history, TypeInv, StoreTypes,
                      WorkTypes, CallTypes
<1>6. CASE FullIndex(i) \/ FullIndexIgnored(i) \/ FullIndexDone(i)
  <2>1. PICK at \in {"next", "idle"} : pc' = [pc EXCEPT ![i] = at]
    BY <1>6 DEF FullIndex, FullIndexIgnored, FullIndexDone
  <2> QED
    BY <1>5, <1>6, <2>1 DEF FullIndex, FullIndexIgnored, FullIndexDone,
                            indexVars, IndexerStates
<1>7. CASE Removed(i)
  <2>1. done' \in Seq(Calls)
    BY <1>7, TailTyped DEF Removed, TypeInv
  <2>2. CallTypes'
    BY <1>1, <1>7, <2>1, SettleTyped
       DEF Removed, searchVars, history, IndexerStates, TypeInv, CallTypes
  <2>3. StoreTypes' /\ WorkTypes'
    BY <1>7 DEF Removed, indexVars, history, TypeInv, StoreTypes, WorkTypes
  <2> QED
    BY <2>2, <2>3 DEF TypeInv
<1>8. CASE Forgotten(i)
  <2>1. done' \in Seq(Calls)
    BY <1>8, TailTyped DEF Forgotten, TypeInv
  <2>2. CallTypes' /\ WorkTypes'
    <3>1. <<>> \in Seq(Chunk)
      OBVIOUS
    <3> QED
      BY <1>8, <2>1, <3>1, ProceedTyped DEF Forgotten, history, TypeInv
  <2>3. StoreTypes'
    BY <1>8 DEF Forgotten, history, TypeInv, StoreTypes
  <2> QED
    BY <2>2, <2>3 DEF TypeInv
<1>9. CASE FileRead(i)
  <2>1. StoreTypes' /\ done' = done
    BY <1>9 DEF FileRead, store, history, TypeInv, StoreTypes
  <2>2. PICK n \in 0 .. MaxChunks : Proceed(i, Cut(file[i], n))
    BY <1>9 DEF FileRead
  <2>3. Cut(file[i], n) \in Seq(Chunk)
    <3>1. file[i] \in Files
      BY <1>9 DEF FileRead, Work, WorkOf, Working, TypeInv, WorkTypes
    <3> QED
      BY <3>1, CutTyped DEF TypeInv
  <2>4. CallTypes' /\ WorkTypes'
    BY <1>9, <2>1, <2>2, <2>3, ProceedTyped
       DEF FileRead, history, TypeInv, CallTypes
  <2> QED
    BY <2>1, <2>4 DEF TypeInv
<1>10. CASE Embedded(i)
  <2>1. moved' \in [Searches -> BOOLEAN] /\ crossed' \in BOOLEAN
    BY <1>10 DEF Embedded, Disturb, TypeInv, StoreTypes
  <2>2. CallTypes'
    BY <1>1, <1>10, <2>1, IssueTyped
       DEF Embedded, searchVars, IndexerStates, TypeInv, CallTypes
  <2>3. StoreTypes' /\ WorkTypes'
    BY <1>10, <2>1 DEF Embedded, store, indexVars, TypeInv, StoreTypes,
                       WorkTypes
  <2> QED
    BY <2>2, <2>3 DEF TypeInv
<1>11. CASE EmbeddingFailed(i)
  <2>1. Tail(todo[i]) \in Seq(Chunk)
    BY <1>11 DEF EmbeddingFailed, Work, WorkOf, TypeInv, WorkTypes
  <2>2. done' \in Seq(Calls)
    BY <1>11 DEF EmbeddingFailed, TypeInv, CallTypes
  <2>3. CallTypes' /\ WorkTypes'
    BY <1>11, <2>1, <2>2, ProceedTyped DEF EmbeddingFailed, history, TypeInv
  <2>4. StoreTypes'
    BY <1>11 DEF EmbeddingFailed, store, history, TypeInv, StoreTypes
  <2> QED
    BY <2>3, <2>4 DEF TypeInv
<1>12. CASE Added(i)
  <2>1. /\ Tail(todo[i]) \in Seq(Chunk) /\ Head(todo[i]) \in Chunk
        /\ <<>> \in Seq(Chunk)
    BY <1>12 DEF Added, CalledBack, Work, WorkOf, TypeInv, WorkTypes
  <2>2. done' \in Seq(Calls)
    BY <1>12, TailTyped DEF Added, TypeInv
  <2>3. CallTypes' /\ WorkTypes'
    <3>1. PICK chunks \in {<<>>, Tail(todo[i])} : Proceed(i, chunks)
      BY <1>12 DEF Added
    <3> QED
      BY <1>12, <2>1, <2>2, <3>1, ProceedTyped DEF Added, history, TypeInv
  <2>4. StoreTypes'
    <3>1. hnsw' \in Seq(Chunk)
      BY <1>12, <2>1 DEF Added, TypeInv, StoreTypes
    <3> QED
      BY <1>12, <3>1 DEF Added, AfterAdd, history, TypeInv, StoreTypes
  <2> QED
    BY <2>3, <2>4 DEF TypeInv
<1> QED
  BY <1>2, <1>3, <1>4, <1>6, <1>7, <1>8, <1>9, <1>10, <1>11, <1>12 DEF Index

LEMMA FindTypes ==
    ASSUME TypeInv, NEW s \in Searches, Find(s)
    PROVE  TypeInv'
<1>1. s \in Calls /\ s \notin Indexers
  BY CodeIndexAssumption DEF Calls
<1>2. CASE Search(s)
  <2>1. WorkTypes' /\ done' = done
    BY <1>2 DEF Search, indexVars, TypeInv, WorkTypes
  <2>2. CASE dirty
    <3>1. moved' \in [Searches -> BOOLEAN] /\ crossed' \in BOOLEAN
      BY <1>2, <2>2 DEF Search, Writing, Rebuilding, TypeInv, CallTypes
    <3>2. CallTypes'
      BY <1>1, <1>2, <2>1, <2>2, <3>1, IssueTyped
         DEF Search, searchVars, SearchStates, TypeInv, CallTypes
    <3>3. StoreTypes'
      BY <1>2, <2>2, <3>1 DEF Search, TypeInv, StoreTypes
    <3> QED
      BY <2>1, <3>2, <3>3 DEF TypeInv
  <2>3. CASE ~dirty
    <3>1. LookUp(s, hnsw, Writing) /\ Writing \in BOOLEAN
      BY <1>2, <2>3 DEF Search, Writing
    <3>2. CallTypes'
      BY <2>1, <3>1, LookUpTyped DEF TypeInv, StoreTypes, CallTypes
    <3>3. StoreTypes'
      BY <1>2, <2>3 DEF Search, TypeInv, StoreTypes
    <3> QED
      BY <2>1, <3>2, <3>3 DEF TypeInv
  <2> QED
    BY <2>2, <2>3
<1>3. CASE Restored(s)
  <2>1. done' \in Seq(Calls) /\ got[s] \in Seq(Chunk)
    BY <1>1, <1>3, TailTyped DEF Restored, TypeInv, CallTypes
  <2>2. hnsw' \in Seq(Chunk)
    BY <1>3, <2>1, FitsTyped, RefilledTyped DEF Restored, TypeInv
  <2>3. StoreTypes' /\ WorkTypes'
    BY <1>3, <2>2 DEF Restored, indexVars, TypeInv, StoreTypes, WorkTypes
  <2>4. CallTypes'
    <3>1. \/ LookUp(s, hnsw', moved[s])
          \/ Return(s)
      BY <1>3 DEF Restored
    <3>2. moved[s] \in BOOLEAN
      BY DEF TypeInv, CallTypes
    <3> QED
      BY <2>1, <2>2, <3>1, <3>2, LookUpTyped, ReturnTyped DEF TypeInv
  <2> QED
    BY <2>3, <2>4 DEF TypeInv
<1>4. CASE Fetched(s)
  <2>1. done' \in Seq(Calls)
    BY <1>4, TailTyped DEF Fetched, TypeInv
  <2>2. CallTypes'
    BY <1>4, <2>1, ReturnTyped DEF Fetched, TypeInv
  <2>3. StoreTypes' /\ WorkTypes'
    BY <1>4 DEF Fetched, store, indexVars, TypeInv, StoreTypes, WorkTypes
  <2> QED
    BY <2>2, <2>3 DEF TypeInv
<1> QED
  BY <1>2, <1>3, <1>4 DEF Find

\* What a statement writes and reads.
LEMMA EffectTyped ==
    ASSUME TypeInv, Work, NEW c \in Calls, Effect(c), pc[c] \in Waiting,
           pc[c] = "fetch" => point[c] \in Point
    PROVE  rows' \in Seq(Chunk) /\ got' \in [Calls -> Seq(Chunk)]
<1>1. CASE pc[c] \in {"remove", "forget"}
  <2>1. c \in Indexers
    BY <1>1 DEF Calls, TypeInv, CallTypes, SearchStates
  <2>2. file[c] \in Files
    BY <1>1, <2>1 DEF Work, WorkOf, Working, TypeInv, WorkTypes
  <2>3. rows' = Deleted(rows, file[c]) /\ got' = got
    BY <1>1 DEF Effect
  <2>4. Deleted(rows, file[c]) \in Seq(Chunk)
    BY <2>2, DeletedTyped DEF TypeInv, StoreTypes
  <2> QED
    BY <2>3, <2>4 DEF TypeInv, CallTypes
<1>2. CASE pc[c] = "insert"
  <2>1. c \in Indexers
    BY <1>2 DEF Calls, TypeInv, CallTypes, SearchStates
  <2>2. Head(todo[c]) \in Chunk
    BY <1>2, <2>1 DEF Work, WorkOf, TypeInv, WorkTypes
  <2>3. rows' = Inserted(rows, Head(todo[c])) /\ got' = got
    BY <1>2 DEF Effect
  <2>4. Inserted(rows, Head(todo[c])) \in Seq(Chunk)
    BY <2>2, InsertedTyped DEF TypeInv, StoreTypes
  <2> QED
    BY <2>3, <2>4 DEF TypeInv, CallTypes
<1>3. CASE pc[c] \in {"boot", "restore"}
  BY <1>3 DEF Effect, TypeInv, StoreTypes, CallTypes
<1>4. CASE pc[c] = "fetch"
  <2>1. rows' = rows /\ got' = [got EXCEPT ![c] = Row(rows, point[c].label)]
    BY <1>4 DEF Effect
  <2>2. c \in Searches
    BY <1>4 DEF Calls, TypeInv, CallTypes, IndexerStates
  <2>3. Row(rows, point[c].label) \in Seq(Chunk)
    <3>1. rows \in Seq(Chunk) /\ <<>> \in Seq(Chunk)
      BY DEF TypeInv, StoreTypes
    <3>2. PICK k \in Nat \ {0} : k = point[c].label
      BY <1>4 DEF Point
    <3>3. Row(rows, k) \in Seq(Chunk)
      BY <3>1 DEF Row
    <3> QED
      BY <3>2, <3>3
  <2> QED
    BY <2>1, <2>3 DEF TypeInv, StoreTypes, CallTypes
<1> QED
  BY <1>1, <1>2, <1>3, <1>4 DEF Waiting

-----------------------------------------------------------------------------
(* The protocol of the statements: a call that waits has one statement, and *)
(* an executed one is called back once.                                     *)

Stages ==
    \A c \in Calls :
        /\ stage[c] = "none" <=> pc[c] \notin Waiting
        /\ stage[c] = "executed" <=> \E k \in DOMAIN done : done[k] = c
Once == \A j, k \in DOMAIN done : done[j] = done[k] => j = k
Pointed == \A s \in Searches : pc[s] = "fetch" => point[s] \in Point

Protocol == Stages /\ Once /\ Pointed

Shape == TypeInv /\ Protocol /\ Work

LEMMA TailDone ==
    ASSUME CallTypes, Once, NEW c, done # <<>>, Head(done) = c,
           done' = Tail(done)
    PROVE  /\ \A d \in Calls : (\E k \in DOMAIN done' : done'[k] = d)
                        <=> d # c /\ \E k \in DOMAIN done : done[k] = d
           /\ Once'
<1>1. /\ done \in Seq(Calls) /\ done' \in Seq(Calls)
      /\ Len(done') = Len(done) - 1 /\ Len(done) >= 1
      /\ \A k \in 1 .. Len(done') : done'[k] = done[k + 1]
      /\ done[1] = c
  BY DEF CallTypes
<1>2. \A k \in DOMAIN done : done[k] = c => k = 1
  BY <1>1 DEF Once
<1>3. ASSUME NEW k \in DOMAIN done'
      PROVE  k + 1 \in DOMAIN done /\ done'[k] = done[k + 1] /\ done'[k] # c
  BY <1>1, <1>2, <1>3
<1>4. ASSUME NEW k \in DOMAIN done, done[k] # c
      PROVE  k - 1 \in DOMAIN done' /\ done'[k - 1] = done[k]
  BY <1>1, <1>4
<1>5. ASSUME NEW d, d # c, NEW k \in DOMAIN done, done[k] = d
      PROVE  \E j \in DOMAIN done' : done'[j] = d
  BY <1>4, <1>5
<1>6. Once'
  <2>1. ASSUME NEW j \in DOMAIN done', NEW k \in DOMAIN done',
               done'[j] = done'[k]
        PROVE  j = k
    <3>1. j + 1 = k + 1
      BY <1>3, <2>1 DEF Once
    <3> QED
      BY <1>1, <3>1
  <2> QED
    BY <2>1 DEF Once
<1> QED
  BY <1>3, <1>5, <1>6

\* A call moves: its statement, if it had one, is no longer pending.
LEMMA MoveProtocol ==
    ASSUME CallTypes, Stages, Once, NEW c \in Calls, NEW at,
           NEW st \in {"none", "issued"},
           pc' = [pc EXCEPT ![c] = at], stage' = [stage EXCEPT ![c] = st],
           st = "none" <=> at \notin Waiting,
           \/ stage[c] # "executed" /\ done' = done
           \/ done # <<>> /\ Head(done) = c /\ done' = Tail(done)
    PROVE  Stages' /\ Once'
<1>1. /\ \A d \in Calls : (\E k \in DOMAIN done' : done'[k] = d)
                        <=> d # c /\ \E k \in DOMAIN done : done[k] = d
      /\ Once'
  <2>1. CASE stage[c] # "executed" /\ done' = done
    BY <2>1 DEF Stages, Once
  <2>2. CASE done # <<>> /\ Head(done) = c /\ done' = Tail(done)
    BY <2>2, TailDone, Zenon
  <2> QED
    BY <2>1, <2>2
<1>2. \A d \in Calls : /\ pc'[d] = IF d = c THEN at ELSE pc[d]
                       /\ stage'[d] = IF d = c THEN st ELSE stage[d]
  BY DEF CallTypes
<1>3. Stages'
  BY <1>1, <1>2 DEF Stages
<1> QED
  BY <1>1, <1>3

LEMMA SettleProtocol ==
    ASSUME CallTypes, Stages, Once, NEW c \in Calls, NEW at, at \notin Waiting,
           Settle(c, at),
           \/ stage[c] # "executed" /\ done' = done
           \/ done # <<>> /\ Head(done) = c /\ done' = Tail(done)
    PROVE  Stages' /\ Once'
BY MoveProtocol DEF Settle

LEMMA IssueProtocol ==
    ASSUME CallTypes, Stages, Once, NEW c \in Calls, NEW at \in Waiting,
           Issue(c, at),
           \/ stage[c] # "executed" /\ done' = done
           \/ done # <<>> /\ Head(done) = c /\ done' = Tail(done)
    PROVE  Stages' /\ Once'
BY MoveProtocol DEF Issue

\* A call of an indexer moves.
LEMMA IndexerPointed ==
    ASSUME CallTypes, Pointed, NEW i \in Indexers, NEW at,
           pc' = [pc EXCEPT ![i] = at], point' = point
    PROVE  Pointed'
<1>1. \A s \in Searches : s \in Calls /\ s # i
  BY CodeIndexAssumption DEF Calls
<1>2. \A s \in Searches : pc'[s] = pc[s]
  BY <1>1 DEF CallTypes
<1> QED
  BY <1>2 DEF Pointed

LEMMA ReturnProtocol ==
    ASSUME CallTypes, Protocol, NEW s \in Searches, Return(s),
           \/ stage[s] # "executed" /\ done' = done
           \/ done # <<>> /\ Head(done) = s /\ done' = Tail(done)
    PROVE  Protocol'
<1>1. s \in Calls
  BY DEF Calls
<1>2. Stages' /\ Once'
  BY <1>1, SettleProtocol DEF Return, Protocol, Waiting
<1>3. /\ \A t \in Searches : t # s => pc'[t] = pc[t] /\ point'[t] = point[t]
      /\ pc'[s] = "idle"
  BY DEF Return, Settle, CallTypes, Calls
<1> QED
  BY <1>2, <1>3 DEF Protocol, Pointed

LEMMA LookUpProtocol ==
    ASSUME CallTypes, Protocol, NEW s \in Searches, NEW points \in Seq(Chunk),
           NEW overlapped, LookUp(s, points, overlapped),
           \/ stage[s] # "executed" /\ done' = done
           \/ done # <<>> /\ Head(done) = s /\ done' = Tail(done)
    PROVE  Protocol'
<1>1. CASE Return(s)
  BY <1>1, ReturnProtocol
<1>2. ASSUME NEW label \in DOMAIN points,
             point' = [point EXCEPT ![s] =
                          [label |-> label, chunk |-> points[label]]],
             Issue(s, "fetch")
      PROVE  Protocol'
  <2>1. s \in Calls
    BY DEF Calls
  <2>2. Stages' /\ Once'
    BY <1>2, <2>1, IssueProtocol DEF Protocol, Waiting
  <2>3. [label |-> label, chunk |-> points[label]] \in Point
    BY DEF Point
  <2>4. /\ \A t \in Searches : t # s => pc'[t] = pc[t] /\ point'[t] = point[t]
        /\ point'[s] \in Point
    BY <1>2, <2>3 DEF Issue, CallTypes, Calls
  <2> QED
    BY <2>2, <2>4 DEF Protocol, Pointed
<1> QED
  BY <1>1, <1>2 DEF LookUp

-----------------------------------------------------------------------------
LEMMA IndexProtocol ==
    ASSUME Shape, NEW i \in Indexers, Index(i)
    PROVE  Protocol'
<1>1. i \in Calls /\ i \notin Searches /\ CallTypes /\ Stages /\ Once /\ Pointed
  BY CodeIndexAssumption DEF Calls, Shape, TypeInv, Protocol
<1>2. pc[i] \notin Waiting => stage[i] = "none"
  BY <1>1 DEF Stages
<1>3. ASSUME NEW f \in Files, IndexFile(i, f) \/ RemoveFile(i, f) \/ NextFile(i, f)
      PROVE  Protocol'
  <2>1. PICK at \in {"remove", "forget"} : Remove(i, f, at)
    BY <1>3 DEF IndexFile, RemoveFile, NextFile
  <2>2. stage[i] = "none"
    BY <1>2, <1>3 DEF IndexFile, RemoveFile, NextFile, MayCall, Waiting
  <2>3. Issue(i, at) /\ done' = done /\ point' = point
    BY <2>1 DEF Remove, searchVars
  <2>4. Stages' /\ Once'
    BY <1>1, <2>2, <2>3, IssueProtocol DEF Waiting
  <2>5. Pointed'
    BY <1>1, <2>3, IndexerPointed DEF Issue
  <2> QED
    BY <2>4, <2>5 DEF Protocol
<1>4. CASE Restart(i)
  <2>1. /\ pc' = [c \in Calls |-> IF c = i THEN "boot" ELSE "idle"]
        /\ stage' = [c \in Calls |-> IF c = i THEN "issued" ELSE "none"]
        /\ done' = <<>>
    BY <1>4 DEF Restart
  <2>2. Stages' /\ Once'
    BY <2>1 DEF Stages, Once, Waiting
  <2>3. Pointed'
    BY <1>1, <2>1 DEF Pointed, Calls
  <2> QED
    BY <2>2, <2>3 DEF Protocol
<1>5. ASSUME NEW at, at \notin Waiting, Settle(i, at), point' = point,
             \/ stage[i] # "executed" /\ done' = done
             \/ done # <<>> /\ Head(done) = i /\ done' = Tail(done)
      PROVE  Protocol'
  <2>1. Stages' /\ Once'
    BY <1>1, <1>5, SettleProtocol
  <2>2. Pointed'
    BY <1>1, <1>5, IndexerPointed DEF Settle
  <2> QED
    BY <2>1, <2>2 DEF Protocol
<1>6. CASE Loaded(i) \/ Removed(i)
  <2>1. PICK at \in {"probe", "read"} : Settle(i, at)
    BY <1>6 DEF Loaded, Removed
  <2>2. done # <<>> /\ Head(done) = i /\ done' = Tail(done) /\ point' = point
    BY <1>6 DEF Loaded, Removed, CalledBack, searchVars
  <2> QED
    BY <1>5, <2>1, <2>2 DEF Waiting
<1>7. CASE FullIndex(i) \/ FullIndexIgnored(i) \/ FullIndexDone(i)
  <2>1. PICK at \in {"next", "idle"} : pc' = [pc EXCEPT ![i] = at]
    BY <1>7 DEF FullIndex, FullIndexIgnored, FullIndexDone
  <2>2. stage[i] = "none"
    BY <1>2, <1>7 DEF FullIndex, FullIndexIgnored, FullIndexDone, MayCall, Waiting
  <2>3. stage' = stage /\ done' = done /\ point' = point
    BY <1>7 DEF FullIndex, FullIndexIgnored, FullIndexDone, searchVars
  <2>4. stage' = [stage EXCEPT ![i] = "none"]
    BY <1>1, <2>2, <2>3 DEF CallTypes
  <2> QED
    BY <1>5, <2>1, <2>2, <2>3, <2>4 DEF Settle, Waiting
<1>8. CASE Forgotten(i) \/ Added(i)
  <2>1. PICK at \in {"next", "idle", "embed"} : Settle(i, at)
    BY <1>8 DEF Forgotten, Added, Proceed, Leave, Caller
  <2>2. done # <<>> /\ Head(done) = i /\ done' = Tail(done) /\ point' = point
    BY <1>8 DEF Forgotten, Added, CalledBack, searchVars
  <2> QED
    BY <1>5, <2>1, <2>2 DEF Waiting
<1>9. CASE FileRead(i) \/ EmbeddingFailed(i)
  <2>1. PICK at \in {"next", "idle", "embed"} : Settle(i, at)
    BY <1>9 DEF FileRead, EmbeddingFailed, Proceed, Leave, Caller
  <2>2. stage[i] = "none" /\ done' = done /\ point' = point
    BY <1>2, <1>9 DEF FileRead, EmbeddingFailed, searchVars, Waiting
  <2> QED
    BY <1>5, <2>1, <2>2 DEF Waiting
<1>10. CASE Embedded(i)
  <2>1. Issue(i, "insert") /\ stage[i] = "none" /\ done' = done /\ point' = point
    BY <1>2, <1>10 DEF Embedded, searchVars, Waiting
  <2>2. Stages' /\ Once'
    BY <1>1, <2>1, IssueProtocol DEF Waiting
  <2>3. Pointed'
    BY <1>1, <2>1, IndexerPointed DEF Issue
  <2> QED
    BY <2>2, <2>3 DEF Protocol
<1> QED
  BY <1>3, <1>4, <1>6, <1>7, <1>8, <1>9, <1>10 DEF Index

LEMMA OthersWork ==
    ASSUME CallTypes, Work, NEW i \in Indexers, NEW at, pc' = [pc EXCEPT ![i] = at],
           \A j \in Indexers : j # i => file'[j] = file[j] /\ todo'[j] = todo[j],
           WorkOf(i)'
    PROVE  Work'
<1>1. \A j \in Indexers : j # i => pc'[j] = pc[j]
  BY DEF CallTypes, Calls
<1>2. \A j \in Indexers : j # i => WorkOf(j)'
  BY <1>1 DEF Work, WorkOf
<1> QED
  BY <1>2 DEF Work

LEMMA LeaveWork ==
    ASSUME CallTypes, WorkTypes, Work, NEW i \in Indexers, Leave(i)
    PROVE  Work'
<1>1. /\ file' = [file EXCEPT ![i] = None] /\ todo' = [todo EXCEPT ![i] = <<>>]
      /\ pc' = [pc EXCEPT ![i] = Caller(i)] /\ Caller(i) \in {"next", "idle"}
  BY DEF Leave, Settle, Caller
<1>2. file'[i] = None /\ pc'[i] = Caller(i)
  BY <1>1 DEF CallTypes, WorkTypes, Calls
<1>3. WorkOf(i)'
  BY <1>1, <1>2 DEF WorkOf, Working
<1>4. \A j \in Indexers : j # i => file'[j] = file[j] /\ todo'[j] = todo[j]
  BY <1>1 DEF WorkTypes
<1> QED
  BY <1>1, <1>3, <1>4, OthersWork

LEMMA ProceedWork ==
    ASSUME CallTypes, WorkTypes, Work, NEW i \in Indexers, NEW chunks \in Seq(Chunk),
           Proceed(i, chunks), file[i] # None,
           \A k \in DOMAIN chunks :
               chunks[k][1] = file[i] /\ chunks[k][2] = chunks[1][2]
    PROVE  Work'
<1>1. CASE chunks = <<>>
  BY <1>1, LeaveWork DEF Proceed
<1>2. CASE chunks # <<>>
  <2>1. /\ file' = file /\ todo' = [todo EXCEPT ![i] = chunks]
        /\ pc' = [pc EXCEPT ![i] = "embed"]
    BY <1>2 DEF Proceed, Settle
  <2>2. todo'[i] = chunks /\ pc'[i] = "embed" /\ file'[i] = file[i]
    BY <2>1 DEF CallTypes, WorkTypes, Calls
  <2>3. WorkOf(i)'
    BY <1>2, <2>2 DEF WorkOf, Working
  <2>4. \A j \in Indexers : j # i => file'[j] = file[j] /\ todo'[j] = todo[j]
    BY <2>1 DEF WorkTypes
  <2> QED
    BY <2>1, <2>3, <2>4, OthersWork
<1> QED
  BY <1>1, <1>2

\* What is left of the chunks is of the same text.
LEMMA TailWork ==
    ASSUME TypeInv, Work, NEW i \in Indexers, pc[i] \in {"embed", "insert"}
    PROVE  /\ Tail(todo[i]) \in Seq(Chunk) /\ file[i] # None
           /\ \A k \in DOMAIN Tail(todo[i]) :
                  /\ Tail(todo[i])[k][1] = file[i]
                  /\ Tail(todo[i])[k][2] = Tail(todo[i])[1][2]
                  /\ Tail(todo[i])[k][2] = todo[i][1][2]
<1>1. PICK q \in Seq(Chunk) : q = todo[i]
  BY DEF TypeInv, WorkTypes
<1>2. /\ q # <<>> /\ file[i] # None
      /\ \A k \in DOMAIN q : q[k][1] = file[i] /\ q[k][2] = q[1][2]
  BY <1>1 DEF Work, WorkOf, Working
<1>3. PICK t : t = Tail(q)
  OBVIOUS
<1>4. /\ t \in Seq(Chunk) /\ Len(t) = Len(q) - 1
      /\ \A k \in 1 .. Len(t) : t[k] = q[k + 1]
  BY <1>2, <1>3
<1>5. \A k \in 1 .. Len(t) : k + 1 \in DOMAIN q /\ 1 \in 1 .. Len(t)
  BY <1>4
<1>6. \A k \in 1 .. Len(t) : t[k][1] = file[i] /\ t[k][2] = q[1][2]
  BY <1>2, <1>4, <1>5
<1>7. \A k \in DOMAIN t : /\ t[k][1] = file[i] /\ t[k][2] = t[1][2]
                         /\ t[k][2] = q[1][2]
  BY <1>4, <1>5, <1>6
<1> QED
  BY <1>1, <1>2, <1>3, <1>4, <1>7

LEMMA IndexWork ==
    ASSUME Shape, NEW i \in Indexers, Index(i)
    PROVE  Work'
<1>1. i \in Calls /\ i \notin Searches /\ CallTypes /\ WorkTypes /\ Work /\ TypeInv
  BY CodeIndexAssumption DEF Calls, Shape, TypeInv
<1>2. ASSUME NEW f \in Files, IndexFile(i, f) \/ RemoveFile(i, f) \/ NextFile(i, f)
      PROVE  Work'
  <2>1. PICK at \in {"remove", "forget"} : Remove(i, f, at)
    BY <1>2 DEF IndexFile, RemoveFile, NextFile
  <2>2. /\ file' = [file EXCEPT ![i] = f] /\ todo' = todo
        /\ pc' = [pc EXCEPT ![i] = at]
    BY <2>1 DEF Remove, Issue
  <2>3. file'[i] # None /\ pc'[i] \in {"remove", "forget"}
    BY <1>1, <2>2, CodeIndexAssumption DEF CallTypes, WorkTypes
  <2>4. WorkOf(i)'
    BY <2>3 DEF WorkOf, Working
  <2>5. \A j \in Indexers : j # i => file'[j] = file[j] /\ todo'[j] = todo[j]
    BY <1>1, <2>2 DEF WorkTypes
  <2> QED
    BY <1>1, <2>2, <2>4, <2>5, OthersWork
<1>3. CASE Restart(i)
  <2>1. \A j \in Indexers : /\ file'[j] = None /\ pc'[j] \in {"boot", "idle"}
    BY <1>3 DEF Restart, Calls
  <2> QED
    BY <2>1 DEF Work, WorkOf, Working
<1>4. ASSUME NEW at, pc' = [pc EXCEPT ![i] = at],
             file' = file, todo' = todo,
             at \in {"embed", "insert"} <=> pc[i] \in {"embed", "insert"},
             at \in Working <=> pc[i] \in Working
      PROVE  Work'
  <2>1. pc'[i] = at
    BY <1>1, <1>4 DEF CallTypes
  <2>2. WorkOf(i)'
    BY <1>1, <1>4, <2>1 DEF Work, WorkOf
  <2> QED
    BY <1>1, <1>4, <2>2, OthersWork
<1>5. CASE Loaded(i)
  BY <1>4, <1>5 DEF Loaded, CalledBack, Settle, indexVars, Working
<1>6. CASE FullIndex(i) \/ FullIndexIgnored(i) \/ FullIndexDone(i)
  <2>1. PICK at \in {"next", "idle"} : pc' = [pc EXCEPT ![i] = at]
    BY <1>6 DEF FullIndex, FullIndexIgnored, FullIndexDone
  <2>2. pc[i] \in {"idle", "probe", "next"} /\ file' = file /\ todo' = todo
    BY <1>6 DEF FullIndex, FullIndexIgnored, FullIndexDone, MayCall, indexVars
  <2> QED
    BY <1>4, <2>1, <2>2 DEF Working
<1>7. CASE Removed(i)
  BY <1>4, <1>7 DEF Removed, CalledBack, Settle, indexVars, Working
<1>8. CASE Embedded(i)
  BY <1>4, <1>8 DEF Embedded, Issue, indexVars, Working
<1>9. CASE Forgotten(i)
  BY <1>1, <1>9, LeaveWork DEF Forgotten
<1>10. CASE FileRead(i)
  <2>1. PICK n \in 0 .. MaxChunks : Proceed(i, Cut(file[i], n))
    BY <1>10 DEF FileRead
  <2>2. file[i] \in Files
    BY <1>1, <1>10 DEF FileRead, Work, WorkOf, Working, WorkTypes
  <2>3. PICK q : q = Cut(file[i], n)
    OBVIOUS
  <2>4. q \in Seq(Chunk) /\ \A k \in DOMAIN q : q[k][1] = file[i] /\ q[k][2] = version[file[i]]
    BY <1>1, <2>2, <2>3, CutTyped
  <2>5. \A k \in DOMAIN q : 1 \in DOMAIN q
    BY <2>4
  <2>6. \A k \in DOMAIN q : q[k][1] = file[i] /\ q[k][2] = q[1][2]
    BY <2>4, <2>5
  <2>7. Proceed(i, q) /\ file[i] # None
    BY <2>1, <2>2, <2>3, CodeIndexAssumption
  <2> QED
    BY <1>1, <2>4, <2>6, <2>7, ProceedWork
<1>11. CASE EmbeddingFailed(i)
  BY <1>1, <1>11, TailWork, ProceedWork DEF EmbeddingFailed
<1>12. CASE Added(i)
  <2>1. PICK chunks \in {<<>>, Tail(todo[i])} : Proceed(i, chunks)
    BY <1>12 DEF Added
  <2>2. CASE chunks = <<>>
    BY <1>1, <2>1, <2>2, LeaveWork DEF Proceed
  <2>3. CASE chunks = Tail(todo[i])
    BY <1>1, <1>12, <2>1, <2>3, TailWork, ProceedWork DEF Added, CalledBack
  <2> QED
    BY <2>1, <2>2, <2>3
<1> QED
  BY <1>2, <1>3, <1>5, <1>6, <1>7, <1>8, <1>9, <1>10, <1>11, <1>12 DEF Index

-----------------------------------------------------------------------------
LEMMA FindProtocol ==
    ASSUME Shape, NEW s \in Searches, Find(s)
    PROVE  Protocol'
<1>1. s \in Calls /\ s \notin Indexers /\ CallTypes /\ Protocol
  BY CodeIndexAssumption DEF Calls, Shape, TypeInv
<1>2. CASE Search(s)
  <2>1. stage[s] = "none" /\ done' = done
    BY <1>1, <1>2 DEF Search, Protocol, Stages, Waiting
  <2>2. CASE dirty
    <3>1. Issue(s, "restore") /\ point' = point
      BY <1>2, <2>2 DEF Search, searchVars
    <3>2. Stages' /\ Once'
      BY <1>1, <2>1, <3>1, IssueProtocol DEF Protocol, Waiting
    <3>3. \A t \in Searches : pc'[t] = "fetch" => pc[t] = "fetch"
      BY <1>1, <3>1 DEF Issue, CallTypes, Calls
    <3> QED
      BY <1>1, <3>1, <3>2, <3>3 DEF Protocol, Pointed
  <2>3. CASE ~dirty
    BY <1>1, <1>2, <2>1, <2>3, LookUpProtocol DEF Search, Shape, TypeInv, StoreTypes
  <2> QED
    BY <2>2, <2>3
<1>3. CASE Restored(s)
  <2>1. done # <<>> /\ Head(done) = s /\ done' = Tail(done)
    BY <1>3 DEF Restored, CalledBack
  <2>2. hnsw' \in Seq(Chunk)
    BY <1>1, <1>3, FitsTyped, RefilledTyped DEF Restored, Shape, TypeInv, CallTypes
  <2>3. LookUp(s, hnsw', moved[s]) \/ Return(s)
    BY <1>3 DEF Restored
  <2> QED
    BY <1>1, <2>1, <2>2, <2>3, LookUpProtocol, ReturnProtocol
<1>4. CASE Fetched(s)
  BY <1>1, <1>4, ReturnProtocol DEF Fetched, CalledBack
<1> QED
  BY <1>2, <1>3, <1>4 DEF Find

\* A search leaves the indexers alone.
LEMMA FindFrame ==
    ASSUME TypeInv, NEW s \in Searches, Find(s)
    PROVE  /\ \A c \in Calls : c # s => pc'[c] = pc[c] /\ stage'[c] = stage[c]
                                        /\ got'[c] = got[c]
           /\ \A t \in Searches : t # s => point'[t] = point[t] /\ moved'[t] = moved[t]
           /\ UNCHANGED <<rows, indexVars, contended, version>>
<1>1. s \in Calls /\ CallTypes
  BY DEF Calls, TypeInv
<1>2. UNCHANGED <<rows, indexVars, contended, version>>
  BY DEF Find, Search, Restored, Fetched, store
<1>3. PICK at : pc' = [pc EXCEPT ![s] = at]
  BY DEF Find, Search, Restored, Fetched, LookUp, Return, Issue, Settle
<1>4. PICK st : stage' = [stage EXCEPT ![s] = st]
  BY DEF Find, Search, Restored, Fetched, LookUp, Return, Issue, Settle
<1>5. got' = got \/ got' = [got EXCEPT ![s] = <<>>]
  BY DEF Find, Search, Restored, Fetched, LookUp, Return, searchVars
<1>6. \/ point' = point
      \/ \E p : point' = [point EXCEPT ![s] = p]
  BY DEF Find, Search, Restored, Fetched, LookUp, Return, searchVars
<1>7. \E p : moved' = [moved EXCEPT ![s] = p]
  BY DEF Find, Search, Restored, Fetched, LookUp, Return
<1> QED
  BY <1>1, <1>2, <1>3, <1>4, <1>5, <1>6, <1>7 DEF CallTypes

LEMMA FindWork ==
    ASSUME Shape, NEW s \in Searches, Find(s)
    PROVE  Work'
<1>1. \A i \in Indexers : pc'[i] = pc[i]
  BY FindFrame, CodeIndexAssumption DEF Shape, Calls
<1>2. file' = file /\ todo' = todo
  BY FindFrame DEF Shape, indexVars
<1> QED
  BY <1>1, <1>2 DEF Shape, Work, WorkOf

LEMMA ExecuteShape ==
    ASSUME Shape, NEW c \in Calls, Execute(c)
    PROVE  Shape'
<1>1. /\ pc' = pc /\ hnsw' = hnsw /\ dirty' = dirty /\ point' = point
      /\ moved' = moved /\ version' = version /\ file' = file /\ todo' = todo
      /\ stage' = [stage EXCEPT ![c] = "executed"] /\ done' = Append(done, c)
      /\ stage[c] = "issued" /\ Effect(c)
  BY DEF Execute, indexVars
<1>2. TypeInv /\ CallTypes /\ Work /\ Stages /\ Once /\ Pointed
  BY DEF Shape, TypeInv, Protocol
<1>3. pc[c] \in Waiting
  BY <1>1, <1>2 DEF Stages
<1>4. rows' \in Seq(Chunk) /\ got' \in [Calls -> Seq(Chunk)]
  <2>1. pc[c] = "fetch" => point[c] \in Point
    BY <1>2 DEF Pointed, CallTypes, Calls, IndexerStates
  <2> QED
    BY <1>1, <1>2, <1>3, <2>1, EffectTyped
<1>5. CallTypes'
  BY <1>1, <1>2, <1>4 DEF CallTypes
<1>6. StoreTypes' /\ WorkTypes'
  <2>1. crossed' \in BOOLEAN /\ contended' \in SUBSET Files
    BY <1>2 DEF Execute, Replaces, TypeInv, StoreTypes, WorkTypes
  <2> QED
    BY <1>1, <1>2, <1>4, <2>1 DEF TypeInv, StoreTypes, WorkTypes
<1>7. Work'
  BY <1>1, <1>2 DEF Work, WorkOf
<1>8. \A k \in DOMAIN done : done[k] # c
  BY <1>1, <1>2 DEF Stages
<1>9. /\ DOMAIN done' = 1 .. (Len(done) + 1) /\ DOMAIN done = 1 .. Len(done)
      /\ Len(done) \in Nat
      /\ \A k \in DOMAIN done : done'[k] = done[k]
      /\ done'[Len(done) + 1] = c
  BY <1>1, <1>2 DEF CallTypes
<1>10. Once'
  BY <1>2, <1>8, <1>9 DEF Once
<1>11. Stages'
  <2>1. \A d \in Calls : stage'[d] = IF d = c THEN "executed" ELSE stage[d]
    BY <1>1, <1>2 DEF CallTypes
  <2>2. ASSUME NEW d \in Calls
        PROVE  (\E k \in DOMAIN done' : done'[k] = d)
                  <=> d = c \/ \E k \in DOMAIN done : done[k] = d
    BY <1>9
  <2> QED
    BY <1>1, <1>2, <1>3, <2>1, <2>2 DEF Stages
<1>12. Pointed'
  BY <1>1, <1>2 DEF Pointed
<1> QED
  BY <1>5, <1>6, <1>7, <1>10, <1>11, <1>12 DEF Shape, TypeInv, Protocol

LEMMA RefuseShape ==
    ASSUME Shape, NEW c \in Calls, Refuse(c)
    PROVE  Shape'
<1>1. /\ stage[c] = "issued" /\ done' = done /\ version' = version
      /\ contended' = contended /\ rows' = rows /\ hnsw' = hnsw /\ dirty' = dirty
  BY DEF Refuse, store
<1>2. TypeInv /\ CallTypes /\ WorkTypes /\ StoreTypes /\ Work /\ Stages /\ Once
      /\ Pointed /\ Protocol /\ done \in Seq(Calls)
  BY DEF Shape, TypeInv, Protocol, CallTypes
<1>3. StoreTypes'
  BY <1>1, <1>2 DEF Refuse, StoreTypes
<1>4. CASE c \in Searches /\ Return(c) /\ UNCHANGED <<file, todo, crossed>>
  <2>1. CallTypes'
    BY <1>1, <1>2, <1>4, ReturnTyped
  <2>2. WorkTypes'
    BY <1>1, <1>2, <1>4 DEF WorkTypes
  <2>3. Protocol'
    BY <1>1, <1>2, <1>4, ReturnProtocol
  <2>4. \A i \in Indexers : pc'[i] = pc[i]
    BY <1>2, <1>4, CodeIndexAssumption DEF Return, Settle, CallTypes, Calls
  <2>5. Work'
    BY <1>2, <1>4, <2>4 DEF Work, WorkOf
  <2> QED
    BY <1>3, <2>1, <2>2, <2>3, <2>5 DEF Shape, TypeInv
<1>5. ASSUME c \in Indexers, NEW at, at \notin Waiting, Settle(c, at),
             UNCHANGED searchVars
      PROVE  Protocol'
  <2>1. Stages' /\ Once'
    BY <1>1, <1>2, <1>5, SettleProtocol
  <2>2. Pointed'
    BY <1>2, <1>5, IndexerPointed DEF Settle, searchVars
  <2> QED
    BY <2>1, <2>2 DEF Protocol
<1>6. CASE /\ pc[c] = "boot"
           /\ Settle(c, "probe") /\ crossed' = TRUE
           /\ UNCHANGED <<file, todo, searchVars, moved>>
  <2>1. c \in Indexers /\ c \notin Searches
    BY <1>2, <1>6, CodeIndexAssumption DEF Calls, CallTypes, SearchStates
  <2>2. CallTypes'
    BY <1>1, <1>2, <1>6, <2>1, SettleTyped DEF searchVars, IndexerStates, CallTypes
  <2>3. WorkTypes'
    BY <1>1, <1>2, <1>6 DEF WorkTypes
  <2>4. Protocol'
    BY <1>5, <1>6, <2>1 DEF Waiting
  <2>5. pc' = [pc EXCEPT ![c] = "probe"] /\ pc'[c] = "probe"
    BY <1>2, <1>6 DEF Settle, CallTypes
  <2>6. WorkOf(c)'
    BY <1>2, <1>6, <2>1, <2>5 DEF Work, WorkOf, Working
  <2>7. Work'
    BY <1>2, <1>6, <2>1, <2>5, <2>6, OthersWork
  <2> QED
    BY <1>3, <2>2, <2>3, <2>4, <2>7 DEF Shape, TypeInv
<1>7. CASE /\ c \in Indexers /\ pc[c] # "boot"
           /\ Leave(c) /\ UNCHANGED <<crossed, searchVars, moved>>
  <2>1. CallTypes' /\ WorkTypes'
    <3>1. <<>> \in Seq(Chunk)
      OBVIOUS
    <3> QED
      BY <1>1, <1>2, <1>7, <3>1, ProceedTyped
  <2>2. Protocol'
    BY <1>5, <1>7 DEF Leave, Caller, Waiting
  <2>3. Work'
    BY <1>2, <1>7, LeaveWork
  <2> QED
    BY <1>3, <2>1, <2>2, <2>3 DEF Shape, TypeInv
<1> QED
  BY <1>4, <1>6, <1>7 DEF Refuse

LEMMA EditShape ==
    ASSUME Shape, NEW f \in Files, Edit(f)
    PROVE  Shape'
<1>1. UNCHANGED <<store, indexVars, searchVars, history, pc, stage, done>>
  BY DEF Edit
<1>2. version' \in [Files -> 0 .. MaxVersion]
  BY CodeIndexAssumption DEF Edit, Shape, TypeInv, WorkTypes
<1>3. TypeInv'
  BY <1>1, <1>2 DEF store, indexVars, searchVars, history, Shape, TypeInv,
                    StoreTypes, WorkTypes, CallTypes
<1>4. Protocol' /\ Work'
  BY <1>1 DEF indexVars, searchVars, Shape, Protocol, Stages, Once, Pointed,
              Work, WorkOf
<1> QED
  BY <1>3, <1>4 DEF Shape

LEMMA ShapeKept == Shape /\ [Next]_vars => Shape'
<1> SUFFICES ASSUME Shape, [Next]_vars
             PROVE  Shape'
  OBVIOUS
<1>1. ASSUME NEW i \in Indexers, Index(i)
      PROVE  Shape'
  BY <1>1, IndexTypes, IndexProtocol, IndexWork DEF Shape
<1>2. ASSUME NEW s \in Searches, Find(s)
      PROVE  Shape'
  BY <1>2, FindTypes, FindProtocol, FindWork DEF Shape
<1>3. ASSUME NEW c \in Calls, Execute(c) \/ Refuse(c)
      PROVE  Shape'
  BY <1>3, ExecuteShape, RefuseShape
<1>4. ASSUME NEW f \in Files, Edit(f)
      PROVE  Shape'
  BY <1>4, EditShape
<1>5. CASE UNCHANGED vars
  BY <1>5 DEF vars, store, indexVars, searchVars, history, Shape, TypeInv,
              StoreTypes, WorkTypes, CallTypes, Protocol, Stages, Once,
              Pointed, Work, WorkOf
<1> QED
  BY <1>1, <1>2, <1>3, <1>4, <1>5 DEF Next

LEMMA InitShape == Init => Shape
<1> SUFFICES ASSUME Init
             PROVE  Shape
  OBVIOUS
<1>1. Protocol
  BY DEF Init, Protocol, Stages, Once, Pointed, Waiting, Calls
<1>2. Work
  BY DEF Init, Work, WorkOf, Working, Calls
<1> QED
  BY <1>1, <1>2, InitTypes DEF Shape

-----------------------------------------------------------------------------
(* One version of every file: a call that has an uncontended file for      *)
(* itself has removed its rows before it adds any.                          *)

VersionOf(i) ==
    file[i] \in Files \ contended =>
        /\ \A j \in Indexers : file[j] = file[i] => j = i
        /\ (pc[i] = "read" \/ (pc[i] = "remove" /\ stage[i] = "executed")) =>
               \A k \in DOMAIN rows : rows[k][1] # file[i]
        /\ pc[i] \in {"embed", "insert"} =>
               \A k \in DOMAIN rows :
                   rows[k][1] = file[i] => rows[k][2] = todo[i][1][2]

VersionInv == OneVersion /\ \A i \in Indexers : VersionOf(i)

\* A call that neither touches the table nor takes a file.
LEMMA VersionMove ==
    ASSUME Shape, VersionInv, NEW i \in Indexers,
           \A j \in Indexers : j # i =>
               /\ pc'[j] = pc[j] /\ stage'[j] = stage[j]
               /\ file'[j] = file[j] /\ todo'[j] = todo[j],
           file'[i] \in {file[i], None},
           rows' = rows, contended' = contended,
           file'[i] # None => VersionOf(i)'
    PROVE  VersionInv'
<1>1. OneVersion'
  BY DEF VersionInv, OneVersion
<1>2. ASSUME NEW j \in Indexers, j # i
      PROVE  VersionOf(j)'
  <2>1. SUFFICES ASSUME file[j] \in Files \ contended
                 PROVE  /\ \A k \in Indexers : file'[k] = file[j] => k = j
                        /\ VersionOf(j)
    BY <1>2 DEF VersionOf
  <2>2. \A k \in Indexers : file'[k] = file[k] \/ file'[k] = None
    OBVIOUS
  <2> QED
    BY <2>1, <2>2, CodeIndexAssumption DEF VersionInv, VersionOf
<1>3. VersionOf(i)'
  BY CodeIndexAssumption DEF VersionOf
<1> QED
  BY <1>1, <1>2, <1>3 DEF VersionInv

LEMMA RemoveVersion ==
    ASSUME Shape, VersionInv, NEW i \in Indexers, NEW f \in Files,
           NEW at \in {"remove", "forget"}, Remove(i, f, at),
           pc[i] \notin Working
    PROVE  VersionInv'
<1>1. /\ file' = [file EXCEPT ![i] = f] /\ rows' = rows /\ todo' = todo
      /\ pc' = [pc EXCEPT ![i] = at] /\ stage' = [stage EXCEPT ![i] = "issued"]
      /\ contended \subseteq contended'
      /\ f \notin contended' => \A j \in Indexers : file[j] # f
  BY DEF Remove, Issue, store
<1>2. \A j \in Indexers :
          /\ pc'[j] = IF j = i THEN at ELSE pc[j]
          /\ stage'[j] = IF j = i THEN "issued" ELSE stage[j]
          /\ file'[j] = IF j = i THEN f ELSE file[j]
  BY <1>1 DEF Shape, TypeInv, CallTypes, WorkTypes, Calls
<1>3. OneVersion'
  BY <1>1 DEF VersionInv, OneVersion
<1>4. VersionOf(i)'
  BY <1>1, <1>2 DEF VersionOf
<1>5. ASSUME NEW j \in Indexers, j # i
      PROVE  VersionOf(j)'
  <2>1. SUFFICES ASSUME file[j] \in Files \ contended'
                 PROVE  /\ file[j] # f
                        /\ file[j] \notin contended
                        /\ VersionOf(j)
    <3>1. \A k \in Indexers : file'[k] = file[k] \/ (k = i /\ file'[k] = f)
      BY <1>2
    <3> QED
      BY <1>1, <1>2, <1>5, <3>1 DEF VersionOf
  <2> QED
    BY <1>1, <2>1 DEF VersionInv
<1> QED
  BY <1>3, <1>4, <1>5 DEF VersionInv

LEMMA HeadExecuted ==
    ASSUME Shape, NEW c \in Calls, NEW at, CalledBack(c, at)
    PROVE  stage[c] = "executed" /\ pc[c] = at
<1>1. 1 \in DOMAIN done /\ done[1] = c
  BY DEF CalledBack, Shape, TypeInv, CallTypes
<1> QED
  BY <1>1 DEF CalledBack, Shape, Protocol, Stages

LEMMA IndexVersion ==
    ASSUME Shape, VersionInv, NEW i \in Indexers, Index(i)
    PROVE  VersionInv'
<1>1. i \in Calls /\ CallTypes /\ WorkTypes /\ Work /\ TypeInv
  BY DEF Calls, Shape, TypeInv
<1>2. ASSUME NEW f \in Files, IndexFile(i, f) \/ RemoveFile(i, f) \/ NextFile(i, f)
      PROVE  VersionInv'
  <2>1. PICK at \in {"remove", "forget"} : Remove(i, f, at)
    BY <1>2 DEF IndexFile, RemoveFile, NextFile
  <2>2. pc[i] \notin Working
    BY <1>2 DEF IndexFile, RemoveFile, NextFile, MayCall, Working
  <2> QED
    BY <2>1, <2>2, RemoveVersion
<1>3. CASE Restart(i)
  <2>1. /\ \A j \in Indexers : file'[j] = None
        /\ rows' = rows /\ contended' = contended
    BY <1>3 DEF Restart
  <2>2. OneVersion'
    BY <2>1 DEF VersionInv, OneVersion
  <2>3. \A j \in Indexers : VersionOf(j)'
    BY <2>1, CodeIndexAssumption DEF VersionOf
  <2> QED
    BY <2>2, <2>3 DEF VersionInv
<1>4. ASSUME NEW at, NEW st, pc' = [pc EXCEPT ![i] = at],
             stage' = [stage EXCEPT ![i] = st],
             file' = file, todo' = todo, rows' = rows, contended' = contended,
             pc'[i] = at => VersionOf(i)'
      PROVE  VersionInv'
  <2>1. pc'[i] = at
    BY <1>1, <1>4 DEF CallTypes
  <2>2. \A j \in Indexers : j # i => pc'[j] = pc[j] /\ stage'[j] = stage[j]
    BY <1>1, <1>4 DEF CallTypes, Calls
  <2> QED
    BY <1>4, <2>1, <2>2, VersionMove
<1>5. ASSUME Leave(i), rows' = rows, contended' = contended
      PROVE  VersionInv'
  <2>1. file'[i] = None
    BY <1>1, <1>5 DEF Leave, WorkTypes
  <2>2. \A j \in Indexers : j # i =>
            /\ pc'[j] = pc[j] /\ stage'[j] = stage[j]
            /\ file'[j] = file[j] /\ todo'[j] = todo[j]
    BY <1>1, <1>5 DEF Leave, Settle, CallTypes, WorkTypes, Calls
  <2> QED
    BY <1>5, <2>1, <2>2, VersionMove
<1>6. ASSUME NEW chunks \in Seq(Chunk), Proceed(i, chunks),
             rows' = rows, contended' = contended,
             file[i] \in Files \ contended =>
                 \A k \in DOMAIN rows :
                     rows[k][1] = file[i] => rows[k][2] = chunks[1][2],
             VersionOf(i) => (file[i] \in Files \ contended =>
                 \A j \in Indexers : file[j] = file[i] => j = i)
      PROVE  VersionInv'
  <2>1. CASE chunks = <<>>
    BY <1>5, <1>6, <2>1 DEF Proceed
  <2>2. CASE chunks # <<>>
    <3>1. /\ todo' = [todo EXCEPT ![i] = chunks] /\ file' = file
          /\ pc' = [pc EXCEPT ![i] = "embed"]
          /\ stage' = [stage EXCEPT ![i] = "none"]
      BY <1>6, <2>2 DEF Proceed, Settle
    <3>2. todo'[i] = chunks /\ pc'[i] = "embed"
      BY <1>1, <3>1 DEF CallTypes, WorkTypes
    <3>3. VersionOf(i)'
      BY <1>6, <3>1, <3>2 DEF VersionOf, VersionInv
    <3>4. \A j \in Indexers : j # i =>
              /\ pc'[j] = pc[j] /\ stage'[j] = stage[j]
              /\ file'[j] = file[j] /\ todo'[j] = todo[j]
      BY <1>1, <3>1 DEF CallTypes, WorkTypes, Calls
    <3> QED
      BY <1>6, <3>1, <3>3, <3>4, VersionMove
  <2> QED
    BY <2>1, <2>2
<1>7. CASE Loaded(i)
  <2>1. /\ pc' = [pc EXCEPT ![i] = "probe"] /\ stage' = [stage EXCEPT ![i] = "none"]
        /\ file' = file /\ todo' = todo /\ rows' = rows /\ contended' = contended
        /\ pc[i] = "boot"
    BY <1>7 DEF Loaded, Settle, CalledBack, indexVars, history
  <2>2. file[i] = None
    BY <1>1, <2>1 DEF Work, WorkOf, Working
  <2> QED
    BY <1>4, <2>1, <2>2, CodeIndexAssumption DEF VersionOf
<1>8. CASE FullIndex(i) \/ FullIndexIgnored(i) \/ FullIndexDone(i)
  <2>1. PICK at \in {"next", "idle"} : pc' = [pc EXCEPT ![i] = at]
    BY <1>8 DEF FullIndex, FullIndexIgnored, FullIndexDone
  <2>2. /\ file' = file /\ todo' = todo /\ stage' = stage
        /\ rows' = rows /\ contended' = contended
        /\ pc[i] \in {"idle", "probe", "next"}
    BY <1>8 DEF FullIndex, FullIndexIgnored, FullIndexDone, MayCall, store,
                history, indexVars
  <2>3. file[i] = None
    BY <1>1, <2>2 DEF Work, WorkOf, Working
  <2>4. stage' = [stage EXCEPT ![i] = stage[i]]
    BY <1>1, <2>2 DEF CallTypes
  <2> QED
    BY <1>4, <2>1, <2>2, <2>3, <2>4, CodeIndexAssumption DEF VersionOf
<1>9. CASE Removed(i)
  <2>1. /\ pc' = [pc EXCEPT ![i] = "read"] /\ stage' = [stage EXCEPT ![i] = "none"]
        /\ file' = file /\ todo' = todo /\ rows' = rows /\ contended' = contended
    BY <1>9 DEF Removed, Settle, indexVars, history
  <2>2. stage[i] = "executed" /\ pc[i] = "remove"
    BY <1>1, <1>9, HeadExecuted DEF Removed
  <2>3. VersionOf(i)
    BY DEF VersionInv
  <2>4. pc'[i] = "read" => VersionOf(i)'
    BY <2>1, <2>2, <2>3 DEF VersionOf
  <2> QED
    BY <1>4, <2>1, <2>4
<1>10. CASE Embedded(i)
  <2>1. /\ pc' = [pc EXCEPT ![i] = "insert"] /\ stage' = [stage EXCEPT ![i] = "issued"]
        /\ file' = file /\ todo' = todo /\ rows' = rows /\ contended' = contended
        /\ pc[i] = "embed"
    BY <1>10 DEF Embedded, Issue, store, indexVars
  <2>2. VersionOf(i)
    BY DEF VersionInv
  <2>3. pc'[i] = "insert" => VersionOf(i)'
    BY <2>1, <2>2 DEF VersionOf
  <2> QED
    BY <1>4, <2>1, <2>3
<1>11. CASE Forgotten(i)
  BY <1>5, <1>11 DEF Forgotten, history
<1>12. CASE FileRead(i)
  <2>1. PICK n \in 0 .. MaxChunks : Proceed(i, Cut(file[i], n))
    BY <1>12 DEF FileRead
  <2>2. pc[i] = "read" /\ rows' = rows /\ contended' = contended
    BY <1>12 DEF FileRead, store, history
  <2>3. Cut(file[i], n) \in Seq(Chunk)
    <3>1. file[i] \in Files
      BY <1>1, <2>2 DEF Work, WorkOf, Working, WorkTypes
    <3> QED
      BY <1>1, <3>1, CutTyped
  <2>4. file[i] \in Files \ contended =>
            \A k \in DOMAIN rows : rows[k][1] # file[i]
    BY <2>2 DEF VersionInv, VersionOf
  <2> QED
    BY <1>6, <2>1, <2>2, <2>3, <2>4 DEF VersionOf
<1>13. ASSUME pc[i] \in {"embed", "insert"}, Proceed(i, Tail(todo[i])),
              rows' = rows, contended' = contended
       PROVE  VersionInv'
  <2>1. PICK t : t = Tail(todo[i])
    OBVIOUS
  <2>2. t \in Seq(Chunk) /\ \A k \in DOMAIN t : t[k][2] = todo[i][1][2]
    BY <1>1, <1>13, <2>1, TailWork
  <2>3. t # <<>> => t[1][2] = todo[i][1][2]
    BY <2>2
  <2>4. CASE t = <<>>
    BY <1>5, <1>13, <2>1, <2>4 DEF Proceed
  <2>5. CASE t # <<>>
    BY <1>6, <1>13, <2>1, <2>2, <2>3, <2>5 DEF VersionInv, VersionOf
  <2> QED
    BY <2>4, <2>5
<1>14. CASE EmbeddingFailed(i)
  BY <1>13, <1>14 DEF EmbeddingFailed, store, history
<1>15. CASE Added(i)
  <2>1. /\ rows' = rows /\ contended' = contended
        /\ pc[i] = "insert"
        /\ Proceed(i, IF Room(hnsw) THEN Tail(todo[i]) ELSE <<>>)
    BY <1>15 DEF Added, CalledBack, history
  <2>2. CASE Room(hnsw)
    BY <1>13, <2>1, <2>2
  <2>3. CASE ~Room(hnsw)
    BY <1>5, <2>1, <2>3 DEF Proceed
  <2> QED
    BY <2>2, <2>3
<1> QED
  BY <1>2, <1>3, <1>7, <1>8, <1>9, <1>10, <1>11, <1>12, <1>14, <1>15 DEF Index

LEMMA ExecuteVersion ==
    ASSUME Shape, VersionInv, NEW c \in Calls, Execute(c)
    PROVE  VersionInv'
<1>1. /\ pc' = pc /\ file' = file /\ todo' = todo
      /\ stage' = [stage EXCEPT ![c] = "executed"]
      /\ stage[c] = "issued" /\ Effect(c)
      /\ contended' = contended \ (IF Clears(c) THEN {file[c]} ELSE {})
  BY DEF Execute, indexVars
<1>2. TypeInv /\ CallTypes /\ StoreTypes /\ WorkTypes /\ Work /\ Stages
  BY DEF Shape, TypeInv, Protocol
<1>3. pc[c] \in Waiting
  BY <1>1, <1>2 DEF Stages
<1>4. \A j \in Indexers : stage'[j] = IF j = c THEN "executed" ELSE stage[j]
  BY <1>1, <1>2 DEF CallTypes, Calls
<1>5. CASE pc[c] \in {"remove", "forget"}
  <2>1. c \in Indexers /\ file[c] \in Files
    <3>1. c \in Indexers
      BY <1>2, <1>5 DEF Calls, CallTypes, SearchStates
    <3> QED
      BY <1>2, <1>5, <3>1 DEF Work, WorkOf, Working, WorkTypes
  <2>2. rows' = Deleted(rows, file[c])
    BY <1>5 DEF Effect, Execute
  <2>3. \A k \in DOMAIN rows' :
            rows'[k][1] # file[c] /\ \E j \in DOMAIN rows : rows'[k] = rows[j]
    BY <1>2, <2>1, <2>2, DeletedTyped DEF StoreTypes
  <2>4. contended \subseteq contended' \cup {file[c]}
    BY <1>1
  <2>5. OneVersion'
    <3>1. SUFFICES ASSUME NEW f \in Files \ contended',
                          NEW j \in DOMAIN rows', NEW k \in DOMAIN rows',
                          rows'[j][1] = f, rows'[k][1] = f
                   PROVE  rows'[j][2] = rows'[k][2]
      BY Zenon DEF OneVersion
    <3>2. f # file[c] /\ f \in Files \ contended
      BY <2>3, <2>4, <3>1
    <3>3. PICK a, b \in DOMAIN rows : rows'[j] = rows[a] /\ rows'[k] = rows[b]
      BY <2>3
    <3> QED
      BY <3>1, <3>2, <3>3 DEF VersionInv, OneVersion
  <2>6. ASSUME NEW j \in Indexers, file[j] \in Files \ contended'
        PROVE  \A k \in Indexers : file[k] = file[j] => k = j
    <3>1. CASE file[j] \notin contended
      BY <2>6, <3>1 DEF VersionInv, VersionOf
    <3>2. CASE file[j] \in contended
      <4>1. Clears(c) /\ file[j] = file[c]
        BY <1>1, <2>6, <3>2
      <4>2. \A k \in Indexers : file[k] = file[c] => k = c
        BY <4>1 DEF Clears
      <4> QED
        BY <4>1, <4>2
    <3> QED
      BY <3>1, <3>2
  <2>7. ASSUME NEW j \in Indexers
        PROVE  VersionOf(j)'
    <3>1. CASE j = c
      BY <1>1, <1>5, <2>3, <2>6, <3>1 DEF VersionOf
    <3>2. CASE j # c
      <4>1. SUFFICES ASSUME file[j] \in Files \ contended'
                     PROVE  VersionOf(j)'
        BY <1>1 DEF VersionOf
      <4>2. file[j] # file[c]
        BY <2>1, <2>6, <3>2, <4>1
      <4>3. file[j] \in Files \ contended /\ VersionOf(j)
        BY <2>4, <4>1, <4>2 DEF VersionInv
      <4> QED
        BY <1>1, <1>4, <2>3, <3>2, <4>3 DEF VersionOf
    <3> QED
      BY <3>1, <3>2
  <2> QED
    BY <2>5, <2>7 DEF VersionInv
<1>6. CASE pc[c] = "insert"
  <2>1. c \in Indexers /\ file[c] \in Files
    <3>1. c \in Indexers
      BY <1>2, <1>6 DEF Calls, CallTypes, SearchStates
    <3> QED
      BY <1>2, <1>6, <3>1 DEF Work, WorkOf, Working, WorkTypes
  <2>2. PICK h \in Chunk : h = Head(todo[c]) /\ h[1] = file[c]
                           /\ h[2] = todo[c][1][2]
    <3>1. todo[c] \in Seq(Chunk) /\ todo[c] # <<>> /\ todo[c][1][1] = file[c]
      BY <1>2, <1>6, <2>1 DEF Work, WorkOf, WorkTypes
    <3> QED
      BY <3>1
  <2>3. rows' = Inserted(rows, h) /\ contended' = contended
    BY <1>1, <1>6, <2>2 DEF Effect, Clears
  <2>4. \A k \in DOMAIN rows' :
            rows'[k] = h \/ \E j \in DOMAIN rows : rows'[k] = rows[j]
    BY <1>2, <2>3, InsertedTyped DEF StoreTypes
  <2>5. file[c] \notin contended =>
            \A k \in DOMAIN rows :
                rows[k][1] = file[c] => rows[k][2] = todo[c][1][2]
    BY <1>6, <2>1 DEF VersionInv, VersionOf
  <2>6. OneVersion'
    <3>1. SUFFICES ASSUME NEW f \in Files \ contended',
                          NEW j \in DOMAIN rows', NEW k \in DOMAIN rows',
                          rows'[j][1] = f, rows'[k][1] = f
                   PROVE  rows'[j][2] = rows'[k][2]
      BY Zenon DEF OneVersion
    <3>2. CASE f = file[c]
      BY <2>2, <2>3, <2>4, <2>5, <3>1, <3>2
    <3>3. CASE f # file[c]
      <4>1. PICK a, b \in DOMAIN rows : rows'[j] = rows[a] /\ rows'[k] = rows[b]
        BY <2>2, <2>4, <3>1, <3>3
      <4> QED
        BY <2>3, <3>1, <4>1 DEF VersionInv, OneVersion
    <3> QED
      BY <3>2, <3>3
  <2>7. ASSUME NEW j \in Indexers
        PROVE  VersionOf(j)'
    <3>1. SUFFICES ASSUME file[j] \in Files \ contended
                   PROVE  VersionOf(j)'
      BY <1>1, <2>3 DEF VersionOf
    <3>2. VersionOf(j)
      BY DEF VersionInv
    <3>3. CASE j = c
      BY <1>1, <1>6, <2>2, <2>3, <2>4, <3>1, <3>2, <3>3 DEF VersionOf
    <3>4. CASE j # c
      <4>1. file[j] # file[c]
        BY <2>1, <3>1, <3>2, <3>4 DEF VersionOf
      <4> QED
        BY <1>1, <1>4, <2>2, <2>3, <2>4, <3>1, <3>2, <3>4, <4>1 DEF VersionOf
    <3> QED
      BY <3>3, <3>4
  <2> QED
    BY <2>6, <2>7 DEF VersionInv
<1>7. CASE pc[c] \in {"boot", "restore", "fetch"}
  <2>1. rows' = rows /\ contended' = contended
    BY <1>1, <1>7 DEF Effect, Clears
  <2>2. c \in Indexers => file[c] = None
    BY <1>2, <1>7 DEF Work, WorkOf, Working
  <2>3. OneVersion'
    BY <2>1 DEF VersionInv, OneVersion
  <2>4. ASSUME NEW j \in Indexers
        PROVE  VersionOf(j)'
    <3>1. CASE j = c
      BY <1>1, <2>2, <3>1, CodeIndexAssumption DEF VersionOf
    <3>2. CASE j # c
      BY <1>1, <1>4, <2>1, <3>2 DEF VersionInv, VersionOf
    <3> QED
      BY <3>1, <3>2
  <2> QED
    BY <2>3, <2>4 DEF VersionInv
<1> QED
  BY <1>3, <1>5, <1>6, <1>7 DEF Waiting

LEMMA VersionKept == Shape /\ VersionInv /\ [Next]_vars => VersionInv'
<1> SUFFICES ASSUME Shape, VersionInv, [Next]_vars
             PROVE  VersionInv'
  OBVIOUS
<1>1. ASSUME NEW i \in Indexers, Index(i)
      PROVE  VersionInv'
  BY <1>1, IndexVersion
<1>2. ASSUME rows' = rows, contended' = contended, file' = file, todo' = todo,
             \A j \in Indexers : pc'[j] = pc[j] /\ stage'[j] = stage[j]
      PROVE  VersionInv'
  BY <1>2 DEF VersionInv, OneVersion, VersionOf
<1>3. ASSUME NEW s \in Searches, Find(s)
      PROVE  VersionInv'
  <2>1. \A j \in Indexers : pc'[j] = pc[j] /\ stage'[j] = stage[j]
    BY <1>3, FindFrame, CodeIndexAssumption DEF Shape, Calls
  <2> QED
    BY <1>2, <1>3, <2>1, FindFrame DEF Shape, indexVars
<1>4. ASSUME NEW c \in Calls, Execute(c)
      PROVE  VersionInv'
  BY <1>4, ExecuteVersion
<1>5. ASSUME NEW c \in Calls, Refuse(c)
      PROVE  VersionInv'
  <2>1. rows' = rows /\ contended' = contended
    BY <1>5 DEF Refuse, store
  <2>2. \A j \in Indexers : j # c => pc'[j] = pc[j] /\ stage'[j] = stage[j]
    BY <1>5 DEF Refuse, Return, Leave, Settle, Shape, TypeInv, CallTypes, Calls
  <2>3. CASE c \in Searches /\ Return(c) /\ UNCHANGED <<file, todo, crossed>>
    BY <1>2, <2>1, <2>2, <2>3, CodeIndexAssumption
  <2>4. CASE pc[c] = "boot" /\ UNCHANGED <<file, todo>>
    <3>1. c \in Indexers
      BY <2>4 DEF Calls, Shape, TypeInv, CallTypes, SearchStates
    <3>2. file[c] = None
      BY <2>4, <3>1 DEF Shape, Work, WorkOf, Working
    <3> QED
      BY <2>1, <2>2, <2>4, <3>1, <3>2, VersionMove
  <2>5. CASE c \in Indexers /\ Leave(c)
    <3>1. /\ file'[c] = None
          /\ \A j \in Indexers : j # c => file'[j] = file[j] /\ todo'[j] = todo[j]
      BY <2>5 DEF Leave, Shape, TypeInv, WorkTypes
    <3> QED
      BY <2>1, <2>2, <2>5, <3>1, VersionMove
  <2> QED
    BY <1>5, <2>3, <2>4, <2>5 DEF Refuse
<1>6. ASSUME NEW f \in Files, Edit(f)
      PROVE  VersionInv'
  BY <1>2, <1>6 DEF Edit, store, indexVars, history
<1>7. CASE UNCHANGED vars
  BY <1>2, <1>7 DEF vars, store, indexVars, history
<1> QED
  BY <1>1, <1>3, <1>4, <1>5, <1>6, <1>7 DEF Next

\* OneVersion: the rows of a file on which no two calls have been working at
\* once are all cut from the same text, however the calls, the statements of
\* the database, its refusals, the restarts and the edits interleave.
THEOREM OneTextPerFile == Spec => []OneVersion
<1>1. Init => Shape /\ VersionInv
  <2>1. Init => VersionInv
    BY CodeIndexAssumption DEF Init, VersionInv, VersionOf, OneVersion
  <2> QED
    BY <2>1, InitShape
<1>2. Shape /\ VersionInv /\ [Next]_vars => (Shape /\ VersionInv)'
  BY ShapeKept, VersionKept
<1>3. Shape /\ VersionInv => OneVersion
  BY DEF VersionInv
<1> QED
  BY <1>1, <1>2, <1>3, PTL DEF Spec

-----------------------------------------------------------------------------
(* What the steps leave alone, for the invariants about the labels.        *)

\* An indexer's step that is not a restart.
LEMMA IndexFrame ==
    ASSUME TypeInv, NEW i \in Indexers, Index(i), ~Restart(i)
    PROVE  /\ \A c \in Calls : c # i =>
                  pc'[c] = pc[c] /\ stage'[c] = stage[c] /\ got'[c] = got[c]
           /\ \A j \in Indexers : j # i => file'[j] = file[j] /\ todo'[j] = todo[j]
           /\ rows' = rows /\ point' = point
<1>1. i \in Calls /\ CallTypes /\ WorkTypes
  BY DEF Calls, TypeInv
<1>2. rows' = rows /\ point' = point
  BY DEF Index, IndexFile, RemoveFile, NextFile, Remove, Loaded, FullIndex,
         FullIndexIgnored, FullIndexDone, Removed, Forgotten, FileRead, Embedded,
         EmbeddingFailed, Added, store, searchVars
<1>3. \E at : pc' = [pc EXCEPT ![i] = at]
  BY DEF Index, IndexFile, RemoveFile, NextFile, Remove, Loaded, FullIndex,
         FullIndexIgnored, FullIndexDone, Removed, Forgotten, FileRead, Embedded,
         EmbeddingFailed, Added, Issue, Settle, Proceed, Leave
<1>4. stage' = stage \/ \E st : stage' = [stage EXCEPT ![i] = st]
  BY DEF Index, IndexFile, RemoveFile, NextFile, Remove, Loaded, FullIndex,
         FullIndexIgnored, FullIndexDone, Removed, Forgotten, FileRead, Embedded,
         EmbeddingFailed, Added, Issue, Settle, Proceed, Leave
<1>5. got' = got \/ got' = [got EXCEPT ![i] = <<>>]
  BY DEF Index, IndexFile, RemoveFile, NextFile, Remove, Loaded, FullIndex,
         FullIndexIgnored, FullIndexDone, Removed, Forgotten, FileRead, Embedded,
         EmbeddingFailed, Added, searchVars
<1>6. file' = file \/ \E f : file' = [file EXCEPT ![i] = f]
  BY DEF Index, IndexFile, RemoveFile, NextFile, Remove, Loaded, FullIndex,
         FullIndexIgnored, FullIndexDone, Removed, Forgotten, FileRead, Embedded,
         EmbeddingFailed, Added, Proceed, Leave, indexVars
<1>7. todo' = todo \/ \E q : todo' = [todo EXCEPT ![i] = q]
  BY DEF Index, IndexFile, RemoveFile, NextFile, Remove, Loaded, FullIndex,
         FullIndexIgnored, FullIndexDone, Removed, Forgotten, FileRead, Embedded,
         EmbeddingFailed, Added, Proceed, Leave, indexVars
<1> QED
  BY <1>1, <1>2, <1>3, <1>4, <1>5, <1>6, <1>7 DEF CallTypes, WorkTypes

\* Where it goes, and what it does to the flags and the index.
LEMMA IndexMoves ==
    ASSUME TypeInv, NEW i \in Indexers, Index(i), ~Restart(i)
    PROVE  /\ pc'[i] # "boot"
           /\ pc'[i] = "probe" => Loaded(i)
           /\ pc'[i] = "insert" => ~Starting
           /\ pc'[i] \in Writes => Disturb
<1>1. i \in Calls /\ CallTypes
  BY DEF Calls, TypeInv
<1>2. ASSUME NEW f \in Files, IndexFile(i, f) \/ RemoveFile(i, f) \/ NextFile(i, f)
      PROVE  pc'[i] \in {"remove", "forget"} /\ Disturb
  BY <1>1, <1>2 DEF IndexFile, RemoveFile, NextFile, Remove, Issue, CallTypes
<1>3. CASE Loaded(i)
  BY <1>1, <1>3 DEF Loaded, Settle, CallTypes, Writes
<1>4. CASE FullIndex(i) \/ FullIndexIgnored(i) \/ FullIndexDone(i)
  BY <1>1, <1>4 DEF FullIndex, FullIndexIgnored, FullIndexDone, CallTypes, Writes
<1>5. CASE Removed(i)
  BY <1>1, <1>5 DEF Removed, Settle, CallTypes, Writes
<1>6. CASE Forgotten(i) \/ FileRead(i) \/ EmbeddingFailed(i) \/ Added(i)
  <2>1. PICK at \in {"next", "idle", "embed"} : Settle(i, at)
    BY <1>6 DEF Forgotten, FileRead, EmbeddingFailed, Added, Proceed, Leave, Caller
  <2> QED
    BY <1>1, <2>1 DEF Settle, CallTypes, Writes
<1>7. CASE Embedded(i)
  BY <1>1, <1>7 DEF Embedded, Issue, CallTypes, Writes
<1> QED
  BY <1>2, <1>3, <1>4, <1>5, <1>6, <1>7 DEF Index

LEMMA IndexFlags ==
    ASSUME TypeInv, NEW i \in Indexers, Index(i), ~Restart(i)
    PROVE  /\ dirty' = dirty \/ (dirty' = TRUE /\ pc[i] \in {"remove", "forget"})
           /\ hnsw' = hnsw \/ Loaded(i) \/ Added(i)
           /\ Disturb \/ (moved' = moved /\ crossed' = crossed)
           /\ done' = done \/ (done # <<>> /\ Head(done) = i /\ done' = Tail(done))
<1>1. dirty' = dirty \/ (dirty' = TRUE /\ pc[i] \in {"remove", "forget"})
  BY DEF Index, IndexFile, RemoveFile, NextFile, Remove, Loaded, FullIndex,
         FullIndexIgnored, FullIndexDone, Removed, Forgotten, FileRead, Embedded,
         EmbeddingFailed, Added, AfterAdd, CalledBack, store
<1>2. hnsw' = hnsw \/ Loaded(i) \/ Added(i)
  BY DEF Index, IndexFile, RemoveFile, NextFile, Remove, FullIndex,
         FullIndexIgnored, FullIndexDone, Removed, Forgotten, FileRead, Embedded,
         EmbeddingFailed, store
<1>3. Disturb \/ (moved' = moved /\ crossed' = crossed)
  BY DEF Index, IndexFile, RemoveFile, NextFile, Remove, Loaded, FullIndex,
         FullIndexIgnored, FullIndexDone, Removed, Forgotten, FileRead, Embedded,
         EmbeddingFailed, Added, history
<1>4. done' = done \/ (done # <<>> /\ Head(done) = i /\ done' = Tail(done))
  BY DEF Index, IndexFile, RemoveFile, NextFile, Remove, Loaded, FullIndex,
         FullIndexIgnored, FullIndexDone, Removed, Forgotten, FileRead, Embedded,
         EmbeddingFailed, Added, CalledBack
<1> QED
  BY <1>1, <1>2, <1>3, <1>4

LEMMA RefuseFrame ==
    ASSUME TypeInv, NEW c \in Calls, Refuse(c)
    PROVE  /\ \A d \in Calls : d # c =>
                  pc'[d] = pc[d] /\ stage'[d] = stage[d] /\ got'[d] = got[d]
           /\ \A j \in Indexers : j # c => file'[j] = file[j] /\ todo'[j] = todo[j]
           /\ \A t \in Searches : t # c => point'[t] = point[t] /\ moved'[t] = moved[t]
           /\ rows' = rows /\ hnsw' = hnsw /\ dirty' = dirty /\ done' = done
           /\ stage[c] = "issued" /\ pc'[c] \in {"idle", "probe", "next"}
           /\ c \in Searches => pc'[c] = "idle"
           /\ pc'[c] = "probe" => pc[c] = "boot"
           /\ crossed' = (crossed \/ pc[c] = "boot")
<1>1. CallTypes /\ WorkTypes /\ StoreTypes
  BY DEF TypeInv
<1>2. rows' = rows /\ hnsw' = hnsw /\ dirty' = dirty /\ done' = done
      /\ stage[c] = "issued"
  BY DEF Refuse, store
<1>3. CASE c \in Searches /\ Return(c) /\ UNCHANGED <<file, todo, crossed>>
  <2>1. pc[c] # "boot"
    BY <1>1, <1>3 DEF CallTypes, SearchStates
  <2> QED
    BY <1>1, <1>2, <1>3, <2>1 DEF Return, Settle, CallTypes, StoreTypes
<1>4. CASE /\ pc[c] = "boot"
           /\ Settle(c, "probe") /\ crossed' = TRUE
           /\ UNCHANGED <<file, todo, searchVars, moved>>
  <2>1. c \notin Searches
    BY <1>1, <1>4 DEF CallTypes, SearchStates
  <2> QED
    BY <1>1, <1>2, <1>4, <2>1 DEF Settle, searchVars, CallTypes
<1>5. CASE /\ c \in Indexers /\ pc[c] # "boot"
           /\ Leave(c) /\ UNCHANGED <<crossed, searchVars, moved>>
  <2>1. c \notin Searches
    BY <1>5, CodeIndexAssumption
  <2> QED
    BY <1>1, <1>2, <1>5, <2>1 DEF Leave, Caller, Settle, searchVars, CallTypes,
                                  WorkTypes, StoreTypes
<1> QED
  BY <1>3, <1>4, <1>5 DEF Refuse

-----------------------------------------------------------------------------
(* Starting: the first reading of the table has the index for itself.      *)

Booting == \E i \in Indexers : pc[i] = "boot"

\* A DELETE was executed and not yet called back.
Removing == \E k \in DOMAIN done : pc[done[k]] \in {"remove", "forget"}

StartInv ==
    /\ Starting => /\ \A j \in Indexers : pc[j] # "insert"
                   /\ \A s \in Searches : pc[s] = "idle"
    /\ \A i, j \in Indexers :
           pc[i] \in {"boot", "probe"} /\ pc[j] \in {"boot", "probe"} => i = j
    /\ \A i \in Indexers : pc[i] = "boot" =>
           /\ hnsw = <<>>
           /\ stage[i] = "executed" /\ ~dirty /\ ~Removing => got[i] = rows

\* Only a callback ends Removing, and it leaves the index dirty.
LEMMA RemovingPopped ==
    ASSUME Shape, NEW c \in Calls, done # <<>>, Head(done) = c,
           done' = Tail(done), \A d \in Calls : d # c => pc'[d] = pc[d],
           ~Removing', pc[c] \notin {"remove", "forget"}
    PROVE  ~Removing
<1>1. done \in Seq(Calls) /\ Once
  BY DEF Shape, TypeInv, CallTypes, Protocol
<1>2. SUFFICES ASSUME NEW k \in DOMAIN done, pc[done[k]] \in {"remove", "forget"}
               PROVE  FALSE
  BY DEF Removing
<1>3. done[k] # c /\ k # 1 /\ done[k] \in Calls
  BY <1>1, <1>2
<1>4. k - 1 \in DOMAIN done' /\ done'[k - 1] = done[k]
  BY <1>1, <1>3
<1> QED
  BY <1>2, <1>3, <1>4 DEF Removing

-----------------------------------------------------------------------------
\* A call whose DELETE was issued moves only when it is called back, and then
\* the index is dirty.
LEMMA MovesWhenCalled ==
    ASSUME TypeInv, NEW i \in Indexers, Index(i), ~Restart(i),
           pc[i] \in {"remove", "forget"}
    PROVE  done # <<>> /\ Head(done) = i /\ done' = Tail(done) /\ dirty'
BY DEF Index, IndexFile, RemoveFile, NextFile, MayCall, Loaded, FullIndex,
       FullIndexIgnored, FullIndexDone, Removed, Forgotten, FileRead, Embedded,
       EmbeddingFailed, Added, CalledBack

\* Every other step of an indexer begins where it waits for nothing.
LEMMA IndexCalled ==
    ASSUME Shape, NEW i \in Indexers, Index(i), ~Restart(i)
    PROVE  \/ stage[i] = "none" /\ done' = done /\ hnsw' = hnsw
           \/ done # <<>> /\ Head(done) = i /\ done' = Tail(done)
<1>1. i \in Calls
  BY DEF Calls
<1>2. pc[i] \notin Waiting => stage[i] = "none"
  BY <1>1 DEF Shape, Protocol, Stages
<1>3. ASSUME NEW f \in Files, IndexFile(i, f) \/ RemoveFile(i, f) \/ NextFile(i, f)
      PROVE  pc[i] \notin Waiting /\ done' = done /\ hnsw' = hnsw
  BY <1>3 DEF IndexFile, RemoveFile, NextFile, MayCall, Remove, store, Waiting
<1>4. CASE FullIndex(i) \/ FullIndexIgnored(i) \/ FullIndexDone(i)
  BY <1>2, <1>4 DEF FullIndex, FullIndexIgnored, FullIndexDone, MayCall, store,
                    Waiting
<1>5. CASE FileRead(i) \/ Embedded(i) \/ EmbeddingFailed(i)
  BY <1>2, <1>5 DEF FileRead, Embedded, EmbeddingFailed, store, Waiting
<1>6. CASE Loaded(i) \/ Removed(i) \/ Forgotten(i) \/ Added(i)
  BY <1>6 DEF Loaded, Removed, Forgotten, Added, CalledBack
<1> QED
  BY <1>2, <1>3, <1>4, <1>5, <1>6 DEF Index

LEMMA IndexNotRemoving ==
    ASSUME Shape, NEW i \in Indexers, Index(i), ~Restart(i), ~dirty', ~Removing'
    PROVE  ~dirty /\ ~Removing
<1>1. TypeInv /\ i \in Calls /\ \A c \in Calls : c # i => pc'[c] = pc[c]
  BY IndexFrame DEF Shape, Calls
<1>2. ~dirty
  BY <1>1, IndexFlags
<1>3. CASE stage[i] = "none" /\ done' = done
  <2>1. \A k \in DOMAIN done : done[k] \in Calls /\ done[k] # i
    BY <1>3 DEF Shape, TypeInv, CallTypes, Protocol, Stages
  <2> QED
    BY <1>1, <1>2, <1>3, <2>1 DEF Removing
<1>4. CASE done # <<>> /\ Head(done) = i /\ done' = Tail(done)
  <2>1. pc[i] \notin {"remove", "forget"}
    BY <1>1, MovesWhenCalled
  <2> QED
    BY <1>1, <1>2, <1>4, <2>1, RemovingPopped
<1> QED
  BY <1>3, <1>4, IndexCalled

LEMMA IndexStart ==
    ASSUME Shape, StartInv, NEW i \in Indexers, Index(i)
    PROVE  StartInv'
<1>1. i \in Calls /\ i \notin Searches /\ TypeInv /\ CallTypes
      /\ Indexers \subseteq Calls /\ Searches \subseteq Calls
  BY CodeIndexAssumption DEF Calls, Shape, TypeInv
<1>2. CASE Restart(i)
  <2>1. /\ \A c \in Calls : pc'[c] = IF c = i THEN "boot" ELSE "idle"
        /\ stage'[i] = "issued" /\ hnsw' = <<>>
    BY <1>1, <1>2 DEF Restart
  <2>2. \A c \in Calls : c # i => pc'[c] = "idle"
    BY <2>1
  <2>3. pc'[i] = "boot"
    BY <1>1, <2>1
  <2> QED
    BY <1>1, <2>1, <2>2, <2>3 DEF StartInv
<1>3. CASE ~Restart(i)
  <2>1. /\ \A c \in Calls : c # i =>
               pc'[c] = pc[c] /\ stage'[c] = stage[c] /\ got'[c] = got[c]
        /\ rows' = rows
    BY <1>1, <1>3, IndexFrame
  <2>2. /\ pc'[i] # "boot"
        /\ pc'[i] = "probe" => pc[i] = "boot"
        /\ pc'[i] = "insert" => ~Starting
    BY <1>1, <1>3, IndexMoves DEF Loaded, CalledBack
  <2>3. Starting' => Starting
    BY <1>1, <2>1, <2>2 DEF Starting
  <2>4. Starting' => /\ \A j \in Indexers : pc'[j] # "insert"
                     /\ \A s \in Searches : pc'[s] = "idle"
    BY <1>1, <2>1, <2>2, <2>3 DEF StartInv
  <2>5. \A j, k \in Indexers :
            pc'[j] \in {"boot", "probe"} /\ pc'[k] \in {"boot", "probe"} => j = k
    BY <1>1, <2>1, <2>2 DEF StartInv
  <2>6. ASSUME NEW j \in Indexers, pc'[j] = "boot"
        PROVE  /\ hnsw' = <<>>
               /\ stage'[j] = "executed" /\ ~dirty' /\ ~Removing' => got'[j] = rows'
    <3>1. j # i /\ pc[j] = "boot" /\ Starting
      BY <1>1, <2>1, <2>2, <2>6 DEF Starting
    <3>2. pc[i] # "boot" /\ pc[i] # "insert"
      BY <3>1 DEF StartInv
    <3>3. hnsw' = hnsw
      BY <1>1, <1>3, <3>2, IndexFlags DEF Loaded, Added, CalledBack
    <3>4. ~dirty' /\ ~Removing' => ~dirty /\ ~Removing
      BY <1>3, IndexNotRemoving
    <3>5. hnsw' = <<>>
      BY <3>1, <3>3 DEF StartInv
    <3>6. ASSUME stage'[j] = "executed", ~dirty', ~Removing'
          PROVE  got'[j] = rows'
      <4>1. stage[j] = "executed" /\ got'[j] = got[j]
        BY <1>1, <2>1, <3>1, <3>6
      <4>2. ~dirty /\ ~Removing
        BY <3>4, <3>6
      <4> QED
        BY <2>1, <3>1, <4>1, <4>2 DEF StartInv
    <3> QED
      BY <3>5, <3>6
  <2> QED
    BY <2>4, <2>5, <2>6 DEF StartInv
<1> QED
  BY <1>2, <1>3

-----------------------------------------------------------------------------
LEMMA FindStart ==
    ASSUME Shape, StartInv, NEW s \in Searches, Find(s)
    PROVE  StartInv' /\ ~Starting
<1>1. \A i \in Indexers : pc'[i] = pc[i]
  BY FindFrame, CodeIndexAssumption DEF Shape, Calls
<1>2. ~Starting
  BY DEF Find, Search, Restored, Fetched, CalledBack, StartInv
<1>3. ~Starting'
  BY <1>1, <1>2 DEF Starting
<1>4. \A i \in Indexers : pc'[i] \notin {"boot", "probe"}
  BY <1>3 DEF Starting
<1> QED
  BY <1>2, <1>3, <1>4 DEF StartInv

\* What a statement does to the table and to what a call has read.
LEMMA ExecuteFrame ==
    ASSUME Shape, NEW c \in Calls, Execute(c)
    PROVE  /\ UNCHANGED <<pc, hnsw, dirty, point, moved, file, todo>>
           /\ stage[c] = "issued" /\ pc[c] \in Waiting
           /\ \A d \in Calls : stage'[d] = IF d = c THEN "executed" ELSE stage[d]
           /\ \A d \in Calls : d # c => got'[d] = got[d]
           /\ rows' = rows \/ pc[c] \in Writes
           /\ pc[c] \in {"boot", "restore"} => got'[c] = rows
           /\ pc[c] = "fetch" => got'[c] = Row(rows, point[c].label)
           /\ done' = Append(done, c)
           /\ crossed => crossed'
<1>1. CallTypes /\ Stages
  BY DEF Shape, TypeInv, Protocol
<1>2. /\ UNCHANGED <<pc, hnsw, dirty, point, moved, file, todo>>
      /\ stage[c] = "issued" /\ Effect(c) /\ done' = Append(done, c)
      /\ stage' = [stage EXCEPT ![c] = "executed"]
      /\ crossed => crossed'
  BY DEF Execute, indexVars
<1>3. pc[c] \in Waiting
  BY <1>1, <1>2 DEF Stages
<1>4. CASE pc[c] \in Writes
  <2>1. got' = got
    BY <1>2, <1>4 DEF Effect, Writes
  <2> QED
    BY <1>1, <1>2, <1>3, <1>4, <2>1 DEF CallTypes, Writes
<1>5. CASE pc[c] \in {"boot", "restore"}
  <2>1. got' = [got EXCEPT ![c] = rows] /\ rows' = rows
    BY <1>2, <1>5 DEF Effect
  <2> QED
    BY <1>1, <1>2, <1>3, <1>5, <2>1 DEF CallTypes
<1>6. CASE pc[c] = "fetch"
  <2>1. got' = [got EXCEPT ![c] = Row(rows, point[c].label)] /\ rows' = rows
    BY <1>2, <1>6 DEF Effect
  <2> QED
    BY <1>1, <1>2, <1>3, <1>6, <2>1 DEF CallTypes
<1> QED
  BY <1>3, <1>4, <1>5, <1>6 DEF Waiting, Writes

\* The executed statements, and the new one.
LEMMA Appended ==
    ASSUME Shape, NEW c \in Calls, done' = Append(done, c)
    PROVE  /\ Len(done) \in Nat /\ Len(done') = Len(done) + 1
           /\ DOMAIN done = 1 .. Len(done) /\ DOMAIN done' = 1 .. Len(done) + 1
           /\ \A k \in DOMAIN done : done'[k] = done[k] /\ done[k] \in Calls
           /\ done'[Len(done) + 1] = c
BY DEF Shape, TypeInv, CallTypes

LEMMA ExecuteNotRemoving ==
    ASSUME Shape, NEW c \in Calls, Execute(c), ~Removing'
    PROVE  pc[c] \notin {"remove", "forget"} /\ ~Removing
<1>1. pc' = pc /\ done' = Append(done, c)
  BY ExecuteFrame
<1>2. pc'[done'[Len(done) + 1]] \notin {"remove", "forget"}
  BY <1>1, Appended DEF Removing
<1>3. \A k \in DOMAIN done : pc[done[k]] \notin {"remove", "forget"}
  BY <1>1, Appended DEF Removing
<1> QED
  BY <1>1, <1>2, <1>3, Appended DEF Removing

LEMMA ExecuteStart ==
    ASSUME Shape, StartInv, NEW c \in Calls, Execute(c)
    PROVE  StartInv'
<1>1. Indexers \subseteq Calls /\ pc' = pc /\ hnsw' = hnsw /\ dirty' = dirty
  BY ExecuteFrame DEF Calls
<1>2. ASSUME NEW i \in Indexers, pc[i] = "boot", stage'[i] = "executed", ~dirty,
             ~Removing'
      PROVE  got'[i] = rows'
  <2>1. Starting /\ pc[c] # "insert"
    <3>1. Starting
      BY <1>2 DEF Starting
    <3>2. c \in Searches => pc[c] = "idle"
      BY <3>1 DEF StartInv
    <3> QED
      BY <3>1, <3>2 DEF StartInv, Calls
  <2>2. pc[c] \notin {"remove", "forget"} /\ ~Removing
    BY <1>2, ExecuteNotRemoving
  <2>3. rows' = rows
    BY <2>1, <2>2, ExecuteFrame DEF Writes
  <2>4. CASE i = c
    BY <1>2, <2>3, <2>4, ExecuteFrame
  <2>5. CASE i # c
    <3>1. stage[i] = "executed" /\ got'[i] = got[i]
      BY <1>1, <1>2, <2>5, ExecuteFrame
    <3> QED
      BY <1>2, <2>2, <2>3, <3>1 DEF StartInv
  <2> QED
    BY <2>4, <2>5
<1>3. Starting' => Starting
  BY <1>1 DEF Starting
<1> QED
  BY <1>1, <1>2, <1>3 DEF StartInv

\* A call without an executed statement is not called back.
LEMMA NotDone ==
    ASSUME Shape, NEW c \in Calls, stage[c] # "executed"
    PROVE  \A k \in DOMAIN done : done[k] \in Calls /\ done[k] # c
BY DEF Shape, TypeInv, CallTypes, Protocol, Stages

LEMMA RefuseStart ==
    ASSUME Shape, StartInv, NEW c \in Calls, Refuse(c)
    PROVE  StartInv'
<1>1. /\ TypeInv /\ Indexers \subseteq Calls /\ Searches \subseteq Calls
      /\ \A d \in Calls : d # c =>
             pc'[d] = pc[d] /\ stage'[d] = stage[d] /\ got'[d] = got[d]
      /\ rows' = rows /\ hnsw' = hnsw /\ dirty' = dirty /\ done' = done
      /\ stage[c] = "issued" /\ pc'[c] \in {"idle", "probe", "next"}
      /\ c \in Searches => pc'[c] = "idle"
      /\ pc'[c] = "probe" => pc[c] = "boot"
  BY RefuseFrame DEF Shape, Calls
<1>2. Starting' => Starting
  BY <1>1 DEF Starting
<1>3. Removing => Removing'
  <2>1. \A k \in DOMAIN done : done[k] \in Calls /\ done[k] # c
    BY <1>1, NotDone
  <2> QED
    BY <1>1, <2>1 DEF Removing
<1>4. Starting' => /\ \A j \in Indexers : pc'[j] # "insert"
                   /\ \A s \in Searches : pc'[s] = "idle"
  BY <1>1, <1>2 DEF StartInv
<1>5. \A i, j \in Indexers :
          pc'[i] \in {"boot", "probe"} /\ pc'[j] \in {"boot", "probe"} => i = j
  BY <1>1 DEF StartInv
<1>6. \A i \in Indexers : pc'[i] = "boot" => i # c
  BY <1>1
<1>7. \A i \in Indexers : pc'[i] = "boot" =>
          /\ hnsw' = <<>>
          /\ stage'[i] = "executed" /\ ~dirty' /\ ~Removing' => got'[i] = rows'
  BY <1>1, <1>3, <1>6 DEF StartInv
<1> QED
  BY <1>4, <1>5, <1>7 DEF StartInv

LEMMA StartKept == Shape /\ StartInv /\ [Next]_vars => StartInv'
<1> SUFFICES ASSUME Shape, StartInv, [Next]_vars
             PROVE  StartInv'
  OBVIOUS
<1>1. ASSUME NEW f \in Files, Edit(f)
      PROVE  StartInv'
  BY <1>1 DEF Edit, store, indexVars, searchVars, history, StartInv, Starting,
              Removing
<1>2. CASE UNCHANGED vars
  BY <1>2 DEF vars, store, indexVars, searchVars, history, StartInv, Starting,
              Removing
<1> QED
  BY <1>1, <1>2, IndexStart, FindStart, ExecuteStart, RefuseStart DEF Next

-----------------------------------------------------------------------------
(* Rebuilding: a rebuild that no change crosses reads what it will label.  *)

RebuildOf(s) ==
    /\ ~Writing /\ dirty /\ hnsw = <<>>
    /\ \A t \in Searches : pc[t] = "restore" => t = s
    /\ stage[s] = "executed" => got[s] = rows
RebuildInv ==
    ~crossed => \A s \in Searches : pc[s] = "restore" => RebuildOf(s)

LEMMA IndexRebuild ==
    ASSUME Shape, StartInv, RebuildInv, NEW i \in Indexers, Index(i)
    PROVE  RebuildInv'
<1>1. TypeInv /\ Indexers \subseteq Calls /\ Searches \subseteq Calls
      /\ i \notin Searches
  BY CodeIndexAssumption DEF Shape, Calls
<1>2. CASE Restart(i)
  <2>1. \A s \in Searches : pc'[s] = "idle"
    BY <1>1, <1>2 DEF Restart
  <2> QED
    BY <2>1 DEF RebuildInv
<1>3. CASE ~Restart(i)
  <2>1. SUFFICES ASSUME ~crossed', NEW s \in Searches, pc'[s] = "restore"
                 PROVE  RebuildOf(s)'
    BY DEF RebuildInv
  <2>2. /\ \A c \in Calls : c # i =>
               pc'[c] = pc[c] /\ stage'[c] = stage[c] /\ got'[c] = got[c]
        /\ rows' = rows
    BY <1>1, <1>3, IndexFrame
  <2>3. pc[s] = "restore" /\ stage'[s] = stage[s] /\ got'[s] = got[s]
    BY <1>1, <2>1, <2>2
  <2>4. Rebuilding
    BY <2>3 DEF Rebuilding
  <2>5. ~Disturb /\ crossed' = crossed
    BY <1>1, <1>3, <2>1, <2>4, IndexFlags DEF Disturb
  <2>6. pc'[i] \notin Writes
    BY <1>1, <1>3, <2>5, IndexMoves
  <2>7. RebuildOf(s)
    BY <2>1, <2>3, <2>5 DEF RebuildInv
  <2>8. ~Writing'
    BY <1>1, <2>2, <2>6, <2>7 DEF Writing, RebuildOf
  <2>9. ~Starting
    BY <2>3 DEF StartInv
  <2>10. hnsw' = hnsw
    <3>1. pc[i] # "insert" /\ pc[i] # "boot"
      BY <2>7, <2>9 DEF RebuildOf, Writing, Writes, Starting
    <3> QED
      BY <1>1, <1>3, <3>1, IndexFlags DEF Loaded, Added, CalledBack
  <2>11. dirty'
    BY <1>1, <1>3, <2>7, IndexFlags DEF RebuildOf
  <2> QED
    BY <1>1, <2>2, <2>3, <2>7, <2>8, <2>10, <2>11 DEF RebuildOf
<1> QED
  BY <1>2, <1>3

LEMMA FindRebuild ==
    ASSUME Shape, RebuildInv, NEW s \in Searches, Find(s)
    PROVE  RebuildInv'
<1>1. /\ TypeInv /\ Indexers \subseteq Calls /\ Searches \subseteq Calls
      /\ s \notin Indexers
      /\ \A c \in Calls : c # s => pc'[c] = pc[c] /\ stage'[c] = stage[c]
                                   /\ got'[c] = got[c]
      /\ rows' = rows
  BY FindFrame, CodeIndexAssumption DEF Shape, Calls
<1>2. Writing' = Writing
  BY <1>1 DEF Writing
<1>3. SUFFICES ASSUME ~crossed', NEW t \in Searches, pc'[t] = "restore"
               PROVE  RebuildOf(t)'
  BY DEF RebuildInv
<1>4. CASE Search(s) /\ dirty
  <2>1. /\ pc' = [pc EXCEPT ![s] = "restore"]
        /\ stage' = [stage EXCEPT ![s] = "issued"]
        /\ hnsw' = <<>> /\ dirty' = dirty /\ crossed' = (Writing \/ Rebuilding)
    BY <1>4 DEF Search, Issue
  <2>2. ~Writing /\ \A u \in Searches : pc[u] # "restore"
    BY <1>3, <2>1 DEF Rebuilding
  <2>3. t = s /\ \A u \in Searches : pc'[u] = "restore" => u = s
    BY <1>1, <1>3, <2>2
  <2>4. stage'[s] = "issued"
    BY <1>1, <2>1 DEF TypeInv, CallTypes
  <2> QED
    BY <1>2, <1>4, <2>1, <2>2, <2>3, <2>4 DEF RebuildOf
<1>5. CASE ~(Search(s) /\ dirty)
  <2>1. pc'[s] # "restore" /\ crossed' = crossed
    <3>1. pc'[s] \in {"idle", "fetch"}
      BY <1>1, <1>5 DEF Find, Search, Restored, Fetched, LookUp, Return, Issue,
                        Settle, TypeInv, CallTypes
    <3>2. crossed' = crossed
      BY <1>5 DEF Find, Search, Restored, Fetched
    <3> QED
      BY <3>1, <3>2
  <2>2. t # s /\ pc[t] = "restore"
    BY <1>1, <1>3, <2>1
  <2>3. RebuildOf(t)
    BY <1>3, <2>1, <2>2 DEF RebuildInv
  <2>4. pc[s] # "restore"
    BY <2>2, <2>3 DEF RebuildOf
  <2>5. hnsw' = hnsw /\ dirty' = dirty
    BY <1>5, <2>3, <2>4 DEF Find, Search, Restored, Fetched, CalledBack, store,
                            RebuildOf
  <2> QED
    BY <1>1, <1>2, <2>1, <2>2, <2>3, <2>5 DEF RebuildOf
<1> QED
  BY <1>4, <1>5

LEMMA RebuildKept == Shape /\ StartInv /\ RebuildInv /\ [Next]_vars => RebuildInv'
<1> SUFFICES ASSUME Shape, StartInv, RebuildInv, [Next]_vars
             PROVE  RebuildInv'
  OBVIOUS
<1>1. ASSUME NEW c \in Calls, Execute(c)
      PROVE  RebuildInv'
  <2>1. SUFFICES ASSUME ~crossed', NEW s \in Searches, pc'[s] = "restore"
                 PROVE  RebuildOf(s)'
    BY DEF RebuildInv
  <2>2. /\ pc' = pc /\ hnsw' = hnsw /\ dirty' = dirty /\ ~crossed
        /\ s \in Calls
    BY <1>1, <2>1, ExecuteFrame DEF Calls
  <2>3. RebuildOf(s)
    BY <2>1, <2>2 DEF RebuildInv
  <2>4. pc[c] \notin Writes
    BY <2>3 DEF RebuildOf, Writing, Writes, Shape, TypeInv, CallTypes, Calls,
                SearchStates
  <2>5. rows' = rows
    BY <1>1, <2>4, ExecuteFrame
  <2>6. stage'[s] = "executed" => got'[s] = rows
    <3>1. CASE s = c
      BY <1>1, <2>1, <2>2, <3>1, ExecuteFrame
    <3>2. CASE s # c
      BY <1>1, <2>2, <2>3, <3>2, ExecuteFrame DEF RebuildOf
    <3> QED
      BY <3>1, <3>2
  <2> QED
    BY <2>2, <2>3, <2>5, <2>6 DEF RebuildOf, Writing
<1>2. ASSUME NEW c \in Calls, Refuse(c)
      PROVE  RebuildInv'
  <2>1. SUFFICES ASSUME ~crossed', NEW s \in Searches, pc'[s] = "restore"
                 PROVE  RebuildOf(s)'
    BY DEF RebuildInv
  <2>2. /\ TypeInv /\ Indexers \subseteq Calls /\ Searches \subseteq Calls
        /\ \A d \in Calls : d # c =>
               pc'[d] = pc[d] /\ stage'[d] = stage[d] /\ got'[d] = got[d]
        /\ rows' = rows /\ hnsw' = hnsw /\ dirty' = dirty
        /\ pc'[c] \in {"idle", "probe", "next"}
        /\ crossed' = (crossed \/ pc[c] = "boot")
    BY <1>2, RefuseFrame DEF Shape, Calls
  <2>3. s # c /\ pc[s] = "restore" /\ ~crossed
    BY <2>1, <2>2
  <2>4. RebuildOf(s)
    BY <2>3 DEF RebuildInv
  <2>5. ~Writing'
    BY <2>2, <2>4 DEF RebuildOf, Writing, Writes
  <2> QED
    BY <2>2, <2>3, <2>4, <2>5 DEF RebuildOf
<1>3. ASSUME NEW f \in Files, Edit(f)
      PROVE  RebuildInv'
  BY <1>3 DEF Edit, store, indexVars, searchVars, history, RebuildInv, RebuildOf,
              Writing
<1>4. CASE UNCHANGED vars
  BY <1>4 DEF vars, store, indexVars, searchVars, history, RebuildInv, RebuildOf,
              Writing
<1> QED
  BY <1>1, <1>2, <1>3, <1>4, IndexRebuild, FindRebuild DEF Next

-----------------------------------------------------------------------------
(* Labels: the rows the index has not taken yet are those of the executed  *)
(* INSERTs that were not called back, in the order of their callbacks.     *)

\* at[k] rows are labelled when the first k callbacks have been made.
Labels(at) ==
    /\ at \in [0 .. Len(done) -> 0 .. Len(rows)]
    /\ hnsw = Fits(SubSeq(rows, 1, at[0]))
    /\ at[Len(done)] = Len(rows)
    /\ \A k \in 1 .. Len(done) :
           IF pc[done[k]] = "insert"
           THEN at[k] = at[k - 1] + 1 /\ rows[at[k]] = Head(todo[done[k]])
           ELSE at[k] = at[k - 1]

LabelInv == ~dirty /\ ~crossed /\ ~Removing /\ ~Booting => \E at : Labels(at)

LEMMA RefilledEmpty ==
    ASSUME NEW t \in Seq(Chunk), hnsw = <<>>
    PROVE  Refilled(t) = t
<1>1. Len(hnsw) = 0
  OBVIOUS
<1>2. Refilled(t) = [i \in 1 .. Len(t) |-> t[i]]
  BY <1>1 DEF Refilled
<1> QED
  BY <1>2

LEMMA FitsLen ==
    ASSUME NEW t \in Seq(Chunk)
    PROVE  /\ Fits(t) \in Seq(Chunk)
           /\ Len(Fits(t)) = IF Len(t) < MaxElements THEN Len(t) ELSE MaxElements
           /\ \A k \in 1 .. Len(Fits(t)) : k <= Len(t) /\ Fits(t)[k] = t[k]
BY CodeIndexAssumption DEF Fits, Room

LEMMA Prefix ==
    ASSUME NEW t \in Seq(Chunk), NEW n \in Nat, n <= Len(t)
    PROVE  /\ SubSeq(t, 1, n) \in Seq(Chunk)
           /\ Len(SubSeq(t, 1, n)) = n
           /\ \A k \in 1 .. n : SubSeq(t, 1, n)[k] = t[k]
<1>1. 1 \in 1 .. Len(t) + 1 /\ n \in 1 - 1 .. Len(t)
  OBVIOUS
<1>2. PICK s : s = SubSeq(t, 1, n)
  OBVIOUS
<1>3. /\ s \in Seq(Chunk)
      /\ Len(s) = IF 1 <= n THEN n - 1 + 1 ELSE 0
      /\ \A k \in 1 .. n - 1 + 1 : s[k] = t[1 + k - 1]
  BY <1>1, <1>2, SubSeqProperties
<1>4. Len(s) = n /\ \A k \in 1 .. n : s[k] = t[k]
  BY <1>3
<1> QED
  BY <1>2, <1>3, <1>4

LEMMA FitsSame ==
    ASSUME NEW t \in Seq(Chunk), NEW u \in Seq(Chunk), NEW n \in Nat,
           n <= Len(t), n <= Len(u), \A k \in 1 .. n : t[k] = u[k]
    PROVE  SubSeq(t, 1, n) = SubSeq(u, 1, n)
OBVIOUS

\* addPoint labels the next row, as long as there is room.
LEMMA FitsNext ==
    ASSUME NEW t \in Seq(Chunk), NEW n \in Nat, n + 1 <= Len(t),
           NEW p, p = Fits(SubSeq(t, 1, n))
    PROVE  Fits(SubSeq(t, 1, n + 1)) = IF Room(p) THEN Append(p, t[n + 1]) ELSE p
<1>0. n <= Len(t) /\ n + 1 \in Nat
  OBVIOUS
<1>1. PICK a \in Seq(Chunk) : /\ a = SubSeq(t, 1, n) /\ Len(a) = n
                             /\ \A k \in 1 .. n : a[k] = t[k]
  BY <1>0, Prefix, Zenon
<1>2. PICK b \in Seq(Chunk) : /\ b = SubSeq(t, 1, n + 1) /\ Len(b) = n + 1
                             /\ \A k \in 1 .. n + 1 : b[k] = t[k]
  BY <1>0, Prefix, Zenon
<1>3. /\ Len(a) = n /\ Len(b) = n + 1
      /\ \A k \in 1 .. n : a[k] = t[k]
      /\ \A k \in 1 .. n + 1 : b[k] = t[k]
  BY <1>1, <1>2
<1>4. PICK q \in Seq(Chunk) : q = Fits(b)
  BY FitsTyped
<1>5. /\ Len(q) = IF n + 1 < MaxElements THEN n + 1 ELSE MaxElements
      /\ \A k \in 1 .. Len(q) : k <= n + 1 /\ q[k] = t[k]
  <2>1. /\ Len(q) = IF Len(b) < MaxElements THEN Len(b) ELSE MaxElements
        /\ \A k \in 1 .. Len(q) : k <= Len(b) /\ q[k] = b[k]
    BY <1>4, FitsLen
  <2> QED
    BY <1>3, <2>1
<1>6. /\ p \in Seq(Chunk)
      /\ Len(p) = IF n < MaxElements THEN n ELSE MaxElements
      /\ \A k \in 1 .. Len(p) : k <= n /\ p[k] = t[k]
  <2>1. p = Fits(a)
    BY <1>1
  <2>2. /\ p \in Seq(Chunk)
        /\ Len(p) = IF Len(a) < MaxElements THEN Len(a) ELSE MaxElements
        /\ \A k \in 1 .. Len(p) : k <= Len(a) /\ p[k] = a[k]
    BY <2>1, FitsLen
  <2> QED
    BY <1>3, <2>2
<1>7. CASE n < MaxElements
  <2>1. Room(p) /\ Len(p) = n
    BY <1>6, <1>7 DEF Room
  <2>2. Len(q) = n + 1
    BY <1>5, <1>7, CodeIndexAssumption
  <2>3. q = Append(p, t[n + 1])
    <3>1. t[n + 1] \in Chunk
      OBVIOUS
    <3>2. PICK h \in Chunk : h = t[n + 1]
      BY <3>1
    <3>5. PICK r \in Seq(Chunk) : r = Append(p, h)
      <4>1. p \in Seq(Chunk)
        BY <1>6
      <4> QED
        BY <4>1, AppendProperties, Zenon
    <3>3. Len(r) = n + 1 /\ \A k \in 1 .. n + 1 : r[k] = t[k]
      BY <1>6, <2>1, <3>2, <3>5
    <3>4. q = r
      BY <1>4, <1>5, <2>2, <3>2, <3>3, SeqEqual
    <3> QED
      BY <3>2, <3>4, <3>5
  <2> QED
    BY <1>2, <1>4, <2>1, <2>3
<1>8. CASE ~(n < MaxElements)
  <2>1. ~Room(p) /\ Len(p) = MaxElements
    BY <1>6, <1>8 DEF Room
  <2>2. Len(q) = MaxElements
    BY <1>5, <1>8, CodeIndexAssumption
  <2>3. q = p
    BY <1>4, <1>5, <1>6, <2>1, <2>2, SeqEqual
  <2> QED
    BY <1>2, <1>4, <2>1, <2>3
<1> QED
  BY <1>7, <1>8, CodeIndexAssumption

\* Nothing to label: every row has its label.
LEMMA ConstantLabels ==
    ASSUME Shape, NEW at, Labels(at),
           \A k \in DOMAIN done : pc[done[k]] # "insert"
    PROVE  at[0] = Len(rows) /\ hnsw = Fits(rows)
<1>1. Len(done) \in Nat /\ DOMAIN done = 1 .. Len(done) /\ rows \in Seq(Chunk)
  BY DEF Shape, TypeInv, CallTypes, StoreTypes
<1>2. \A k \in 1 .. Len(done) : at[k] = at[k - 1]
  BY <1>1 DEF Labels
<1> DEFINE P == {k \in Nat : k <= Len(done) => at[k] = at[0]}
<1>3. P = Nat
  <2>1. 0 \in P
    OBVIOUS
  <2>2. ASSUME NEW k \in P
        PROVE  k + 1 \in P
    <3>1. k + 1 \in 1 .. Len(done) => at[k + 1] = at[(k + 1) - 1]
      BY <1>2
    <3>2. (k + 1) - 1 = k
      OBVIOUS
    <3> QED
      BY <1>1, <3>1, <3>2
  <2> HIDE DEF P
  <2> QED
    BY <2>1, <2>2, NumbersInduction DEF P
<1>4. at[0] = Len(rows)
  <2>1. Len(done) \in P
    BY <1>1, <1>3
  <2> QED
    BY <2>1 DEF Labels
<1>5. SubSeq(rows, 1, Len(rows)) = rows
  BY <1>1
<1> QED
  BY <1>4, <1>5 DEF Labels

\* Every row is labelled, and no INSERT is pending.
LEMMA AllLabelled ==
    ASSUME rows' \in Seq(Chunk), done' \in Seq(Calls), hnsw' = Fits(rows'),
           \A k \in DOMAIN done' : pc'[done'[k]] # "insert"
    PROVE  \E at : Labels(at)'
<1>1. PICK e \in Nat : e = Len(rows')
  OBVIOUS
<1>2. PICK n \in Nat : n = Len(done')
  OBVIOUS
<1>3. PICK at : at = [k \in 0 .. n |-> e]
  OBVIOUS
<1>4. at \in [0 .. Len(done') -> 0 .. Len(rows')]
  BY <1>1, <1>2, <1>3
<1>5. \A k \in 0 .. n : at[k] = e
  BY <1>3
<1>6. hnsw' = Fits(SubSeq(rows', 1, at[0]))
  <2>1. SubSeq(rows', 1, Len(rows')) = rows'
    OBVIOUS
  <2>2. at[0] = Len(rows')
    BY <1>1, <1>2, <1>5
  <2> QED
    BY <2>1, <2>2
<1>7. \A k \in 1 .. n : at[k] = at[k - 1]
  BY <1>2, <1>5
<1>8. DOMAIN done' = 1 .. n
  BY <1>2
<1>9. \A k \in 1 .. Len(done') :
          IF pc'[done'[k]] = "insert"
          THEN at[k] = at[k - 1] + 1 /\ rows'[at[k]] = Head(todo'[done'[k]])
          ELSE at[k] = at[k - 1]
  BY <1>2, <1>7, <1>8
<1>10. at[Len(done')] = Len(rows')
  BY <1>1, <1>2, <1>5
<1>11. Labels(at)'
  BY <1>4, <1>6, <1>9, <1>10 DEF Labels
<1> QED
  BY <1>11

-----------------------------------------------------------------------------
\* The executed statements stay what they are.
LEMMA KeepLabels ==
    ASSUME Shape, NEW at, Labels(at), done' = done, rows' = rows, hnsw' = hnsw,
           \A k \in DOMAIN done :
               /\ pc'[done[k]] = "insert" <=> pc[done[k]] = "insert"
               /\ pc[done[k]] = "insert" => todo'[done[k]] = todo[done[k]]
    PROVE  Labels(at)'
<1>1. DOMAIN done = 1 .. Len(done)
  BY DEF Shape, TypeInv, CallTypes
<1>2. \A k \in 1 .. Len(done) :
          IF pc'[done[k]] = "insert"
          THEN at[k] = at[k - 1] + 1 /\ rows[at[k]] = Head(todo'[done[k]])
          ELSE at[k] = at[k - 1]
  BY <1>1 DEF Labels
<1> QED
  BY <1>2 DEF Labels

\* The first executed statement is called back.
LEMMA PopLabels ==
    ASSUME Shape, NEW at, Labels(at), NEW c, done # <<>>, Head(done) = c,
           done' = Tail(done), rows' = rows,
           hnsw' = Fits(SubSeq(rows, 1, at[1])),
           \A d \in Calls : d # c =>
               /\ pc'[d] = "insert" <=> pc[d] = "insert"
               /\ pc[d] = "insert" => todo'[d] = todo[d]
    PROVE  \E b : Labels(b)'
<1>1. /\ done \in Seq(Calls) /\ done' \in Seq(Calls) /\ rows \in Seq(Chunk)
      /\ Len(done) \in Nat /\ Len(done) >= 1 /\ Len(done') = Len(done) - 1
      /\ Len(rows) \in Nat
      /\ \A k \in 1 .. Len(done') : done'[k] = done[k + 1]
      /\ DOMAIN done = 1 .. Len(done) /\ DOMAIN done' = 1 .. Len(done')
      /\ done[1] = c /\ Once
  BY DEF Shape, TypeInv, CallTypes, StoreTypes, Protocol
<1>2. at \in [0 .. Len(done) -> 0 .. Len(rows)] /\ at[Len(done)] = Len(rows)
  BY DEF Labels
<1>3. PICK b : b = [k \in 0 .. Len(done') |-> at[k + 1]]
  OBVIOUS
<1>4. \A k \in 0 .. Len(done') : k + 1 \in 0 .. Len(done) /\ b[k] = at[k + 1]
  BY <1>1, <1>3
<1>5. b \in [0 .. Len(done') -> 0 .. Len(rows)]
  BY <1>2, <1>3, <1>4
<1>6. b[0] = at[1] /\ b[Len(done')] = Len(rows)
  BY <1>1, <1>2, <1>4
<1>7. ASSUME NEW k \in 1 .. Len(done')
      PROVE  IF pc'[done'[k]] = "insert"
             THEN b[k] = b[k - 1] + 1 /\ rows[b[k]] = Head(todo'[done'[k]])
             ELSE b[k] = b[k - 1]
  <2>1. PICK n \in 1 .. Len(done) : n = k + 1
    BY <1>1
  <2>2. /\ done'[k] = done[n] /\ b[k] = at[n] /\ b[k - 1] = at[n - 1]
        /\ n - 1 = k /\ n # 1
    BY <1>1, <1>4, <2>1
  <2>3. done[n] \in Calls /\ done[n] # c
    BY <1>1, <2>2 DEF Once
  <2>4. IF pc[done[n]] = "insert"
        THEN at[n] = at[n - 1] + 1 /\ rows[at[n]] = Head(todo[done[n]])
        ELSE at[n] = at[n - 1]
    BY DEF Labels
  <2>5. /\ pc'[done[n]] = "insert" <=> pc[done[n]] = "insert"
        /\ pc[done[n]] = "insert" => todo'[done[n]] = todo[done[n]]
    BY <2>3
  <2>6. CASE pc[done[n]] = "insert"
    BY <2>2, <2>4, <2>5, <2>6
  <2>7. CASE pc[done[n]] # "insert"
    BY <2>2, <2>4, <2>5, <2>7
  <2> QED
    BY <2>6, <2>7
<1>8. hnsw' = Fits(SubSeq(rows, 1, b[0]))
  BY <1>6
<1>9. Labels(b)'
  BY <1>5, <1>6, <1>7, <1>8 DEF Labels
<1> QED
  BY <1>9

\* A statement is executed: an INSERT of a new row, or no change of the table.
LEMMA PushLabels ==
    ASSUME Shape, NEW at, Labels(at), NEW c \in Calls, done' = Append(done, c),
           UNCHANGED <<pc, todo, hnsw>>,
           \/ pc[c] # "insert" /\ rows' = rows
           \/ /\ pc[c] = "insert" /\ Head(todo[c]) \in Chunk
              /\ rows' = Append(rows, Head(todo[c]))
    PROVE  \E b : Labels(b)'
<1> DEFINE n == Len(done)
<1>1. /\ n \in Nat /\ Len(done') = n + 1
      /\ DOMAIN done = 1 .. n /\ DOMAIN done' = 1 .. n + 1
      /\ \A k \in 1 .. n : done'[k] = done[k]
      /\ done'[n + 1] = c
  BY Appended
<1>2. rows \in Seq(Chunk) /\ Len(rows) \in Nat
  BY DEF Shape, TypeInv, StoreTypes
<1>3. /\ at \in [0 .. n -> 0 .. Len(rows)] /\ at[n] = Len(rows)
      /\ at[0] \in Nat /\ at[0] <= Len(rows)
  BY <1>1, <1>2 DEF Labels
<1>4. /\ rows' \in Seq(Chunk) /\ Len(rows') \in Nat
      /\ Len(rows') = IF pc[c] = "insert" THEN Len(rows) + 1 ELSE Len(rows)
      /\ \A k \in 1 .. Len(rows) : rows'[k] = rows[k]
      /\ pc[c] = "insert" => rows'[Len(rows) + 1] = Head(todo[c])
  <2>1. CASE pc[c] # "insert"
    BY <1>2, <2>1
  <2>2. CASE pc[c] = "insert"
    <3>1. PICK h \in Chunk : h = Head(todo[c])
      BY <2>2
    <3>2. rows' = Append(rows, h)
      BY <2>2, <3>1
    <3>3. /\ rows' \in Seq(Chunk) /\ Len(rows') = Len(rows) + 1
          /\ \A k \in 1 .. Len(rows) : rows'[k] = rows[k]
          /\ rows'[Len(rows) + 1] = h
      BY <1>2, <3>2
    <3> QED
      BY <1>2, <2>2, <3>1, <3>3
  <2> QED
    BY <2>1, <2>2
<1>5. PICK m : m = n
  OBVIOUS
<1>6. PICK e : e = Len(rows)
  OBVIOUS
<1>7. PICK b : b = [k \in 0 .. m + 1 |->
                       IF k <= m THEN at[k]
                       ELSE IF pc[c] = "insert" THEN e + 1 ELSE e]
  OBVIOUS
<1>8. /\ \A k \in 0 .. m : b[k] = at[k]
      /\ b[m + 1] = Len(rows')
      /\ m \in Nat
  BY <1>1, <1>4, <1>5, <1>6, <1>7
<1>9. b \in [0 .. Len(done') -> 0 .. Len(rows')]
  BY <1>1, <1>2, <1>3, <1>4, <1>5, <1>6, <1>7
<1>10. hnsw' = Fits(SubSeq(rows', 1, b[0]))
  <2>1. SubSeq(rows', 1, at[0]) = SubSeq(rows, 1, at[0])
    BY <1>2, <1>3, <1>4, FitsSame
  <2>2. b[0] = at[0]
    BY <1>8
  <2> QED
    BY <2>1, <2>2 DEF Labels
<1>11. ASSUME NEW k \in 1 .. Len(done')
       PROVE  IF pc'[done'[k]] = "insert"
              THEN b[k] = b[k - 1] + 1 /\ rows'[b[k]] = Head(todo'[done'[k]])
              ELSE b[k] = b[k - 1]
  <2>1. CASE k \in 1 .. n
    <3>1. /\ done'[k] = done[k] /\ b[k] = at[k] /\ b[k - 1] = at[k - 1]
          /\ at[k] \in 0 .. Len(rows) /\ at[k - 1] \in 0 .. Len(rows)
      <4>1. k \in 0 .. n /\ k - 1 \in 0 .. n
        BY <1>1, <2>1
      <4>2. b[k] = at[k] /\ b[k - 1] = at[k - 1]
        BY <1>5, <1>8, <4>1
      <4>3. at[k] \in 0 .. Len(rows) /\ at[k - 1] \in 0 .. Len(rows)
        BY <1>3, <4>1
      <4> QED
        BY <1>1, <2>1, <4>2, <4>3
    <3>2. IF pc[done[k]] = "insert"
          THEN at[k] = at[k - 1] + 1 /\ rows[at[k]] = Head(todo[done[k]])
          ELSE at[k] = at[k - 1]
      BY <2>1 DEF Labels
    <3>3. CASE pc[done[k]] = "insert"
      <4>1. at[k] \in 1 .. Len(rows)
        BY <1>2, <3>1, <3>2, <3>3
      <4> QED
        BY <1>4, <3>1, <3>2, <3>3, <4>1
    <3>4. CASE pc[done[k]] # "insert"
      BY <3>1, <3>2, <3>4
    <3> QED
      BY <3>3, <3>4
  <2>2. CASE k = n + 1
    <3>1. /\ done'[k] = c /\ b[k] = Len(rows') /\ b[k - 1] = Len(rows)
      BY <1>1, <1>3, <1>5, <1>8, <2>2
    <3> QED
      BY <1>2, <1>4, <3>1
  <2> QED
    BY <1>1, <2>1, <2>2
<1>12. b[Len(done')] = Len(rows')
  BY <1>1, <1>5, <1>8
<1>13. Labels(b)'
  BY <1>9, <1>10, <1>11, <1>12 DEF Labels
<1> QED
  BY <1>13

-----------------------------------------------------------------------------
\* A callback that is not an INSERT's changes no label.
LEMMA PopOther ==
    ASSUME Shape, NEW at, Labels(at), NEW c \in Calls, done # <<>>, Head(done) = c,
           done' = Tail(done), rows' = rows, hnsw' = hnsw, pc[c] # "insert",
           \A d \in Calls : d # c =>
               /\ pc'[d] = "insert" <=> pc[d] = "insert"
               /\ pc[d] = "insert" => todo'[d] = todo[d]
    PROVE  \E b : Labels(b)'
<1>1. 1 \in 1 .. Len(done) /\ done[1] = c
  BY DEF Shape, TypeInv, CallTypes
<1>2. at[1] = at[1 - 1]
  BY <1>1 DEF Labels
<1>3. hnsw' = Fits(SubSeq(rows, 1, at[1]))
  BY <1>2 DEF Labels
<1> QED
  BY <1>3, PopLabels

LEMMA IndexLabels ==
    ASSUME Shape, StartInv, LabelInv, NEW i \in Indexers, Index(i)
    PROVE  LabelInv'
<1>1. /\ TypeInv /\ i \in Calls /\ i \notin Searches
      /\ Indexers \subseteq Calls /\ Searches \subseteq Calls
  BY CodeIndexAssumption DEF Shape, Calls
<1>2. CASE Restart(i)
  <2>1. pc'[i] = "boot"
    BY <1>1, <1>2 DEF Restart
  <2> QED
    BY <2>1 DEF LabelInv, Booting
<1>3. CASE ~Restart(i)
  <2>1. SUFFICES ASSUME ~dirty', ~crossed', ~Removing', ~Booting'
                 PROVE  \E at : Labels(at)'
    BY DEF LabelInv
  <2>2. ~dirty /\ ~Removing
    BY <1>3, <2>1, IndexNotRemoving
  <2>3. ~crossed
    BY <1>1, <1>3, <2>1, IndexFlags DEF Disturb
  <2>4. /\ \A c \in Calls : c # i =>
               pc'[c] = pc[c] /\ stage'[c] = stage[c] /\ got'[c] = got[c]
        /\ \A j \in Indexers : j # i => file'[j] = file[j] /\ todo'[j] = todo[j]
        /\ rows' = rows
    BY <1>1, <1>3, IndexFrame
  <2>5. \A d \in Calls : d # i =>
            /\ pc'[d] = "insert" <=> pc[d] = "insert"
            /\ pc[d] = "insert" => todo'[d] = todo[d]
    <3>1. \A d \in Calls : pc[d] = "insert" => d \in Indexers
      BY <1>1 DEF TypeInv, CallTypes, SearchStates, Calls
    <3> QED
      BY <2>4, <3>1
  <2>6. CASE pc[i] = "boot"
    <3>1. Loaded(i)
      BY <1>3, <2>6 DEF Index, IndexFile, RemoveFile, NextFile, MayCall, FullIndex,
                        FullIndexIgnored, FullIndexDone, Removed, Forgotten,
                        FileRead, Embedded, EmbeddingFailed, Added, CalledBack
    <3>2. stage[i] = "executed"
      BY <1>1, <3>1, HeadExecuted DEF Loaded
    <3>3. got[i] = rows /\ hnsw = <<>>
      BY <2>2, <2>6, <3>2 DEF StartInv
    <3>4. hnsw' = Fits(rows)
      <4>1. hnsw' = Refilled(Fits(rows)) /\ rows \in Seq(Chunk)
        BY <3>1, <3>3 DEF Loaded, Shape, TypeInv, StoreTypes
      <4> QED
        BY <3>3, <4>1, FitsTyped, RefilledEmpty
    <3>5. \A d \in Calls : pc'[d] # "insert"
      <4>1. Starting
        BY <2>6 DEF Starting
      <4>2. \A d \in Calls : pc[d] # "insert"
        BY <4>1 DEF StartInv, Calls
      <4>3. pc'[i] # "insert"
        BY <1>1, <1>3, <4>1, IndexMoves
      <4> QED
        BY <2>4, <4>2, <4>3
    <3>6. done' \in Seq(Calls) /\ rows' \in Seq(Chunk)
      BY <1>1, <2>4, <3>1, TailTyped DEF Loaded, TypeInv, StoreTypes
    <3>7. \A k \in DOMAIN done' : pc'[done'[k]] # "insert"
      BY <3>5, <3>6
    <3> QED
      BY <2>4, <3>4, <3>6, <3>7, AllLabelled
  <2>7. CASE pc[i] # "boot"
    <3>1. ~Booting
      BY <1>1, <2>1, <2>4, <2>7 DEF Booting
    <3>2. PICK at : Labels(at)
      BY <2>2, <2>3, <3>1 DEF LabelInv
    <3>3. CASE stage[i] = "none" /\ done' = done /\ hnsw' = hnsw
      <4>1. \A k \in DOMAIN done : done[k] \in Calls /\ done[k] # i
        BY <3>3 DEF Shape, TypeInv, CallTypes, Protocol, Stages
      <4>2. \A k \in DOMAIN done :
                /\ pc'[done[k]] = "insert" <=> pc[done[k]] = "insert"
                /\ pc[done[k]] = "insert" => todo'[done[k]] = todo[done[k]]
        BY <2>5, <4>1
      <4>3. Labels(at)'
        BY <2>4, <3>2, <3>3, <4>2, KeepLabels
      <4> QED
        BY <4>3
    <3>4. CASE done # <<>> /\ Head(done) = i /\ done' = Tail(done)
      <4>1. CASE pc[i] # "insert"
        <5>1. hnsw' = hnsw
          BY <1>1, <1>3, <2>7, <4>1, IndexFlags DEF Loaded, Added, CalledBack
        <5> QED
          BY <1>1, <2>4, <2>5, <3>2, <3>4, <4>1, <5>1, PopOther
      <4>2. CASE pc[i] = "insert"
        <5>1. Added(i)
          BY <1>3, <4>2 DEF Index, IndexFile, RemoveFile, NextFile, MayCall,
                            FullIndex, FullIndexIgnored, FullIndexDone, Removed,
                            Forgotten, FileRead, Embedded, EmbeddingFailed,
                            Loaded, CalledBack
        <5>2. /\ rows \in Seq(Chunk) /\ Len(rows) \in Nat
              /\ 1 \in 1 .. Len(done) /\ done[1] = i
              /\ at \in [0 .. Len(done) -> 0 .. Len(rows)]
          BY <3>2, <3>4 DEF Shape, TypeInv, StoreTypes, CallTypes, Labels
        <5>3. at[1] = at[1 - 1] + 1 /\ rows[at[1]] = Head(todo[i])
          BY <3>2, <4>2, <5>2 DEF Labels
        <5>4. PICK n \in Nat : n = at[0] /\ n + 1 = at[1] /\ n + 1 <= Len(rows)
                               /\ rows[n + 1] = Head(todo[i])
          BY <5>2, <5>3
        <5>5. hnsw = Fits(SubSeq(rows, 1, n))
          BY <3>2, <5>4 DEF Labels
        <5>6. Fits(SubSeq(rows, 1, n + 1))
                = IF Room(hnsw) THEN Append(hnsw, rows[n + 1]) ELSE hnsw
          BY <5>2, <5>4, <5>5, FitsNext
        <5>7. hnsw' = Fits(SubSeq(rows, 1, at[1]))
          BY <5>1, <5>4, <5>6 DEF Added
        <5> QED
          BY <2>4, <2>5, <3>2, <3>4, <5>7, PopLabels
      <4> QED
        BY <4>1, <4>2
    <3> QED
      BY <1>3, <3>3, <3>4, IndexCalled
  <2> QED
    BY <2>6, <2>7
<1> QED
  BY <1>2, <1>3

LEMMA FindLabels ==
    ASSUME Shape, StartInv, RebuildInv, LabelInv, NEW s \in Searches, Find(s)
    PROVE  LabelInv'
<1>1. /\ TypeInv /\ s \in Calls /\ s \notin Indexers
      /\ Indexers \subseteq Calls /\ Searches \subseteq Calls
      /\ \A c \in Calls : c # s => pc'[c] = pc[c]
      /\ UNCHANGED <<rows, todo>> /\ rows \in Seq(Chunk)
  BY FindFrame, CodeIndexAssumption
     DEF Shape, Calls, indexVars, TypeInv, StoreTypes
<1>2. ~Booting /\ ~Booting'
  <2>1. ~Booting
    BY FindStart DEF Starting, Booting
  <2> QED
    BY <1>1, <2>1 DEF Booting
<1>3. SUFFICES ASSUME ~dirty', ~crossed', ~Removing'
               PROVE  \E at : Labels(at)'
  BY DEF LabelInv
<1>4. pc[s] \in SearchStates /\ pc'[s] \in SearchStates
  BY FindTypes DEF Shape, TypeInv, CallTypes
<1>5. \A d \in Calls : pc'[d] = "insert" <=> pc[d] = "insert"
  BY <1>1, <1>4 DEF SearchStates
<1>6. CASE Search(s)
  <2>1. ~dirty /\ done' = done /\ hnsw' = hnsw /\ crossed' = crossed
    BY <1>3, <1>6 DEF Search
  <2>2. \A k \in DOMAIN done : done[k] \in Calls /\ done[k] # s
    <3>1. stage[s] = "none"
      BY <1>1, <1>6 DEF Search, Shape, Protocol, Stages, Waiting
    <3> QED
      BY <1>1, <3>1, NotDone
  <2>3. ~Removing
    BY <1>1, <1>3, <2>1, <2>2 DEF Removing
  <2>4. PICK at : Labels(at)
    BY <1>2, <1>3, <2>1, <2>3 DEF LabelInv
  <2>5. Labels(at)'
    BY <1>1, <1>5, <2>1, <2>2, <2>4, KeepLabels
  <2> QED
    BY <2>5
<1>7. CASE Restored(s)
  <2>1. ~crossed /\ pc[s] = "restore"
    BY <1>3, <1>7 DEF Restored, CalledBack
  <2>2. RebuildOf(s)
    BY <2>1 DEF RebuildInv
  <2>3. stage[s] = "executed"
    BY <1>1, <1>7, HeadExecuted DEF Restored
  <2>4. got[s] = rows /\ hnsw = <<>> /\ dirty /\ ~Writing
    BY <2>2, <2>3 DEF RebuildOf
  <2>5. Fits(rows) = rows /\ hnsw' = Refilled(Fits(rows))
    BY <1>3, <1>7, <2>4 DEF Restored
  <2>6. hnsw' = Fits(rows')
    BY <1>1, <2>4, <2>5, RefilledEmpty
  <2>7. done' \in Seq(Calls)
    BY <1>1, <1>7, TailTyped DEF Restored, TypeInv
  <2>8. \A d \in Calls : pc[d] # "insert"
    BY <1>1, <2>4 DEF Writing, Writes, Calls, TypeInv, CallTypes, SearchStates
  <2>9. \A k \in DOMAIN done' : pc'[done'[k]] # "insert"
    BY <1>5, <2>7, <2>8
  <2> QED
    BY <1>1, <2>6, <2>7, <2>9, AllLabelled
<1>8. CASE Fetched(s)
  <2>1. /\ done # <<>> /\ Head(done) = s /\ done' = Tail(done) /\ pc[s] = "fetch"
        /\ hnsw' = hnsw /\ dirty' = dirty /\ crossed' = crossed
    BY <1>8 DEF Fetched, CalledBack, store
  <2>2. ~Removing
    BY <1>1, <1>3, <2>1, RemovingPopped
  <2>3. PICK at : Labels(at)
    BY <1>2, <1>3, <2>1, <2>2 DEF LabelInv
  <2> QED
    BY <1>1, <1>5, <2>1, <2>3, PopOther
<1> QED
  BY <1>6, <1>7, <1>8 DEF Find

LEMMA ExecuteLabels ==
    ASSUME Shape, LabelInv, NEW c \in Calls, Execute(c)
    PROVE  LabelInv'
<1>1. SUFFICES ASSUME ~dirty', ~crossed', ~Removing', ~Booting'
               PROVE  \E at : Labels(at)'
  BY DEF LabelInv
<1>2. /\ UNCHANGED <<pc, todo, hnsw, dirty>> /\ done' = Append(done, c)
      /\ ~crossed /\ ~Replaces(c) /\ pc[c] \in Waiting
      /\ rows' = rows \/ pc[c] \in Writes
  BY <1>1, ExecuteFrame DEF Execute
<1>3. pc[c] \notin {"remove", "forget"} /\ ~Removing
  BY <1>1, ExecuteNotRemoving
<1>4. ~Booting
  BY <1>1, <1>2 DEF Booting
<1>5. PICK at : Labels(at)
  BY <1>1, <1>2, <1>3, <1>4 DEF LabelInv
<1>6. CASE pc[c] # "insert"
  <2>1. rows' = rows
    BY <1>2, <1>3, <1>6 DEF Writes
  <2> QED
    BY <1>2, <1>5, <1>6, <2>1, PushLabels
<1>7. CASE pc[c] = "insert"
  <2>1. Head(todo[c]) \in Chunk
    <3>1. c \in Indexers
      BY <1>7 DEF Calls, Shape, TypeInv, CallTypes, SearchStates
    <3> QED
      BY <1>7, <3>1 DEF Shape, Work, WorkOf, TypeInv, WorkTypes
  <2>2. rows' = Inserted(rows, Head(todo[c])) /\ rows \in Seq(Chunk)
    BY <1>7 DEF Execute, Effect, Shape, TypeInv, StoreTypes
  <2>3. \A k \in DOMAIN rows : rows[k] \notin SameId(Head(todo[c]))
    BY <1>2, <1>7 DEF Replaces
  <2>4. rows' = Append(rows, Head(todo[c]))
    BY <2>1, <2>2, <2>3, InsertedNew
  <2> QED
    BY <1>2, <1>5, <1>7, <2>1, <2>4, PushLabels
<1> QED
  BY <1>6, <1>7

LEMMA RefuseLabels ==
    ASSUME Shape, LabelInv, NEW c \in Calls, Refuse(c)
    PROVE  LabelInv'
<1>1. SUFFICES ASSUME ~dirty', ~crossed', ~Removing', ~Booting'
               PROVE  \E at : Labels(at)'
  BY DEF LabelInv
<1>2. /\ TypeInv /\ Indexers \subseteq Calls
      /\ \A d \in Calls : d # c => pc'[d] = pc[d]
      /\ \A j \in Indexers : j # c => todo'[j] = todo[j]
      /\ rows' = rows /\ hnsw' = hnsw /\ dirty' = dirty /\ done' = done
      /\ stage[c] = "issued" /\ ~crossed /\ pc[c] # "boot"
  BY <1>1, RefuseFrame DEF Shape, Calls
<1>3. \A k \in DOMAIN done : done[k] \in Calls /\ done[k] # c
  BY <1>2, NotDone
<1>4. ~Removing /\ ~Booting
  BY <1>1, <1>2, <1>3 DEF Removing, Booting
<1>5. PICK at : Labels(at)
  BY <1>1, <1>2, <1>4 DEF LabelInv
<1>6. \A d \in Calls : pc[d] = "insert" => d \in Indexers
  BY <1>2 DEF TypeInv, CallTypes, SearchStates, Calls
<1>7. \A k \in DOMAIN done :
          /\ pc'[done[k]] = "insert" <=> pc[done[k]] = "insert"
          /\ pc[done[k]] = "insert" => todo'[done[k]] = todo[done[k]]
  BY <1>2, <1>3, <1>6
<1>8. Labels(at)'
  BY <1>2, <1>5, <1>7, KeepLabels
<1> QED
  BY <1>8

LEMMA LabelKept ==
    Shape /\ StartInv /\ RebuildInv /\ LabelInv /\ [Next]_vars => LabelInv'
<1> SUFFICES ASSUME Shape, StartInv, RebuildInv, LabelInv, [Next]_vars
             PROVE  LabelInv'
  OBVIOUS
<1>1. ASSUME UNCHANGED <<rows, hnsw, dirty, crossed, pc, todo, done>>
      PROVE  LabelInv'
  BY <1>1 DEF LabelInv, Labels, Removing, Booting
<1>2. ASSUME NEW f \in Files, Edit(f)
      PROVE  LabelInv'
  BY <1>1, <1>2 DEF Edit, store, indexVars, history
<1>3. CASE UNCHANGED vars
  BY <1>1, <1>3 DEF vars, store, indexVars, history
<1> QED
  BY <1>2, <1>3, IndexLabels, FindLabels, ExecuteLabels, RefuseLabels DEF Next

-----------------------------------------------------------------------------
(* Searching: the table does not change under a search that nothing        *)
(* overlaps, so the label it found still names the row.                    *)

FetchOf(s) ==
    pc[s] # "idle" /\ ~moved[s] =>
        /\ ~Writing
        /\ pc[s] = "fetch" =>
             /\ ~dirty
             /\ ~crossed =>
                  /\ point[s].label \in DOMAIN rows
                  /\ rows[point[s].label] = point[s].chunk
                  /\ stage[s] = "executed" => got[s] = <<point[s].chunk>>
FetchInv == \A s \in Searches : FetchOf(s)

\* A clean index that nothing is changing labels every row it has room for.
LEMMA CleanIndex ==
    ASSUME Shape, LabelInv, ~Writing, ~dirty, ~crossed, ~Starting
    PROVE  hnsw = Fits(rows)
<1>1. Indexers \subseteq Calls /\ Searches \subseteq Calls /\ TypeInv
  BY DEF Calls, Shape
<1>2. \A d \in Calls : pc[d] \notin Writes
  BY <1>1 DEF Writing, Writes, Calls, TypeInv, CallTypes, SearchStates
<1>3. \A k \in DOMAIN done : done[k] \in Calls
  BY <1>1 DEF TypeInv, CallTypes
<1>4. ~Removing /\ ~Booting
  BY <1>2, <1>3 DEF Removing, Booting, Starting, Writes
<1>5. PICK at : Labels(at)
  BY <1>4 DEF LabelInv
<1>6. \A k \in DOMAIN done : pc[done[k]] # "insert"
  BY <1>2, <1>3 DEF Writes
<1> QED
  BY <1>5, <1>6, ConstantLabels

LEMMA IndexFetch ==
    ASSUME Shape, FetchInv, NEW i \in Indexers, Index(i)
    PROVE  FetchInv'
<1>1. /\ TypeInv /\ i \in Calls /\ i \notin Searches
      /\ Indexers \subseteq Calls /\ Searches \subseteq Calls
  BY CodeIndexAssumption DEF Shape, Calls
<1>2. CASE Restart(i)
  <2>1. \A s \in Searches : pc'[s] = "idle"
    BY <1>1, <1>2 DEF Restart
  <2> QED
    BY <2>1 DEF FetchInv, FetchOf
<1>3. CASE ~Restart(i)
  <2>1. SUFFICES ASSUME NEW s \in Searches, pc'[s] # "idle", ~moved'[s]
                 PROVE  FetchOf(s)'
    BY DEF FetchInv, FetchOf
  <2>2. /\ \A c \in Calls : c # i =>
               pc'[c] = pc[c] /\ stage'[c] = stage[c] /\ got'[c] = got[c]
        /\ rows' = rows /\ point' = point
    BY <1>1, <1>3, IndexFrame
  <2>3. s # i /\ pc[s] # "idle"
    BY <1>1, <2>1, <2>2
  <2>4. ~Disturb /\ moved' = moved /\ crossed' = crossed
    BY <1>1, <1>3, <2>1, <2>3, IndexFlags DEF Disturb
  <2>5. FetchOf(s) /\ ~Writing
    BY <2>1, <2>3, <2>4 DEF FetchInv, FetchOf
  <2>6. ~Writing'
    <3>1. pc'[i] \notin Writes
      BY <1>1, <1>3, <2>4, IndexMoves
    <3> QED
      BY <1>1, <2>2, <2>5, <3>1 DEF Writing
  <2>7. dirty' = dirty
    <3>1. pc[i] \notin {"remove", "forget"}
      BY <2>5 DEF Writing, Writes
    <3> QED
      BY <1>1, <1>3, <3>1, IndexFlags
  <2> QED
    BY <1>1, <2>1, <2>2, <2>3, <2>4, <2>5, <2>6, <2>7 DEF FetchOf
<1> QED
  BY <1>2, <1>3

\* A look-up takes a label of the index.
LEMMA LookUpFetch ==
    ASSUME CallTypes, NEW s \in Searches, NEW points \in Seq(Chunk),
           NEW overlapped \in BOOLEAN, LookUp(s, points, overlapped),
           overlapped \/ ~Writing', ~dirty',
           ~overlapped /\ ~crossed' =>
               /\ Len(points) <= Len(rows')
               /\ \A k \in 1 .. Len(points) : points[k] = rows'[k],
           rows' \in Seq(Chunk)
    PROVE  FetchOf(s)'
<1>1. s \in Calls
  BY DEF Calls
<1>2. CASE Return(s)
  BY <1>1, <1>2 DEF Return, Settle, CallTypes, FetchOf
<1>3. ASSUME NEW label \in DOMAIN points,
             point' = [point EXCEPT ![s] =
                          [label |-> label, chunk |-> points[label]]],
             moved' = [moved EXCEPT ![s] = overlapped],
             Issue(s, "fetch")
      PROVE  FetchOf(s)'
  <2>1. pc'[s] = "fetch" /\ stage'[s] = "issued" /\ moved'[s] = overlapped
    BY <1>1, <1>3 DEF Issue, CallTypes
  <2>2. point'[s].label = label /\ point'[s].chunk = points[label]
    BY <1>3 DEF CallTypes
  <2>3. ~overlapped /\ ~crossed' =>
            label \in DOMAIN rows' /\ rows'[label] = points[label]
    OBVIOUS
  <2> QED
    BY <2>1, <2>2, <2>3 DEF FetchOf
<1> QED
  BY <1>2, <1>3 DEF LookUp

LEMMA FindFetch ==
    ASSUME Shape, StartInv, RebuildInv, LabelInv, FetchInv, NEW s \in Searches,
           Find(s)
    PROVE  FetchInv'
<1>1. /\ TypeInv /\ CallTypes /\ s \in Calls /\ s \notin Indexers
      /\ Indexers \subseteq Calls /\ Searches \subseteq Calls
      /\ \A c \in Calls : c # s => pc'[c] = pc[c] /\ stage'[c] = stage[c]
                                   /\ got'[c] = got[c]
      /\ \A t \in Searches : t # s => point'[t] = point[t] /\ moved'[t] = moved[t]
      /\ rows' = rows /\ rows \in Seq(Chunk) /\ hnsw \in Seq(Chunk)
  BY FindFrame, CodeIndexAssumption DEF Shape, Calls, TypeInv, StoreTypes
<1>2. Writing' = Writing
  BY <1>1 DEF Writing
<1>3. ~Starting
  BY FindStart
\* The other searches.
<1>4. ASSUME NEW t \in Searches, t # s,
             \/ (dirty' <=> dirty) /\ crossed' = crossed
             \/ dirty /\ ~dirty' /\ crossed' = crossed
             \/ dirty /\ dirty' = dirty
      PROVE  FetchOf(t)'
  <2>1. FetchOf(t)
    BY DEF FetchInv
  <2> QED
    BY <1>1, <1>2, <1>4, <2>1 DEF FetchOf
<1>5. CASE Search(s) /\ dirty
  <2>1. /\ pc' = [pc EXCEPT ![s] = "restore"]
        /\ moved' = [moved EXCEPT ![s] = Writing] /\ dirty' = dirty
    BY <1>5 DEF Search, Issue
  <2>2. pc'[s] = "restore" /\ moved'[s] = Writing
    BY <1>1, <2>1 DEF CallTypes
  <2>3. FetchOf(s)'
    BY <1>2, <2>2 DEF FetchOf
  <2> QED
    BY <1>4, <1>5, <2>1, <2>3 DEF FetchInv
<1>6. CASE Search(s) /\ ~dirty
  <2>1. /\ LookUp(s, hnsw, Writing) /\ dirty' = dirty /\ crossed' = crossed
        /\ Writing \in BOOLEAN
    BY <1>6 DEF Search, Writing
  <2>2. ~Writing /\ ~crossed =>
            Len(hnsw) <= Len(rows) /\ \A k \in 1 .. Len(hnsw) : hnsw[k] = rows[k]
    <3>1. SUFFICES ASSUME ~Writing, ~crossed
                   PROVE  Len(hnsw) <= Len(rows)
                          /\ \A k \in 1 .. Len(hnsw) : hnsw[k] = rows[k]
      OBVIOUS
    <3>2. hnsw = Fits(rows)
      BY <1>3, <1>6, <3>1, CleanIndex
    <3> QED
      BY <1>1, <3>2, FitsLen
  <2>3. FetchOf(s)'
    BY <1>1, <1>2, <1>6, <2>1, <2>2, LookUpFetch
  <2> QED
    BY <1>4, <2>1, <2>3 DEF FetchInv
<1>7. CASE Restored(s) /\ Fits(got[s]) = got[s]
  <2>1. /\ hnsw' = Refilled(Fits(got[s])) /\ ~dirty' /\ crossed' = crossed
        /\ LookUp(s, hnsw', moved[s]) /\ moved[s] \in BOOLEAN /\ pc[s] = "restore"
    BY <1>1, <1>7 DEF Restored, CalledBack, CallTypes
  <2>2. stage[s] = "executed"
    BY <1>1, <1>7, HeadExecuted DEF Restored
  <2>3. ~crossed => dirty /\ hnsw' = rows
    <3>1. SUFFICES ASSUME ~crossed
                   PROVE  dirty /\ hnsw' = rows
      OBVIOUS
    <3>2. got[s] = rows /\ hnsw = <<>> /\ dirty
      BY <2>1, <2>2, <3>1 DEF RebuildInv, RebuildOf
    <3> QED
      BY <1>1, <1>7, <2>1, <3>2, RefilledEmpty
  <2>4. hnsw' \in Seq(Chunk)
    BY <1>1, <2>1, FitsTyped, RefilledTyped DEF TypeInv, CallTypes
  <2>5. moved[s] \/ ~Writing'
    BY <1>2, <2>1 DEF FetchInv, FetchOf
  <2>6. ~crossed' => /\ Len(hnsw') <= Len(rows')
                     /\ \A k \in 1 .. Len(hnsw') : hnsw'[k] = rows'[k]
    BY <1>1, <2>1, <2>3
  <2>7. FetchOf(s)'
    BY <1>1, <2>1, <2>4, <2>5, <2>6, LookUpFetch
  <2> QED
    BY <1>4, <2>1, <2>7 DEF FetchInv
<1>8. ASSUME Return(s), dirty' = dirty, crossed' = crossed
      PROVE  FetchInv'
  <2>1. pc'[s] = "idle"
    BY <1>1, <1>8 DEF Return, Settle, CallTypes
  <2>2. FetchOf(s)'
    BY <2>1 DEF FetchOf
  <2> QED
    BY <1>4, <1>8, <2>2 DEF FetchInv
<1>9. CASE Restored(s) /\ Fits(got[s]) # got[s]
  BY <1>8, <1>9 DEF Restored
<1>10. CASE Fetched(s)
  BY <1>8, <1>10 DEF Fetched, store
<1> QED
  BY <1>5, <1>6, <1>7, <1>9, <1>10 DEF Find

LEMMA FetchKept ==
    /\ Shape /\ StartInv /\ RebuildInv /\ LabelInv /\ FetchInv /\ [Next]_vars
    => FetchInv'
<1> SUFFICES ASSUME Shape, StartInv, RebuildInv, LabelInv, FetchInv, [Next]_vars
             PROVE  FetchInv'
  OBVIOUS
<1>1. ASSUME NEW c \in Calls, Execute(c)
      PROVE  FetchInv'
  <2>1. SUFFICES ASSUME NEW s \in Searches, pc'[s] # "idle", ~moved'[s]
                 PROVE  FetchOf(s)'
    BY DEF FetchInv, FetchOf
  <2>2. /\ UNCHANGED <<pc, hnsw, dirty, point, moved>> /\ s \in Calls
        /\ crossed => crossed'
    BY <1>1, ExecuteFrame DEF Calls
  <2>3. FetchOf(s) /\ ~Writing
    BY <2>1, <2>2 DEF FetchInv, FetchOf
  <2>4. pc[c] \notin Writes
    BY <2>3 DEF Writing, Writes, Shape, TypeInv, CallTypes, Calls, SearchStates
  <2>5. rows' = rows
    BY <1>1, <2>4, ExecuteFrame
  <2>6. ASSUME pc[s] = "fetch", ~crossed', stage'[s] = "executed"
        PROVE  got'[s] = <<point[s].chunk>>
    <3>1. point[s].label \in DOMAIN rows /\ rows[point[s].label] = point[s].chunk
          /\ (stage[s] = "executed" => got[s] = <<point[s].chunk>>)
      BY <2>1, <2>2, <2>3, <2>6 DEF FetchOf
    <3>2. CASE s = c
      <4>1. got'[s] = Row(rows, point[s].label)
        BY <1>1, <2>6, <3>2, ExecuteFrame
      <4>2. PICK k \in DOMAIN rows : k = point[s].label
        BY <3>1
      <4>3. Row(rows, k) = <<rows[k]>>
        BY <4>2 DEF Row, Shape, TypeInv, StoreTypes
      <4> QED
        BY <3>1, <4>1, <4>2, <4>3
    <3>3. CASE s # c
      BY <1>1, <2>2, <2>6, <3>1, <3>3, ExecuteFrame
    <3> QED
      BY <3>2, <3>3
  <2> QED
    BY <2>1, <2>2, <2>3, <2>5, <2>6 DEF FetchOf, Writing
<1>2. ASSUME NEW c \in Calls, Refuse(c)
      PROVE  FetchInv'
  <2>1. SUFFICES ASSUME NEW s \in Searches, pc'[s] # "idle", ~moved'[s]
                 PROVE  FetchOf(s)'
    BY DEF FetchInv, FetchOf
  <2>2. /\ Indexers \subseteq Calls /\ Searches \subseteq Calls
        /\ \A d \in Calls : d # c =>
               pc'[d] = pc[d] /\ stage'[d] = stage[d] /\ got'[d] = got[d]
        /\ \A t \in Searches : t # c => point'[t] = point[t] /\ moved'[t] = moved[t]
        /\ rows' = rows /\ dirty' = dirty
        /\ pc'[c] \in {"idle", "probe", "next"}
        /\ c \in Searches => pc'[c] = "idle"
        /\ crossed => crossed'
    BY <1>2, RefuseFrame DEF Shape, Calls
  <2>3. s # c
    BY <2>1, <2>2
  <2>4. FetchOf(s) /\ pc[s] # "idle" /\ ~moved[s] /\ ~Writing
    BY <2>1, <2>2, <2>3 DEF FetchInv, FetchOf
  <2>5. ~Writing'
    BY <2>2, <2>4 DEF Writing, Writes
  <2> QED
    BY <2>2, <2>3, <2>4, <2>5 DEF FetchOf
<1>3. ASSUME NEW f \in Files, Edit(f)
      PROVE  FetchInv'
  BY <1>3 DEF Edit, store, indexVars, searchVars, history, FetchInv, FetchOf, Writing
<1>4. CASE UNCHANGED vars
  BY <1>4 DEF vars, store, indexVars, searchVars, history, FetchInv, FetchOf, Writing
<1> QED
  BY <1>1, <1>2, <1>3, <1>4, IndexFetch, FindFetch DEF Next

-----------------------------------------------------------------------------
IInv == Shape /\ StartInv /\ RebuildInv /\ LabelInv /\ FetchInv

LEMMA InitIInv == Init => IInv
<1> SUFFICES ASSUME Init
             PROVE  IInv
  OBVIOUS
<1>1. \A c \in Calls : pc[c] = "idle"
  BY DEF Init
<1>2. Indexers \subseteq Calls /\ Searches \subseteq Calls
  BY DEF Calls
<1>3. StartInv
  BY <1>1, <1>2 DEF StartInv, Starting
<1>4. RebuildInv
  BY <1>1, <1>2 DEF RebuildInv
<1>5. FetchInv
  BY <1>1, <1>2 DEF FetchInv, FetchOf
<1>6. LabelInv
  <2>1. rows = <<>> /\ hnsw = <<>> /\ done = <<>> /\ <<>> \in Seq(Chunk)
    BY DEF Init
  <2>2. PICK at : at = [k \in 0 .. 0 |-> 0]
    OBVIOUS
  <2>3. at \in [0 .. 0 -> 0 .. 0] /\ at[0] = 0
    BY <2>2
  <2>4. Fits(SubSeq(rows, 1, at[0])) = <<>>
    <3>1. PICK t \in Seq(Chunk) : t = SubSeq(rows, 1, at[0]) /\ Len(t) = 0
      BY <2>1, <2>3
    <3>2. PICK u \in Seq(Chunk) : u = Fits(t)
      BY FitsTyped
    <3>4. Len(u) = IF Len(t) < MaxElements THEN Len(t) ELSE MaxElements
      BY <3>2, FitsLen
    <3>3. Len(u) = 0
      BY <3>1, <3>4, CodeIndexAssumption
    <3> QED
      BY <3>1, <3>2, <3>3
  <2>5. Labels(at)
    BY <2>1, <2>3, <2>4 DEF Labels
  <2> QED
    BY <2>5 DEF LabelInv
<1> QED
  BY <1>3, <1>4, <1>5, <1>6, InitShape DEF IInv

LEMMA IInvKept == IInv /\ [Next]_vars => IInv'
BY ShapeKept, StartKept, RebuildKept, LabelKept, FetchKept DEF IInv

LEMMA IInvAlways == Spec => []IInv
BY InitIInv, IInvKept, PTL DEF Spec

\* Aligned: a clean index labels the rows of the table in rowid order, as far
\* as it has room, whenever no statement is between its effect and its
\* callback: the labels that addPoint hands out in memory, in the order of the
\* callbacks, are the rowids that the database hands out, in the order of the
\* executions.
THEOREM LabelsAreRows == Spec => []Aligned
<1>1. IInv => Aligned
  <2> SUFFICES ASSUME IInv, Quiet, ~dirty, ~crossed
               PROVE  hnsw = Fits(rows)
    BY DEF Aligned
  <2>1. ~Removing /\ ~Booting /\ \A k \in DOMAIN done : pc[done[k]] # "insert"
    BY DEF Quiet, Removing, Booting, Starting
  <2>2. PICK at : Labels(at)
    BY <2>1 DEF IInv, LabelInv
  <2> QED
    BY <2>1, <2>2, ConstantLabels DEF IInv
<1> QED
  BY <1>1, IInvAlways, PTL

\* SearchExact: a search that no change of the table overlapped, and no change
\* crossed the rebuild of the index, reads the row of the chunk whose embedding
\* it matched.
THEOREM SearchFindsItsChunk == Spec => []SearchExact
<1>1. IInv => SearchExact
  BY DEF IInv, FetchInv, FetchOf, SearchExact
<1> QED
  BY <1>1, IInvAlways, PTL

=============================================================================
