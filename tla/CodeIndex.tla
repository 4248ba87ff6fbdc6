----------------------------- MODULE CodeIndex -----------------------------
(***************************************************************************)
(* The semantic half of the codebase index: IndexStore (the SQLite table   *)
(* of chunks and the in-memory HNSW index of their embeddings), and the    *)
(* calls of IndexBuilder and AIIndexService that change and search it.     *)
(*                                                                         *)
(* A point of the HNSW index is found again in the table by its label: the *)
(* point with label i belongs to the i-th row in rowid order.  Labels are  *)
(* handed out in memory, rows in the database, and every statement is      *)
(* asynchronous: it is issued by a call, executed by the database thread,  *)
(* and only then called back.  Statements are called back in the order in  *)
(* which they were executed.                                               *)
(*                                                                         *)
(* A chunk is its file, the version of the text it was cut from and its    *)
(* number.  Its id, the key of its row, is a hash of less than that (path, *)
(* start line and first 100 characters), so that chunks of two versions    *)
(* often share one; Id is any function.  Embeddings and distances are left *)
(* out, and a search looks up one of the points it could have found.  The  *)
(* model is that of a build that has both native modules and an embedding  *)
(* provider; without them these calls do nothing.                          *)
(***************************************************************************)
EXTENDS Subsequences

CONSTANTS
    Files,        \* absolute paths
    Indexers,     \* concurrent calls of indexFile, removeFile and fullIndex
    Searches,     \* concurrent calls of searchSemantic
    None,         \* null
    Id,           \* the id chunkFile hashes for each chunk
    MaxElements,  \* the literal 50000 of _maxElements
    MaxChunks,    \* chunks chunkFile cuts a file into
    MaxVersion,   \* edits of a file's text
    MaxCalls      \* calls the indexers may make between them, the one a
                  \* restart makes included

ASSUME CodeIndexAssumption ==
    /\ None \notin Files \cup Indexers \cup Searches
    /\ Indexers \cap Searches = {}
    /\ MaxElements \in Nat /\ MaxChunks \in Nat
    /\ MaxVersion \in Nat /\ MaxCalls \in Nat

Calls == Indexers \cup Searches
ChunksOf(f) == {f} \X (0..MaxVersion) \X (1..MaxChunks)
Chunk == UNION {ChunksOf(f) : f \in Files}

VARIABLES
    rows,      \* the chunks table in rowid order
    hnsw,      \* this._hnsw: hnsw[i + 1] is the chunk labelled i
    dirty,     \* this._dirty
    indexing,  \* this._isIndexing: the fullIndex call that set it, or None
    version,   \* the text of each file on disk
    pc,        \* where each call is suspended
    file,      \* fp of _indexOne
    todo,      \* the chunks _indexOne has still to add
    rest,      \* the files fullIndex has still to index
    calls,     \* calls the indexers have made
    stage,     \* the statement of each call: "none", "issued" or "executed"
    done,      \* executed statements not yet called back
    got,       \* what a call's SELECT read
    point,     \* the label a search found, and the chunk that was so labelled
    moved,     \* history: searches that overlapped a change of the table
    crossed,   \* history: a change crossed the last rebuild of the index,
               \* or replaced a row of the same id after it, or the first
               \* rebuild failed
    contended  \* history: files on which two calls worked at once, since a call
               \* that had the file for itself removed its chunks

store == <<rows, hnsw, dirty>>
indexVars == <<indexing, file, todo, rest, calls>>
searchVars == <<got, point>>
history == <<moved, crossed, contended>>
vars == <<store, indexVars, searchVars, history, version, pc, stage, done>>

Writes == {"remove", "forget", "insert"}

Init ==
    /\ rows = <<>> /\ hnsw = <<>> /\ dirty = FALSE
    /\ indexing = None
    /\ version = [f \in Files |-> 0]
    /\ pc = [c \in Calls |-> "idle"]
    /\ file = [i \in Indexers |-> None]
    /\ todo = [i \in Indexers |-> <<>>]
    /\ rest = [i \in Indexers |-> {}]
    /\ calls = 0
    /\ stage = [c \in Calls |-> "none"] /\ done = <<>>
    /\ got = [c \in Calls |-> <<>>]
    /\ point = [s \in Searches |-> None]
    /\ moved = [s \in Searches |-> FALSE]
    /\ crossed = FALSE /\ contended = {}

(* this._run(...) and this._all(...): the call waits at `at'. *)
Issue(c, at) ==
    /\ pc' = [pc EXCEPT ![c] = at]
    /\ stage' = [stage EXCEPT ![c] = "issued"]

(* The statement of call c is called back. *)
CalledBack(c, at) ==
    /\ done # <<>> /\ Head(done) = c /\ pc[c] = at
    /\ done' = Tail(done)

Settle(c, at) ==
    /\ pc' = [pc EXCEPT ![c] = at]
    /\ stage' = [stage EXCEPT ![c] = "none"]

(* addPoint throws beyond maxElements. *)
Room(points) == Len(points) < MaxElements

(* A statement that changes the table is under way. *)
Writing == \E i \in Indexers : pc[i] \in Writes

Rebuilding == \E s \in Searches : pc[s] = "restore"

(* A write is issued while these searches are under way. *)
Disturb ==
    /\ moved' = [s \in Searches |-> moved[s] \/ pc[s] # "idle"]
    /\ crossed' = (crossed \/ Rebuilding)

-----------------------------------------------------------------------------
(* ------------------------------ starting ------------------------------- *)

(* _restoreFromDb: the i-th row gets label i; points added meanwhile that  *)
(* have a label of their own stay, and the index takes what it has room    *)
(* for.                                                                    *)
Fits(table) == SubSeq(table, 1, IF Room(table) THEN Len(table) ELSE MaxElements)
Refilled(read) ==
    [i \in 1..(IF Len(read) > Len(hnsw) THEN Len(read) ELSE Len(hnsw)) |->
        IF i <= Len(read) THEN read[i] ELSE hnsw[i]]

(* The window closes, in the middle of any call, and the service of the    *)
(* next one opens the database: IndexStore.initialize up to its SELECT.    *)
(* What the database had not executed is lost.                             *)
Restart(i) ==
    /\ calls < MaxCalls
    /\ calls' = calls + 1
    /\ hnsw' = <<>> /\ dirty' = FALSE /\ crossed' = FALSE
    /\ indexing' = None
    /\ pc' = [c \in Calls |-> IF c = i THEN "boot" ELSE "idle"]
    /\ stage' = [c \in Calls |-> IF c = i THEN "issued" ELSE "none"]
    /\ done' = <<>>
    /\ file' = [j \in Indexers |-> None]
    /\ todo' = [j \in Indexers |-> <<>>]
    /\ rest' = [j \in Indexers |-> {}]
    /\ got' = [c \in Calls |-> <<>>]
    /\ point' = [s \in Searches |-> None]
    /\ moved' = [s \in Searches |-> FALSE]
    /\ UNCHANGED <<rows, contended, version>>

(* The index is filled; a table that does not fit throws, which is caught. *)
(* A dirty flag set meanwhile stays.                                       *)
Loaded(i) ==
    /\ CalledBack(i, "boot")
    /\ hnsw' = Refilled(Fits(got[i]))
    /\ got' = [got EXCEPT ![i] = <<>>]
    /\ Settle(i, "probe")
    /\ UNCHANGED <<rows, dirty, indexVars, point, history, version>>

Starting == \E i \in Indexers : pc[i] \in {"boot", "probe"}

(* ------------------------------ indexing ------------------------------- *)

MayCall(i) == pc[i] = "idle" /\ calls < MaxCalls

(* _indexOne: await this.__store.removeFile(fullPath) *)
Remove(i, f, at) ==
    /\ file' = [file EXCEPT ![i] = f]
    /\ Issue(i, at)
    /\ Disturb
    /\ contended' = contended \cup (IF \E j \in Indexers : file[j] = f THEN {f} ELSE {})
    /\ UNCHANGED <<store, todo, version, done, searchVars>>

(* AIIndexService.indexFile and removeFile *)
IndexFile(i, f) ==
    /\ MayCall(i) /\ Remove(i, f, "remove")
    /\ calls' = calls + 1
    /\ UNCHANGED <<indexing, rest>>

RemoveFile(i, f) ==
    /\ MayCall(i) /\ Remove(i, f, "forget")
    /\ calls' = calls + 1
    /\ UNCHANGED <<indexing, rest>>

(* fullIndex: if (this._isIndexing) return; _collectFiles lists the files, *)
(* or none when ripgrep is out of reach.  The service calls it when it has *)
(* started and the embedding provider has answered a probe.                *)
FullIndex(i) ==
    /\ indexing = None
    /\ \/ MayCall(i) /\ calls' = calls + 1
       \/ pc[i] = "probe" /\ UNCHANGED calls
    /\ indexing' = i
    /\ \E found \in {{}, Files} : rest' = [rest EXCEPT ![i] = found]
    /\ pc' = [pc EXCEPT ![i] = "next"]
    /\ UNCHANGED <<store, searchVars, history, version, file, todo, stage, done>>

FullIndexIgnored(i) ==
    /\ pc[i] = "probe" /\ indexing # None
    /\ pc' = [pc EXCEPT ![i] = "idle"]
    /\ UNCHANGED <<store, indexVars, searchVars, history, version, stage, done>>

NextFile(i, f) ==
    /\ pc[i] = "next" /\ f \in rest[i]
    /\ Remove(i, f, "remove")
    /\ rest' = [rest EXCEPT ![i] = @ \ {f}]
    /\ UNCHANGED <<indexing, calls>>

FullIndexDone(i) ==
    /\ pc[i] = "next" /\ rest[i] = {}
    /\ indexing' = None
    /\ pc' = [pc EXCEPT ![i] = "idle"]
    /\ UNCHANGED <<store, searchVars, history, version, file, todo, rest, calls, stage, done>>

(* Where an _indexOne that returns gives control back. *)
Caller(i) == IF indexing = i THEN "next" ELSE "idle"

(* _indexOne returns; the loop over the chunks goes on, or is over. *)
Leave(i) ==
    /\ Settle(i, Caller(i))
    /\ file' = [file EXCEPT ![i] = None] /\ todo' = [todo EXCEPT ![i] = <<>>]
Proceed(i, chunks) ==
    IF chunks = <<>> THEN Leave(i)
    ELSE /\ todo' = [todo EXCEPT ![i] = chunks]
         /\ Settle(i, "embed")
         /\ UNCHANGED file

(* removeFile's DELETE was called back: this._dirty = true. *)
Removed(i) ==
    /\ CalledBack(i, "remove")
    /\ dirty' = TRUE
    /\ Settle(i, "read")
    /\ UNCHANGED <<rows, hnsw, indexVars, searchVars, history, version>>

Forgotten(i) ==
    /\ CalledBack(i, "forget")
    /\ dirty' = TRUE
    /\ Leave(i)
    /\ UNCHANGED <<rows, hnsw, indexing, rest, calls, searchVars, history, version>>

(* The text was read and cut into chunks.  An unreadable or an oversized   *)
(* file has none.                                                          *)
Cut(f, n) == [k \in 1..n |-> <<f, version[f], k>>]
FileRead(i) ==
    /\ pc[i] = "read"
    /\ \E n \in 0..MaxChunks : Proceed(i, Cut(file[i], n))
    /\ UNCHANGED <<store, indexing, rest, calls, searchVars, history, version, done>>

(* The next chunk was embedded, and is added; or the embedding failed, or  *)
(* the provider has not been probed yet, and the chunk is skipped.         *)
Embedded(i) ==
    /\ pc[i] = "embed" /\ ~Starting
    /\ Issue(i, "insert") /\ Disturb
    /\ UNCHANGED <<store, indexVars, searchVars, contended, version, done>>

EmbeddingFailed(i) ==
    /\ pc[i] = "embed"
    /\ Proceed(i, Tail(todo[i]))
    /\ UNCHANGED <<store, indexing, rest, calls, searchVars, history, version, done>>

(* add: the INSERT was called back, the point gets the next label.  A full *)
(* index throws, which ends the _indexOne.                                 *)
AfterAddReset == FALSE
AfterAdd == dirty
Added(i) ==
    /\ CalledBack(i, "insert")
    /\ hnsw' = IF Room(hnsw) THEN Append(hnsw, Head(todo[i])) ELSE hnsw
    /\ dirty' = AfterAdd
    /\ Proceed(i, IF Room(hnsw) THEN Tail(todo[i]) ELSE <<>>)
    /\ UNCHANGED <<rows, indexing, rest, calls, searchVars, history, version>>

(* ------------------------------ searching ------------------------------ *)

(* The search ends; its locals are gone. *)
Return(s) ==
    /\ Settle(s, "idle")
    /\ got' = [got EXCEPT ![s] = <<>>]
    /\ point' = [point EXCEPT ![s] = None]
    /\ moved' = [moved EXCEPT ![s] = FALSE]

(* searchKnn, and the SELECT of the row of one of the neighbours. *)
LookUp(s, points, overlapped) ==
    \/ points = <<>> /\ Return(s)
    \/ \E label \in DOMAIN points :
         /\ point' = [point EXCEPT ![s] = [label |-> label, chunk |-> points[label]]]
         /\ got' = [got EXCEPT ![s] = <<>>]
         /\ moved' = [moved EXCEPT ![s] = overlapped]
         /\ Issue(s, "fetch")

(* searchSemantic, once the service has started: a dirty index is emptied  *)
(* and filled again from the table.                                        *)
Search(s) ==
    /\ pc[s] = "idle" /\ ~Starting
    /\ IF dirty THEN /\ hnsw' = <<>>
                     /\ Issue(s, "restore")
                     /\ crossed' = (Writing \/ Rebuilding)
                     /\ moved' = [moved EXCEPT ![s] = Writing]
                     /\ UNCHANGED searchVars
                ELSE /\ LookUp(s, hnsw, Writing)
                     /\ UNCHANGED <<hnsw, crossed>>
    /\ UNCHANGED <<rows, dirty, indexVars, contended, version, done>>

(* A table that does not fit throws, and the index stays dirty.            *)
Restored(s) ==
    /\ CalledBack(s, "restore")
    /\ hnsw' = Refilled(Fits(got[s]))
    /\ IF Fits(got[s]) = got[s]
       THEN dirty' = FALSE /\ LookUp(s, hnsw', moved[s])
       ELSE Return(s) /\ UNCHANGED dirty
    /\ UNCHANGED <<rows, indexVars, crossed, contended, version>>

(* The row, or none, was read. *)
Fetched(s) ==
    /\ CalledBack(s, "fetch")
    /\ Return(s)
    /\ UNCHANGED <<store, indexVars, crossed, contended, version>>

(* ---------------------------- the database ----------------------------- *)

(* DELETE, INSERT OR REPLACE (a row of the same id, of whatever text, goes *)
(* and the new one stands at the end), SELECT.                             *)
DeletedNone(table, f) == table
Deleted(table, f) == Without(table, ChunksOf(f))
SameId(chunk) == {c \in Chunk : Id[c] = Id[chunk]}
Inserted(table, chunk) == Append(Without(table, SameId(chunk)), chunk)

RowAfter(table, k) == IF k < Len(table) THEN <<table[k + 1]>> ELSE <<>>
Row(table, k) == IF k <= Len(table) THEN <<table[k]>> ELSE <<>>
Replaces(c) ==
    pc[c] = "insert" /\ \E k \in DOMAIN rows : rows[k] \in SameId(Head(todo[c]))

Clears(c) ==
    /\ pc[c] \in {"remove", "forget"}
    /\ \A j \in Indexers \ {c} : file[j] # file[c]

Effect(c) ==
    CASE pc[c] \in {"remove", "forget"} ->
             rows' = Deleted(rows, file[c]) /\ UNCHANGED got
      [] pc[c] = "insert" -> rows' = Inserted(rows, Head(todo[c])) /\ UNCHANGED got
      [] pc[c] \in {"boot", "restore"} -> got' = [got EXCEPT ![c] = rows] /\ UNCHANGED rows
      [] pc[c] = "fetch" ->
             got' = [got EXCEPT ![c] = Row(rows, point[c].label)] /\ UNCHANGED rows

Execute(c) ==
    /\ stage[c] = "issued"
    /\ stage' = [stage EXCEPT ![c] = "executed"]
    /\ done' = Append(done, c)
    /\ Effect(c)
    /\ crossed' = (crossed \/ Replaces(c))
    /\ contended' = contended \ (IF Clears(c) THEN {file[c]} ELSE {})
    /\ UNCHANGED <<hnsw, dirty, indexVars, point, moved, version, pc>>

(* The database refuses the statement: the promise rejects, and _indexOne, *)
(* search() or initialize() catches it.  An index whose first reading of   *)
(* the table was refused is empty, and counts as clean.                    *)
Refuse(c) ==
    /\ stage[c] = "issued"
    /\ \/ c \in Searches /\ Return(c) /\ UNCHANGED <<file, todo, crossed>>
       \/ /\ pc[c] = "boot"
          /\ Settle(c, "probe") /\ crossed' = TRUE
          /\ UNCHANGED <<file, todo, searchVars, moved>>
       \/ /\ c \in Indexers /\ pc[c] # "boot"
          /\ Leave(c) /\ UNCHANGED <<crossed, searchVars, moved>>
    /\ UNCHANGED <<store, indexing, rest, calls, contended, version, done>>

(* The user or the agent edits a file. *)
Edit(f) ==
    /\ version[f] < MaxVersion
    /\ version' = [version EXCEPT ![f] = @ + 1]
    /\ UNCHANGED <<store, indexVars, searchVars, history, pc, stage, done>>

-----------------------------------------------------------------------------

Index(i) ==
    \/ \E f \in Files : IndexFile(i, f) \/ RemoveFile(i, f) \/ NextFile(i, f)
    \/ Restart(i) \/ Loaded(i)
    \/ FullIndex(i) \/ FullIndexIgnored(i) \/ FullIndexDone(i)
    \/ Removed(i) \/ Forgotten(i)
    \/ FileRead(i) \/ Embedded(i) \/ EmbeddingFailed(i) \/ Added(i)
Find(s) == Search(s) \/ Restored(s) \/ Fetched(s)

Next ==
    \/ \E i \in Indexers : Index(i)
    \/ \E s \in Searches : Find(s)
    \/ \E c \in Calls : Execute(c) \/ Refuse(c)
    \/ \E f \in Files : Edit(f)

Spec == Init /\ [][Next]_vars

-----------------------------------------------------------------------------

(* No statement is between its effect on the table and its callback, and   *)
(* nobody is filling the index.                                            *)
Quiet ==
    /\ done = <<>>
    /\ ~Rebuilding /\ ~Starting

(* A clean index labels the rows of the table: label i is the i-th row, as *)
(* far as the index has room, also after a restart in mid-call.  Only      *)
(* three things can spoil it: a change that crossed the last rebuild, a    *)
(* refused first rebuild, and an insert that replaced a row, of this or an *)
(* older text of the file, which moves rows but leaves the index clean.    *)
(* The next rebuild that nothing crosses repairs it.                       *)
Aligned ==
    Quiet /\ ~dirty /\ ~crossed =>
        hnsw = Fits(rows)

(* A search that no change of the table overlapped, in an index that none  *)
(* of these three has spoilt since its last rebuild, returns the chunk     *)
(* whose embedding it matched: never another chunk, nor another version of *)
(* its text.                                                               *)
SearchExact ==
    \A s \in Searches :
        (pc[s] = "fetch" /\ stage[s] = "executed" /\ ~moved[s] /\ ~crossed) => got[s] = <<point[s].chunk>>

(* The table holds chunks of one version of a file only, the text the last *)
(* call read, unless two calls have been working on that file at once: an  *)
(* edit leaves no chunk of the text it replaced.                           *)
OneVersion ==
    \A f \in Files \ contended :
        \A j, k \in DOMAIN rows :
            (rows[j][1] = f /\ rows[k][1] = f) => rows[j][2] = rows[k][2]
=============================================================================
