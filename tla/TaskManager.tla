----------------------------- MODULE TaskManager -----------------------------
(***************************************************************************)
(* TaskManager: the agent's tasks, their status and their two dependency   *)
(* relations.  Every operation is synchronous, so each is one action; the  *)
(* arguments are what the model writes into a TaskCreate or TaskUpdate     *)
(* call.  Subjects, owners and metadata are left out.                      *)
(***************************************************************************)
EXTENDS TaskSearch, FiniteSets

CONSTANTS
    Ids,      \* the ids _nextId() hands out
    Unknown,  \* an id the model made up: it names no task
    BlockLists,     \* the id lists passed as blocks or addBlocks
    BlockedByLists, \* the id lists passed as blockedBy or addBlockedBy
    Orders(_),      \* the sequences in which a set of ids may be listed
    MaxEdges        \* bound on the dependency edges of a state

ASSUME UnknownAssumption == Unknown \notin Ids
ASSUME ListsAssumption ==
    /\ BlockLists \subseteq SUBSET (Ids \cup {Unknown})
    /\ BlockedByLists \subseteq SUBSET (Ids \cup {Unknown})
ASSUME MaxEdgesAssumption == MaxEdges \in Nat
ASSUME OrdersAssumption ==
    \A S \in SUBSET (Ids \cup {Unknown}) : \A s \in Orders(S) :
        s \in Seq(S) /\ \A x \in S : \E i \in DOMAIN s : s[i] = x

VARIABLES
    status,    \* "absent" before creation, then Task.status
    blocks,    \* Task.blocks
    blockedBy  \* Task.blockedBy

vars == <<status, blocks, blockedBy>>

TaskStatus == {"pending", "in_progress", "completed", "deleted"}
NoStatus == "unset"                        \* patch.status === undefined
Refs == Ids \cup {Unknown}
Existing == {t \in Ids : status[t] # "absent"}

TypeOK ==
    /\ status \in [Ids -> TaskStatus \cup {"absent"}]
    /\ blocks \in [Ids -> SUBSET Refs]
    /\ blockedBy \in [Ids -> SUBSET Refs]

Init ==
    /\ status = [t \in Ids |-> "absent"]
    /\ blocks = [t \in Ids |-> {}]
    /\ blockedBy = [t \in Ids |-> {}]

\* A relation has a cycle when, from every member of some non-empty set of
\* tasks, it leads back into the set.  SearchIsExact compares this with the
\* depth-first search of _hasCycle, which follows `blocks' only.
Cyclic(edges) ==
    \E S \in SUBSET Ids : S # {} /\ \A t \in S : edges[t] \cap S # {}

HasCycleIgnored(edges) == FALSE
HasCycle(edges) == Cyclic(edges)

\* The bound on what operations may add.
Edges(relation) == {e \in Ids \X Refs : e[2] \in relation[e[1]]}
Bounded ==
    Cardinality(Edges(blocks)) + Cardinality(Edges(blockedBy)) <= MaxEdges

\* create: only blockedBy is validated.  The id is fresh, so no reference to
\* it can exist yet.
Create(t, newBlocks, newBlockedBy) ==
    /\ status[t] = "absent"
    /\ newBlockedBy \subseteq Existing
    /\ newBlocks \subseteq Existing \cup {Unknown}
    /\ status' = [status EXCEPT ![t] = "pending"]
    /\ blocks' = [blocks EXCEPT ![t] = newBlocks]
    /\ blockedBy' = [blockedBy EXCEPT ![t] = newBlockedBy]
    /\ Bounded'

\* The status part of a patch; a task that was deleted takes none.
StatusAllowed(t, newStatus) == newStatus = NoStatus \/ status[t] # "deleted"

SetStatus(t, newStatus) ==
    status' = IF newStatus = NoStatus THEN status
              ELSE [status EXCEPT ![t] = newStatus]

\* update: no id is validated (an id not handed out yet is as unknown as any
\* other); the status is written first and stays when a dependency is refused;
\* a refused list is taken out again with every edge it names, the ones that
\* were there before included.
Update(t, newStatus, addBlocks, addBlockedBy) ==
    LET added == [blocks EXCEPT ![t] = @ \cup addBlocks]
        refused == addBlocks # {} /\ HasCycle(added)
    IN  /\ t \in Existing
        /\ addBlocks \cup addBlockedBy \subseteq Existing \cup {Unknown}
        /\ StatusAllowed(t, newStatus)
        /\ SetStatus(t, newStatus)
        /\ \/ /\ refused
              /\ blocks' = [blocks EXCEPT ![t] = @ \ addBlocks]
              /\ UNCHANGED blockedBy
           \/ /\ ~refused
              /\ blocks' = added
              /\ blockedBy' = [blockedBy EXCEPT ![t] =
                     IF addBlockedBy # {} /\ HasCycle(added)
                     THEN @ \ addBlockedBy ELSE @ \cup addBlockedBy]
        /\ Bounded'

\* clear.
Clear ==
    /\ status' = [t \in Ids |-> "absent"]
    /\ blocks' = [t \in Ids |-> {}]
    /\ blockedBy' = [t \in Ids |-> {}]

Next ==
    \/ \E t \in Ids, B \in BlockLists, BB \in BlockedByLists : Create(t, B, BB)
    \/ \E t \in Ids, st \in TaskStatus \cup {NoStatus}, B \in BlockLists,
          BB \in BlockedByLists : Update(t, st, B, BB)
    \/ Clear

Spec == Init /\ [][Next]_vars

\* getAvailable: pending tasks whose every blocker is a completed task.
AvailableOnceDeleted ==
    {t \in Existing :
        /\ status[t] = "pending"
        /\ \A b \in blockedBy[t] :
              b \in Existing /\ status[b] \in {"completed", "deleted"}}
Available ==
    {t \in Existing :
        /\ status[t] = "pending"
        /\ \A b \in blockedBy[t] : b \in Existing /\ status[b] = "completed"}

-----------------------------------------------------------------------------
\* No sequence of creations and updates makes the `blocks' relation cyclic,
\* although a refused update also removes edges and creation checks nothing.
BlocksAcyclic == ~Cyclic(blocks)

\* A waiting task becomes available only by the completion of a task that
\* blocks it: no patch that is refused half-way through, no deletion and no
\* other task's edges free it.  An update takes earlier blockers out again
\* when _hasCycle() refuses its addBlockedBy; but that search follows `blocks'
\* only, and finds nothing there because BlocksAcyclic holds by then.
FreedByCompletion ==
    [][\A t \in Ids :
          status[t] = "pending" /\ t \notin Available /\ t \in Available' =>
              \E b \in blockedBy[t] \cap Ids :
                  status[b] # "completed" /\ status'[b] = "completed"]_vars

\* A deleted task never comes back under the same id, short of clear().
DeletedIsFinal ==
    [][\A t \in Ids : status[t] = "deleted" =>
           status'[t] \in {"deleted", "absent"}]_vars

\* What the `blocks' arrays of the tasks may hold when they have these edges.
Listings(edges) ==
    {lists \in [Existing -> UNION {Orders(edges[u]) : u \in Existing}] :
        \A u \in Existing : lists[u] \in Orders(edges[u])}

\* Whatever edges the next update adds, and in whatever order tasks and edges
\* came about: the search that decides whether the edges stay reports a cycle
\* exactly when there is one, although it cuts every branch at a task visited
\* before and meets unknown ids, diamonds and self loops.
SearchIsExact ==
    \A t \in Existing, L \in BlockLists :
        LET added == [blocks EXCEPT ![t] = @ \cup L]
        IN  \A lists \in Listings(added), tasks \in Orders(Existing) :
                SearchFindsCycle(lists, tasks) <=> Cyclic(added)

=============================================================================
