----------------------------- MODULE TaskSearch -----------------------------
(***************************************************************************)
(* TaskManager._hasCycle: the depth-first search as the code performs it,  *)
(* over adjacency lists.  TaskManager is specified with the definition of  *)
(* a cycle; SearchIsExact there compares the two.  The recursion is that   *)
(* of functions: on the length of a loop in Each, on the growing stack in  *)
(* Dfs.                                                                    *)
(***************************************************************************)
EXTENDS Integers, Sequences

\* The result of a search: whether it met a task on its own stack, and the
\* set `visited' that later searches share.
Found(visited) == [cycle |-> TRUE, visited |-> visited]
Clean(visited) == [cycle |-> FALSE, visited |-> visited]

\* An id without a list names no task: it is visited and leads nowhere.
Follow(lists, id) == IF id \in DOMAIN lists THEN lists[id] ELSE <<>>

\* The ids a search can meet.
Nodes(lists) ==
    DOMAIN lists \cup
    UNION {{lists[t][i] : i \in DOMAIN lists[t]} : t \in DOMAIN lists}

\* The for loops: search from each id in turn until one search succeeds.
Each(dfs, ids, visited) ==
    LET after[k \in 0 .. Len(ids)] ==
            IF k = 0 THEN Clean(visited)
            ELSE LET before == after[k - 1]
                 IN  IF before.cycle THEN before
                     ELSE dfs[ids[k]][before.visited]
    IN  after[Len(ids)]

\* dfs(id), for each state of the two sets it closes over.
DfsVisitedFirst(lists) ==
    LET nodes == Nodes(lists)
        search[inStack \in SUBSET nodes] ==
            [id \in nodes |-> [visited \in SUBSET nodes |->
                IF id \in visited THEN Clean(visited)
                ELSE IF id \in inStack THEN Found(visited)
                ELSE Each(search[inStack \cup {id}], Follow(lists, id),
                          visited \cup {id})]]
    IN  search
Dfs(lists) ==
    LET nodes == Nodes(lists)
        search[inStack \in SUBSET nodes] ==
            [id \in nodes |-> [visited \in SUBSET nodes |->
                IF id \in inStack THEN Found(visited)
                ELSE IF id \in visited THEN Clean(visited)
                ELSE Each(search[inStack \cup {id}], Follow(lists, id),
                          visited \cup {id})]]
    IN  search

\* _hasCycle() over the tasks in creation order.
SearchFindsCycle(lists, tasks) == Each(Dfs(lists)[{}], tasks, {}).cycle

=============================================================================
