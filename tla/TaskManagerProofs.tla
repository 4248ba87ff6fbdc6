-------------------------- MODULE TaskManagerProofs --------------------------
(* What TaskManager guarantees for any number of tasks and any lists.       *)
EXTENDS TaskManager, SubsequencesProofs

\* Type correctness: every operation keeps the status in TaskStatus and the
\* edges among ids, also when update refuses a list half-way through.
THEOREM TypeCorrect == Spec => []TypeOK
<1>1. Init => TypeOK
  BY DEF Init, TypeOK, TaskStatus
<1>2. TypeOK /\ [Next]_vars => TypeOK'
  <2> SUFFICES ASSUME TypeOK, [Next]_vars PROVE TypeOK'
    OBVIOUS
  <2>1. ASSUME NEW t \in Ids, NEW B \in BlockLists, NEW BB \in BlockedByLists,
               Create(t, B, BB)
        PROVE  TypeOK'
    BY <2>1, ListsAssumption DEF Create, TypeOK, TaskStatus, Refs
  <2>2. ASSUME NEW t \in Ids, NEW st \in TaskStatus \cup {NoStatus},
               NEW B \in BlockLists, NEW BB \in BlockedByLists,
               Update(t, st, B, BB)
        PROVE  TypeOK'
    <3>1. B \subseteq Refs /\ BB \subseteq Refs
      BY ListsAssumption DEF Refs
    <3>2. status' \in [Ids -> TaskStatus \cup {"absent"}]
      BY <2>2 DEF Update, SetStatus, TypeOK
    <3>3. blocks' \in [Ids -> SUBSET Refs]
      BY <2>2, <3>1 DEF Update, TypeOK
    <3>4. blockedBy' \in [Ids -> SUBSET Refs]
      BY <2>2, <3>1 DEF Update, TypeOK
    <3> QED
      BY <3>2, <3>3, <3>4 DEF TypeOK
  <2>3. CASE Clear
    BY <2>3 DEF Clear, TypeOK
  <2>4. CASE UNCHANGED vars
    BY <2>4 DEF vars, TypeOK
  <2> QED
    BY <2>1, <2>2, <2>3, <2>4 DEF Next
<1> QED
  BY <1>1, <1>2, PTL DEF Spec

\* What the proofs below add to the type: a task that does not exist has no
\* edges, and no edge leads to one, unless the model made its id up.
EdgesKnown ==
    \A t \in Ids :
        /\ status[t] = "absent" => blocks[t] = {} /\ blockedBy[t] = {}
        /\ (blocks[t] \cup blockedBy[t]) \ {Unknown} \subseteq Existing

LEMMA EdgesStayKnown == Spec => []EdgesKnown
<1>1. Init => EdgesKnown
  BY DEF Init, EdgesKnown
<1>2. TypeOK /\ EdgesKnown /\ [Next]_vars => EdgesKnown'
  <2> SUFFICES ASSUME TypeOK, EdgesKnown, [Next]_vars
               PROVE  EdgesKnown'
    OBVIOUS
  <2>1. ASSUME NEW t \in Ids, NEW B \in BlockLists, NEW BB \in BlockedByLists,
               Create(t, B, BB)
        PROVE  EdgesKnown'
    BY <2>1 DEF Create, TypeOK, EdgesKnown, Existing
  <2>2. ASSUME NEW t \in Ids, NEW st \in TaskStatus \cup {NoStatus},
               NEW B \in BlockLists, NEW BB \in BlockedByLists,
               Update(t, st, B, BB)
        PROVE  EdgesKnown'
    <3>1. Existing' = Existing
      BY <2>2 DEF Update, SetStatus, TypeOK, Existing, TaskStatus, NoStatus
    <3>2. \A u \in Ids : blocks'[u] \subseteq
              (IF u = t THEN blocks[u] \cup B ELSE blocks[u])
      BY <2>2 DEF Update, TypeOK
    <3>3. \A u \in Ids : blockedBy'[u] \subseteq
              (IF u = t THEN blockedBy[u] \cup BB ELSE blockedBy[u])
      BY <2>2 DEF Update, TypeOK
    <3>4. t \in Existing /\ B \cup BB \subseteq Existing \cup {Unknown}
      BY <2>2 DEF Update
    <3>5. \A u \in Ids : status'[u] = "absent" => u # t /\ status[u] = "absent"
      BY <3>1, <3>4 DEF Existing
    <3> QED
      BY <3>1, <3>2, <3>3, <3>4, <3>5 DEF EdgesKnown
  <2>3. CASE Clear
    BY <2>3 DEF Clear, EdgesKnown
  <2>4. CASE UNCHANGED vars
    BY <2>4 DEF vars, EdgesKnown, Existing
  <2> QED
    BY <2>1, <2>2, <2>3, <2>4 DEF Next
<1> QED
  BY <1>1, <1>2, TypeCorrect, PTL DEF Spec

\* Taking edges out of a relation without a cycle makes none.
LEMMA SubrelationAcyclic ==
    ASSUME NEW E, NEW F, ~Cyclic(E), \A t \in Ids : F[t] \subseteq E[t]
    PROVE  ~Cyclic(F)
BY DEF Cyclic

\* A node no edge leads to is on no cycle, whatever edges leave it.
LEMMA SourceOnNoCycle ==
    ASSUME NEW E, NEW F, NEW t \in Ids, ~Cyclic(E),
           \A u \in Ids \ {t} : F[u] = E[u],
           \A u \in Ids : t \notin F[u]
    PROVE  ~Cyclic(F)
<1> SUFFICES ASSUME NEW S \in SUBSET Ids, S # {},
                    \A u \in S : F[u] \cap S # {}
             PROVE  FALSE
  BY DEF Cyclic
<1> DEFINE T == S \ {t}
<1>1. \A u \in S : F[u] \cap T # {}
  OBVIOUS
<1>2. T # {}
  BY <1>1
<1>3. \A u \in T : E[u] \cap T # {}
  BY <1>1
<1> QED
  BY <1>2, <1>3 DEF Cyclic

\* The `blocks' relation never gets a cycle: create adds edges from a fresh
\* task only, update takes back what closes a cycle, also when that removes
\* edges that were there before.
THEOREM NoBlocksCycle == Spec => []BlocksAcyclic
<1>1. Init => BlocksAcyclic
  BY DEF Init, BlocksAcyclic, Cyclic
<1>2. TypeOK /\ EdgesKnown /\ BlocksAcyclic /\ [Next]_vars
          => BlocksAcyclic'
  <2> SUFFICES ASSUME TypeOK, EdgesKnown, BlocksAcyclic, [Next]_vars
               PROVE  ~Cyclic(blocks')
    BY DEF BlocksAcyclic, Cyclic
  <2>0. ~Cyclic(blocks)
    BY DEF BlocksAcyclic
  <2>1. ASSUME NEW t \in Ids, NEW B \in BlockLists, NEW BB \in BlockedByLists,
               Create(t, B, BB)
        PROVE  ~Cyclic(blocks')
    <3>1. \A u \in Ids \ {t} : blocks'[u] = blocks[u]
      BY <2>1 DEF Create, TypeOK
    <3>2. t \notin Existing \cup {Unknown}
      BY <2>1, UnknownAssumption DEF Create, Existing
    <3>3. \A u \in Ids : t \notin blocks'[u]
      BY <2>1, <3>2 DEF Create, TypeOK, EdgesKnown
    <3> QED
      BY <2>0, <3>1, <3>3, SourceOnNoCycle
  <2>2. ASSUME NEW t \in Ids, NEW st \in TaskStatus \cup {NoStatus},
               NEW B \in BlockLists, NEW BB \in BlockedByLists,
               Update(t, st, B, BB)
        PROVE  ~Cyclic(blocks')
    <3> DEFINE added == [blocks EXCEPT ![t] = @ \cup B]
    <3>1. CASE B # {} /\ HasCycle(added)
      <4>1. \A u \in Ids : blocks'[u] \subseteq blocks[u]
        BY <2>2, <3>1 DEF Update, TypeOK
      <4> QED
        BY <2>0, <4>1, SubrelationAcyclic
    <3>2. CASE B # {} /\ ~HasCycle(added)
      BY <2>2, <3>2 DEF Update, HasCycle
    <3>3. CASE B = {}
      <4>1. \A u \in Ids : blocks'[u] \subseteq blocks[u]
        BY <2>2, <3>3 DEF Update, TypeOK
      <4> QED
        BY <2>0, <4>1, SubrelationAcyclic
    <3> QED
      BY <3>1, <3>2, <3>3
  <2>3. CASE Clear
    BY <2>3 DEF Clear, Cyclic
  <2>4. CASE UNCHANGED vars
    BY <2>0, <2>4 DEF vars
  <2> QED
    BY <2>1, <2>2, <2>3, <2>4 DEF Next
<1> QED
  BY <1>1, <1>2, TypeCorrect, EdgesStayKnown, PTL DEF Spec

\* Whatever a patch holds, and wherever it is refused, a task that waits for
\* others goes on waiting until one of them is completed.
THEOREM WaitsForCompletion == Spec => FreedByCompletion
<1>1. TypeOK /\ BlocksAcyclic /\ [Next]_vars =>
        [\A t \in Ids :
            status[t] = "pending" /\ t \notin Available /\ t \in Available' =>
                \E b \in blockedBy[t] \cap Ids :
                    status[b] # "completed" /\ status'[b] = "completed"]_vars
  <2> SUFFICES ASSUME TypeOK, BlocksAcyclic, Next, NEW u \in Ids,
                      status[u] = "pending", u \notin Available, u \in Available'
               PROVE  \E b \in blockedBy[u] \cap Ids :
                          status[b] # "completed" /\ status'[b] = "completed"
    OBVIOUS
  <2>1. blockedBy[u] \subseteq blockedBy'[u]
    <3>1. ASSUME NEW t \in Ids, NEW B \in BlockLists, NEW BB \in BlockedByLists,
                 Create(t, B, BB)
          PROVE  blockedBy'[u] = blockedBy[u]
      BY <3>1 DEF Create, TypeOK
    <3>2. ASSUME NEW t \in Ids, NEW st \in TaskStatus \cup {NoStatus},
                 NEW B \in BlockLists, NEW BB \in BlockedByLists,
                 Update(t, st, B, BB)
          PROVE  blockedBy[u] \subseteq blockedBy'[u]
      <4> DEFINE added == [blocks EXCEPT ![t] = @ \cup B]
      <4>1. CASE B # {} /\ HasCycle(added)
        BY <3>2, <4>1 DEF Update
      <4>2. CASE ~(B # {} /\ HasCycle(added))
        <5>1. ~HasCycle(added)
          <6>1. B = {} => \A v \in Ids : added[v] \subseteq blocks[v]
            BY DEF TypeOK
          <6>2. B = {} => ~Cyclic(added)
            BY <6>1, SubrelationAcyclic DEF BlocksAcyclic
          <6> QED
            BY <4>2, <6>2 DEF HasCycle
        <5>2. blockedBy' = [blockedBy EXCEPT ![t] = @ \cup BB]
          BY <3>2, <4>2, <5>1 DEF Update
        <5> QED
          BY <5>2 DEF TypeOK
      <4> QED
        BY <4>1, <4>2
    <3>3. CASE Clear
      BY <3>3 DEF Clear, Available, Existing
    <3> QED
      BY <3>1, <3>2, <3>3 DEF Next
  <2>2. PICK b \in blockedBy[u] : ~(b \in Existing /\ status[b] = "completed")
    BY DEF Available, Existing
  <2>3. b \in Existing' /\ status'[b] = "completed"
    BY <2>1, <2>2 DEF Available
  <2>4. b \in Ids /\ status[b] # "completed"
    BY <2>2, <2>3 DEF Existing
  <2> QED
    BY <2>2, <2>3, <2>4
<1> QED
  BY <1>1, TypeCorrect, NoBlocksCycle, PTL DEF Spec, FreedByCompletion

\* A deleted task is never revived by an update; only clear() forgets it.
THEOREM DeletedStays == Spec => DeletedIsFinal
<1>1. TypeOK /\ [Next]_vars =>
        [\A t \in Ids : status[t] = "deleted" =>
             status'[t] \in {"deleted", "absent"}]_vars
  <2> SUFFICES ASSUME TypeOK, Next,
                      NEW u \in Ids, status[u] = "deleted"
               PROVE  status'[u] \in {"deleted", "absent"}
    OBVIOUS
  <2>1. ASSUME NEW t \in Ids, NEW B \in BlockLists, NEW BB \in BlockedByLists,
               Create(t, B, BB)
        PROVE  status'[u] = "deleted"
    BY <2>1 DEF Create, TypeOK
  <2>2. ASSUME NEW t \in Ids, NEW st \in TaskStatus \cup {NoStatus},
               NEW B \in BlockLists, NEW BB \in BlockedByLists,
               Update(t, st, B, BB)
        PROVE  status'[u] = "deleted"
    BY <2>2 DEF Update, StatusAllowed, SetStatus, TypeOK
  <2>3. CASE Clear
    BY <2>3 DEF Clear
  <2> QED
    BY <2>1, <2>2, <2>3 DEF Next
<1> QED
  BY <1>1, TypeCorrect, PTL DEF Spec, DeletedIsFinal

-----------------------------------------------------------------------------
(* The search of _hasCycle.  Its recursion ends because the stack grows; the *)
(* proofs go by induction on the nodes that are not on the stack.            *)

\* What holds of a subset of a finite set whenever it holds of the subset with
\* any one element more, holds of every subset.
LEMMA FromSupersets ==
    ASSUME NEW N, IsFiniteSet(N), NEW P \in SUBSET (SUBSET N),
           \A K \in SUBSET N : (\A x \in N \ K : K \cup {x} \in P) => K \in P
    PROVE  P = SUBSET N
<1> DEFINE Q == {Cardinality(N \ K) : K \in (SUBSET N) \ P}
<1>1. \A K \in SUBSET N : IsFiniteSet(N \ K) /\ Cardinality(N \ K) \in Nat
  <2> SUFFICES ASSUME NEW K \in SUBSET N
               PROVE  IsFiniteSet(N \ K) /\ Cardinality(N \ K) \in Nat
    OBVIOUS
  <2>1. N \ K \in SUBSET N
    OBVIOUS
  <2>2. IsFiniteSet(N \ K)
    BY <2>1, FS_Subset
  <2> QED
    BY <2>2, FS_CardinalityType
<1> SUFFICES ASSUME NEW J \in (SUBSET N) \ P
             PROVE  FALSE
  OBVIOUS
<1>0. Q \in SUBSET Nat /\ Q # {}
  <2>1. Q \in SUBSET Nat
    <3>1. \A K \in (SUBSET N) \ P : Cardinality(N \ K) \in Nat
      BY <1>1
    <3>2. ASSUME NEW q \in Q
          PROVE  q \in Nat
      <4>1. PICK K \in (SUBSET N) \ P : q = Cardinality(N \ K)
        OBVIOUS
      <4> QED
        BY <3>1, <4>1
    <3> HIDE DEF Q
    <3> QED
      BY <3>2
  <2>2. Cardinality(N \ J) \in Q
    OBVIOUS
  <2> QED
    BY <2>1, <2>2
<1>2. PICK n \in Q : \A m \in Q : n <= m
  <2> HIDE DEF Q
  <2> QED
    BY <1>0, LeastNumber
<1>3. PICK K \in (SUBSET N) \ P : n = Cardinality(N \ K)
  OBVIOUS
<1>4. PICK x \in N \ K : K \cup {x} \notin P
  OBVIOUS
<1>5. Cardinality(N \ (K \cup {x})) \in Q
  BY <1>4
<1>6. Cardinality((N \ K) \ {x}) = Cardinality(N \ K) - 1
  <2>1. PICK S : S = N \ K
    OBVIOUS
  <2>2. IsFiniteSet(S) /\ x \in S
    BY <1>1, <2>1
  <2> HIDE DEF Q
  <2>3. Cardinality(S \ {x}) = Cardinality(S) - 1
    BY <2>2, FS_RemoveElement
  <2> QED
    BY <2>1, <2>3
<1>7. N \ (K \cup {x}) = (N \ K) \ {x}
  OBVIOUS
<1>8. n <= n - 1 /\ n \in Nat
  <2> HIDE DEF Q
  <2> QED
    BY <1>1, <1>2, <1>3, <1>5, <1>6, <1>7
<1> QED
  BY <1>8

\* The function by which a for loop is defined.
Loop(dfs, ids, visited, after) ==
    after = [k \in 0 .. Len(ids) |->
                IF k = 0 THEN Clean(visited)
                ELSE IF after[k - 1].cycle THEN after[k - 1]
                ELSE dfs[ids[k]][after[k - 1].visited]]

LEMMA LoopExists ==
    ASSUME NEW dfs, NEW ids, Len(ids) \in Nat, NEW visited
    PROVE  \E after : Loop(dfs, ids, visited, after)
<1> DEFINE body(g, n) ==
        IF n = 0 THEN Clean(visited)
        ELSE IF g[n - 1].cycle THEN g[n - 1]
        ELSE dfs[ids[n]][g[n - 1].visited]
    P == {n \in Nat : \E g : g = [m \in 0 .. n |-> body(g, m)]}
<1>1. 0 \in P
  <2>1. [m \in 0 .. 0 |-> Clean(visited)] =
            [m \in 0 .. 0 |-> body([k \in 0 .. 0 |-> Clean(visited)], m)]
    OBVIOUS
  <2> QED
    BY <2>1
<1>2. ASSUME NEW n \in P
      PROVE  n + 1 \in P
  <2>1. PICK g : g = [m \in 0 .. n |-> body(g, m)]
    OBVIOUS
  <2>2. \A m \in 0 .. n : g[m] = body(g, m)
    <3> HIDE DEF body
    <3> QED
      BY <2>1
  <2> DEFINE h == [m \in 0 .. n + 1 |->
                      IF m <= n THEN g[m] ELSE body(g, n + 1)]
  <2>3. \A m \in 0 .. n + 1 : h[m] = body(h, m)
    <3> SUFFICES ASSUME NEW m \in 0 .. n + 1
                 PROVE  h[m] = body(h, m)
      OBVIOUS
    <3>1. m # 0 => m - 1 \in 0 .. n /\ h[m - 1] = g[m - 1]
      OBVIOUS
    <3>2. h[m] = body(g, m)
      <4>1. CASE m <= n
        BY <2>2, <4>1
      <4>2. CASE m = n + 1
        BY <4>2
      <4> QED
        BY <4>1, <4>2
    <3> HIDE DEF h
    <3> QED
      BY <3>1, <3>2
  <2>4. h = [m \in 0 .. n + 1 |-> body(h, m)]
    <3>1. h = [m \in 0 .. n + 1 |-> h[m]]
      OBVIOUS
    <3> HIDE DEF h, body
    <3> QED
      BY <2>3, <3>1
  <2>5. \E f : f = [m \in 0 .. n + 1 |-> body(f, m)]
    <3> HIDE DEF h
    <3> QED
      BY <2>4
  <2>6. n + 1 \in Nat
    OBVIOUS
  <2> HIDE DEF body
  <2> QED
    BY <2>5, <2>6
<1>3. Len(ids) \in P
  <2>1. P \in SUBSET Nat
    OBVIOUS
  <2> HIDE DEF P
  <2>2. \A n \in P : n + 1 \in P
    BY <1>2
  <2>3. P = Nat
    BY <1>1, <2>1, <2>2, NumbersInduction
  <2> QED
    BY <2>3
<1> QED
  BY <1>3 DEF Loop

\* What the iterations of the loop return, one after the other.
LEMMA EachIsLoop ==
    ASSUME NEW dfs, NEW S, NEW ids \in Seq(S), NEW visited
    PROVE  \E after :
               /\ after[0] = Clean(visited)
               /\ \A k \in 1 .. Len(ids) :
                      after[k] = IF after[k - 1].cycle THEN after[k - 1]
                                 ELSE dfs[ids[k]][after[k - 1].visited]
               /\ Each(dfs, ids, visited) = after[Len(ids)]
<1> DEFINE g == CHOOSE g : Loop(dfs, ids, visited, g)
<1>1. Loop(dfs, ids, visited, g)
  <2>1. Len(ids) \in Nat
    OBVIOUS
  <2> QED
    BY <2>1, LoopExists
<1>2. Each(dfs, ids, visited) = g[Len(ids)]
  BY DEF Each, Loop
<1> HIDE DEF g
<1> DEFINE body(k) ==
        IF k = 0 THEN Clean(visited)
        ELSE IF g[k - 1].cycle THEN g[k - 1]
        ELSE dfs[ids[k]][g[k - 1].visited]
<1>3. \A k \in 0 .. Len(ids) : g[k] = body(k)
  <2>1. g = [k \in 0 .. Len(ids) |-> body(k)]
    BY <1>1 DEF Loop
  <2> HIDE DEF body
  <2> QED
    BY <2>1
<1>4. g[0] = Clean(visited)
  BY <1>3
<1>5. \A k \in 1 .. Len(ids) :
          g[k] = IF g[k - 1].cycle THEN g[k - 1]
                 ELSE dfs[ids[k]][g[k - 1].visited]
  BY <1>3
<1> QED
  BY <1>2, <1>4, <1>5

\* The function by which the search is defined.
DfsAt(lists, g, inStack) ==
    [id \in Nodes(lists) |-> [visited \in SUBSET Nodes(lists) |->
        IF id \in inStack THEN Found(visited)
        ELSE IF id \in visited THEN Clean(visited)
        ELSE Each(g[inStack \cup {id}], Follow(lists, id),
                  visited \cup {id})]]
Search(lists, g) ==
    g = [inStack \in SUBSET Nodes(lists) |-> DfsAt(lists, g, inStack)]

\* Deeper stacks decide what a search returns.
LEMMA DfsAtLocal ==
    ASSUME NEW lists, NEW g, NEW h, NEW K,
           \A id \in Nodes(lists) \ K : g[K \cup {id}] = h[K \cup {id}]
    PROVE  DfsAt(lists, g, K) = DfsAt(lists, h, K)
<1>1. ASSUME NEW id \in Nodes(lists), NEW visited
      PROVE  (IF id \in K THEN Found(visited)
              ELSE IF id \in visited THEN Clean(visited)
              ELSE Each(g[K \cup {id}], Follow(lists, id), visited \cup {id}))
           = (IF id \in K THEN Found(visited)
              ELSE IF id \in visited THEN Clean(visited)
              ELSE Each(h[K \cup {id}], Follow(lists, id), visited \cup {id}))
  <2>1. CASE id \in K
    BY <2>1
  <2>2. CASE id \notin K
    <3>1. g[K \cup {id}] = h[K \cup {id}]
      BY <2>2
    <3> QED
      BY <3>1
  <2> QED
    BY <2>1, <2>2
<1> QED
  BY <1>1 DEF DfsAt

LEMMA SearchExists ==
    ASSUME NEW lists, IsFiniteSet(Nodes(lists))
    PROVE  \E g : Search(lists, g)
<1> DEFINE N == Nodes(lists)
           Left(n) == {K \in SUBSET N : Cardinality(N \ K) <= n}
           Solves(g, n) == g = [K \in Left(n) |-> DfsAt(lists, g, K)]
           P == {n \in Nat : \E g : Solves(g, n)}
<1>1. \A K \in SUBSET N : IsFiniteSet(N \ K) /\ Cardinality(N \ K) \in Nat
                        /\ Cardinality(N \ K) <= Cardinality(N)
  <2> SUFFICES ASSUME NEW K \in SUBSET N
               PROVE  IsFiniteSet(N \ K) /\ Cardinality(N \ K) \in Nat
                      /\ Cardinality(N \ K) <= Cardinality(N)
    OBVIOUS
  <2>1. N \ K \in SUBSET N
    OBVIOUS
  <2>2. IsFiniteSet(N \ K) /\ Cardinality(N \ K) <= Cardinality(N)
    BY <2>1, FS_Subset
  <2> QED
    BY <2>2, FS_CardinalityType
<1>2. ASSUME NEW K \in SUBSET N, NEW id \in N \ K
      PROVE  /\ K \cup {id} \in SUBSET N
             /\ Cardinality(N \ (K \cup {id})) = Cardinality(N \ K) - 1
  <2>1. Cardinality((N \ K) \ {id}) = Cardinality(N \ K) - 1
    BY <1>1, FS_RemoveElement
  <2>2. N \ (K \cup {id}) = (N \ K) \ {id}
    OBVIOUS
  <2> QED
    BY <2>1, <2>2
<1>3. 0 \in P
  <2>1. ASSUME NEW K \in Left(0), NEW g, NEW h
        PROVE  DfsAt(lists, g, K) = DfsAt(lists, h, K)
    <3>1. Cardinality(N \ K) = 0 /\ IsFiniteSet(N \ K)
      BY <1>1
    <3>2. N \ K = {}
      BY <3>1, FS_EmptySet
    <3> QED
      BY <3>2, DfsAtLocal
  <2> DEFINE g == [K \in Left(0) |-> DfsAt(lists, <<>>, K)]
  <2>2. \A K \in Left(0) : DfsAt(lists, g, K) = DfsAt(lists, <<>>, K)
    BY <2>1
  <2>3. g = [K \in Left(0) |-> DfsAt(lists, g, K)]
    <3>1. g = [K \in Left(0) |-> g[K]]
      OBVIOUS
    <3>2. \A K \in Left(0) : g[K] = DfsAt(lists, g, K)
      BY <2>2
    <3> HIDE DEF g, Left
    <3> QED
      BY <3>1, <3>2
  <2>4. \E f : Solves(f, 0)
    <3> HIDE DEF g
    <3> QED
      BY <2>3
  <2> HIDE DEF Solves
  <2> QED
    BY <2>4
<1>4. ASSUME NEW n \in P
      PROVE  n + 1 \in P
  <2>1. PICK g : Solves(g, n)
    OBVIOUS
  <2>2. \A K \in Left(n) : g[K] = DfsAt(lists, g, K)
    <3> HIDE DEF Left
    <3> QED
      BY <2>1
  <2> DEFINE h == [K \in Left(n + 1) |->
                      IF K \in Left(n) THEN g[K] ELSE DfsAt(lists, g, K)]
  <2>3. ASSUME NEW K \in Left(n + 1)
        PROVE  h[K] = DfsAt(lists, h, K)
    <3>1. h[K] = DfsAt(lists, g, K)
      <4> HIDE DEF Left
      <4> QED
        BY <2>2
    <3>2. ASSUME NEW id \in N \ K
          PROVE  g[K \cup {id}] = h[K \cup {id}]
      <4>1. /\ K \cup {id} \in SUBSET N
            /\ Cardinality(N \ (K \cup {id})) = Cardinality(N \ K) - 1
        BY <1>2
      <4>2. Cardinality(N \ K) \in Nat /\ Cardinality(N \ K) <= n + 1
        BY <1>1
      <4>3. K \cup {id} \in Left(n) /\ K \cup {id} \in Left(n + 1)
        BY <4>1, <4>2
      <4> HIDE DEF Left
      <4> QED
        BY <4>3
    <3> HIDE DEF h
    <3> QED
      BY <3>1, <3>2, DfsAtLocal
  <2>4. h = [K \in Left(n + 1) |-> DfsAt(lists, h, K)]
    <3>1. h = [K \in Left(n + 1) |-> h[K]]
      OBVIOUS
    <3> HIDE DEF h, Left
    <3> QED
      BY <2>3, <3>1
  <2>5. \E f : Solves(f, n + 1)
    <3> HIDE DEF h
    <3> QED
      BY <2>4
  <2>6. n + 1 \in Nat
    OBVIOUS
  <2> HIDE DEF Solves
  <2> QED
    BY <2>5, <2>6
<1>5. P = Nat
  <2>1. P \in SUBSET Nat
    OBVIOUS
  <2> HIDE DEF P
  <2> QED
    BY <1>3, <1>4, <2>1, NumbersInduction
<1>6. PICK g : Solves(g, Cardinality(N))
  <2>1. Cardinality(N) \in Nat
    BY FS_CardinalityType
  <2> HIDE DEF Solves
  <2> QED
    BY <1>5, <2>1
<1>7. Left(Cardinality(N)) = SUBSET N
  BY <1>1
<1>8. g = [K \in SUBSET N |-> DfsAt(lists, g, K)]
  <2> HIDE DEF Left
  <2> QED
    BY <1>6, <1>7
<1> QED
  BY <1>8 DEF Search

\* What the search returns at each stack.
LEMMA DfsIsSearch ==
    ASSUME NEW lists, IsFiniteSet(Nodes(lists))
    PROVE  \A K \in SUBSET Nodes(lists) :
               Dfs(lists)[K] = DfsAt(lists, Dfs(lists), K)
<1> DEFINE g == CHOOSE g : Search(lists, g)
<1>1. Search(lists, g)
  BY SearchExists
<1>2. Dfs(lists) = g
  BY DEF Dfs, Search, DfsAt
<1> HIDE DEF g
<1>3. Dfs(lists) =
          [K \in SUBSET Nodes(lists) |-> DfsAt(lists, Dfs(lists), K)]
  BY <1>1, <1>2 DEF Search
<1> HIDE DEF DfsAt
<1> QED
  BY <1>3

-----------------------------------------------------------------------------
\* What a search at the stack K returns, over the edges of lists.
Successors(lists, id) == {Follow(lists, id)[i] : i \in DOMAIN Follow(lists, id)}

HasLoop(lists, T) ==
    \E S \in SUBSET T :
        S # {} /\ \A v \in S : Successors(lists, v) \cap S # {}

\* All that is reached from a finished node is finished, and on no cycle.
Finished(lists, B) ==
    /\ \A v \in B : Successors(lists, v) \subseteq B
    /\ ~HasLoop(lists, B)

\* From each task on the stack an edge leads to the next one; the last leads
\* to the id that is searched.
Chain(lists, K, id) == \A v \in K : Successors(lists, v) \cap (K \cup {id}) # {}

Before(lists, K, V) == K \subseteq V /\ Finished(lists, V \ K)

After(lists, K, V, T, r) ==
    LET N == Nodes(lists) IN
    /\ r.cycle \in BOOLEAN /\ r.visited \in SUBSET N
    /\ r.cycle => HasLoop(lists, N)
    /\ ~r.cycle => /\ V \subseteq r.visited /\ T \subseteq r.visited \ K
                   /\ Finished(lists, r.visited \ K)

ExactAt(lists, K, dfs) ==
    \A id \in Nodes(lists) : \A V \in SUBSET Nodes(lists) :
        Before(lists, K, V) /\ Chain(lists, K, id)
            => After(lists, K, V, {id}, dfs[id][V])

\* The loop does for its list what the search does for an id.
LEMMA EachExact ==
    ASSUME NEW lists, NEW K \in SUBSET Nodes(lists), NEW dfs,
           ExactAt(lists, K, dfs),
           NEW ids \in Seq(Nodes(lists)), NEW V \in SUBSET Nodes(lists),
           Before(lists, K, V), \A i \in 1 .. Len(ids) : Chain(lists, K, ids[i])
    PROVE  After(lists, K, V, {ids[i] : i \in 1 .. Len(ids)},
                 Each(dfs, ids, V))
<1>1. PICK after :
          /\ after[0] = Clean(V)
          /\ \A k \in 1 .. Len(ids) :
                 after[k] = IF after[k - 1].cycle THEN after[k - 1]
                            ELSE dfs[ids[k]][after[k - 1].visited]
          /\ Each(dfs, ids, V) = after[Len(ids)]
  BY EachIsLoop
<1> DEFINE T(k) == {ids[i] : i \in 1 .. k}
           P == {k \in Nat : k <= Len(ids) => After(lists, K, V, T(k), after[k])}
<1>2. 0 \in P
  <2>1. After(lists, K, V, {}, Clean(V))
    BY DEF After, Clean, Before
  <2>2. T(0) = {}
    OBVIOUS
  <2>3. After(lists, K, V, T(0), after[0])
    BY <1>1, <2>1, <2>2
  <2> HIDE DEF T
  <2> QED
    BY <2>3
<1>3. ASSUME NEW k \in P
      PROVE  k + 1 \in P
  <2> SUFFICES ASSUME k + 1 <= Len(ids)
               PROVE  After(lists, K, V, T(k + 1), after[k + 1])
    OBVIOUS
  <2>1. After(lists, K, V, T(k), after[k])
    OBVIOUS
  <2>2. after[k + 1] = IF after[k].cycle THEN after[k]
                       ELSE dfs[ids[k + 1]][after[k].visited]
    BY <1>1
  <2>3. CASE after[k].cycle
    BY <2>1, <2>2, <2>3 DEF After
  <2>4. CASE ~after[k].cycle
    <3> DEFINE W == after[k].visited
               id == ids[k + 1]
               r == after[k + 1]
    <3>1. /\ W \in SUBSET Nodes(lists) /\ V \subseteq W
          /\ T(k) \subseteq W \ K /\ Finished(lists, W \ K)
      BY <2>1, <2>4 DEF After
    <3>2. Before(lists, K, W)
      BY <3>1 DEF Before
    <3>3. id \in Nodes(lists) /\ Chain(lists, K, id)
      OBVIOUS
    <3>4. r = dfs[id][W]
      BY <2>2, <2>4
    <3> HIDE DEF W, id, r
    <3>5. After(lists, K, W, {id}, r)
      BY <3>1, <3>2, <3>3, <3>4 DEF ExactAt
    <3>6. T(k + 1) = T(k) \cup {id}
      BY DEF id
    <3> HIDE DEF T
    <3>7. After(lists, K, V, T(k + 1), r)
      BY <3>1, <3>5, <3>6 DEF After
    <3> QED
      BY <3>7 DEF r
  <2> QED
    BY <2>1, <2>3, <2>4 DEF After
<1>4. P = Nat
  <2>1. P \in SUBSET Nat
    OBVIOUS
  <2> HIDE DEF P
  <2> QED
    BY <1>2, <1>3, <2>1, NumbersInduction
<1>5. Len(ids) \in P /\ Len(ids) \in Nat
  <2>1. Len(ids) \in Nat
    OBVIOUS
  <2> HIDE DEF P
  <2> QED
    BY <1>4, <2>1
<1>6. After(lists, K, V, T(Len(ids)), after[Len(ids)])
  <2> HIDE DEF T
  <2> QED
    BY <1>5
<1> QED
  BY <1>1, <1>6

\* A node whose successors are all finished can be finished with them.
LEMMA FinishedNode ==
    ASSUME NEW lists, NEW B, Finished(lists, B), NEW id, id \notin B,
           Successors(lists, id) \subseteq B
    PROVE  Finished(lists, B \cup {id})
<1>1. ASSUME NEW S \in SUBSET (B \cup {id}), S # {},
             \A v \in S : Successors(lists, v) \cap S # {}
      PROVE  FALSE
  <2> DEFINE R == S \ {id}
  <2>1. \A v \in S : Successors(lists, v) \subseteq B
    BY DEF Finished
  <2>2. \A v \in S : Successors(lists, v) \cap R # {}
    BY <1>1, <2>1
  <2>3. R # {}
    BY <1>1, <2>2
  <2>4. R \in SUBSET B
    OBVIOUS
  <2> QED
    BY <2>2, <2>3, <2>4 DEF Finished, HasLoop
<1>2. ~HasLoop(lists, B \cup {id})
  BY <1>1 DEF HasLoop
<1> QED
  BY <1>2 DEF Finished

\* One level of the search, if the levels below it do their work.
LEMMA LevelExact ==
    ASSUME NEW lists, NEW K \in SUBSET Nodes(lists), NEW g,
           \A id \in Nodes(lists) \ K :
               ExactAt(lists, K \cup {id}, g[K \cup {id}]),
           \A id \in Nodes(lists) : Follow(lists, id) \in Seq(Nodes(lists))
    PROVE  ExactAt(lists, K, DfsAt(lists, g, K))
<1> DEFINE N == Nodes(lists)
<1> SUFFICES ASSUME NEW id \in N, NEW V \in SUBSET N,
                    Before(lists, K, V), Chain(lists, K, id)
             PROVE  After(lists, K, V, {id}, DfsAt(lists, g, K)[id][V])
  BY DEF ExactAt
<1> DEFINE r == DfsAt(lists, g, K)[id][V]
<1>1. r = IF id \in K THEN Found(V)
          ELSE IF id \in V THEN Clean(V)
          ELSE Each(g[K \cup {id}], Follow(lists, id), V \cup {id})
  BY DEF DfsAt
<1>2. CASE id \in K
  <2>1. HasLoop(lists, N)
    <3>1. \A v \in K : Successors(lists, v) \cap K # {}
      BY <1>2 DEF Chain
    <3> QED
      BY <1>2, <3>1 DEF HasLoop
  <2> QED
    BY <1>1, <1>2, <2>1 DEF After, Found
<1>3. CASE id \notin K /\ id \in V
  BY <1>1, <1>3 DEF After, Clean, Before
<1>4. CASE id \notin K /\ id \notin V
  <2> DEFINE L == K \cup {id}
             U == V \cup {id}
             ids == Follow(lists, id)
             S == Successors(lists, id)
  <2>1. r = Each(g[L], ids, U)
    BY <1>1, <1>4
  <2>2. U \ L = V \ K
    BY <1>4
  <2>3. Before(lists, L, U)
    BY <2>2 DEF Before
  <2>4. ids \in Seq(N) /\ L \in SUBSET N /\ U \in SUBSET N
    OBVIOUS
  <2>5. {ids[i] : i \in 1 .. Len(ids)} = S
    BY <2>4 DEF Successors
  <2>6. \A i \in 1 .. Len(ids) : Chain(lists, L, ids[i])
    <3>1. ASSUME NEW n \in S
          PROVE  Chain(lists, L, n)
      BY <3>1 DEF Chain
    <3> QED
      BY <2>5, <3>1
  <2>7. ExactAt(lists, L, g[L])
    BY <1>4
  <2> HIDE DEF L, U, ids, r
  <2>8. After(lists, L, U, S, r)
    <3>1. After(lists, L, U, {ids[i] : i \in 1 .. Len(ids)}, Each(g[L], ids, U))
      BY <2>3, <2>4, <2>6, <2>7, EachExact
    <3> QED
      BY <2>1, <2>5, <3>1
  <2>9. CASE r.cycle
    BY <2>8, <2>9 DEF After, r
  <2>10. CASE ~r.cycle
    <3> DEFINE W == r.visited
    <3>1. /\ W \in SUBSET N /\ U \subseteq W /\ S \subseteq W \ L
          /\ Finished(lists, W \ L)
      BY <2>8, <2>10 DEF After
    <3>2. W \ K = (W \ L) \cup {id} /\ id \notin W \ L
      BY <1>4, <3>1 DEF L, U
    <3>3. Finished(lists, W \ K)
      <4>1. Finished(lists, (W \ L) \cup {id})
        <5> HIDE DEF W
        <5> QED
          BY <3>1, <3>2, FinishedNode, Zenon
      <4> QED
        BY <3>2, <4>1
    <3>4. V \subseteq W /\ {id} \subseteq W \ K
      BY <3>1, <3>2 DEF U
    <3> QED
      BY <2>8, <2>10, <3>3, <3>4 DEF After, r
  <2>11. r.cycle \in BOOLEAN
    BY <2>8 DEF After
  <2> QED
    BY <2>9, <2>10, <2>11 DEF r
<1> QED
  BY <1>2, <1>3, <1>4

LEMMA SearchExact ==
    ASSUME NEW lists, IsFiniteSet(Nodes(lists)),
           \A id \in Nodes(lists) : Follow(lists, id) \in Seq(Nodes(lists))
    PROVE  ExactAt(lists, {}, Dfs(lists)[{}])
<1> DEFINE N == Nodes(lists)
           P == {K \in SUBSET N : ExactAt(lists, K, Dfs(lists)[K])}
<1>1. ASSUME NEW K \in SUBSET N, \A id \in N \ K : K \cup {id} \in P
      PROVE  K \in P
  <2>1. \A id \in N \ K : ExactAt(lists, K \cup {id}, Dfs(lists)[K \cup {id}])
    BY <1>1
  <2>2. ExactAt(lists, K, DfsAt(lists, Dfs(lists), K))
    BY <2>1, LevelExact
  <2> QED
    BY <2>2, DfsIsSearch
<1>2. P = SUBSET N
  <2>1. P \in SUBSET (SUBSET N)
    OBVIOUS
  <2> HIDE DEF P
  <2> QED
    BY <1>1, <2>1, FromSupersets
<1> QED
  BY <1>2

LEMMA SequenceRangeFinite ==
    ASSUME NEW S, NEW s \in Seq(S), \A x \in S : \E i \in DOMAIN s : s[i] = x
    PROVE  IsFiniteSet(S)
<1>1. Len(s) \in Nat /\ DOMAIN s = 1 .. Len(s) /\ s \in [1 .. Len(s) -> S]
  OBVIOUS
<1>2. s \in Surjection(1 .. Len(s), S)
  BY <1>1 DEF Surjection
<1>3. IsFiniteSet(1 .. Len(s))
  BY <1>1, FS_Interval
<1> QED
  BY <1>2, <1>3, FS_Surjection

\* The whole search: from some task it meets a cycle, if there is one.
LEMMA SearchFindsLoops ==
    ASSUME NEW lists, IsFiniteSet(Nodes(lists)),
           \A u \in DOMAIN lists : lists[u] \in Seq(Nodes(lists)),
           NEW tasks \in Seq(DOMAIN lists),
           \A u \in DOMAIN lists : \E i \in DOMAIN tasks : tasks[i] = u
    PROVE  SearchFindsCycle(lists, tasks) <=> HasLoop(lists, DOMAIN lists)
<1> DEFINE N == Nodes(lists)
           r == Each(Dfs(lists)[{}], tasks, {})
           ids == {tasks[i] : i \in 1 .. Len(tasks)}
<1>1. \A id \in N : Follow(lists, id) \in Seq(N)
  BY DEF Follow
<1>2. ExactAt(lists, {}, Dfs(lists)[{}])
  BY <1>1, SearchExact
<1>3. DOMAIN lists \subseteq N
  BY DEF Nodes
<1>4. tasks \in Seq(N) /\ ids = DOMAIN lists
  <2>1. \A i \in 1 .. Len(tasks) : tasks[i] \in DOMAIN lists
    OBVIOUS
  <2>2. DOMAIN tasks = 1 .. Len(tasks) /\ Len(tasks) \in Nat
    OBVIOUS
  <2>3. ids = DOMAIN lists
    BY <2>1, <2>2
  <2>4. tasks \in Seq(N)
    <3>1. tasks = [i \in 1 .. Len(tasks) |-> tasks[i]]
      OBVIOUS
    <3>2. \A i \in 1 .. Len(tasks) : tasks[i] \in N
      BY <1>3, <2>1
    <3> HIDE DEF N
    <3> QED
      BY <2>2, <3>1, <3>2
  <2> QED
    BY <2>3, <2>4
<1>5. Before(lists, {}, {}) /\ \A id : Chain(lists, {}, id)
  BY DEF Before, Finished, HasLoop, Chain
<1>6. After(lists, {}, {}, ids, r)
  BY <1>2, <1>4, <1>5, EachExact
<1> HIDE DEF r, ids
<1>7. CASE r.cycle
  <2>1. PICK S \in SUBSET N :
            S # {} /\ \A v \in S : Successors(lists, v) \cap S # {}
    BY <1>6, <1>7 DEF After, HasLoop
  <2>2. \A v \in S : v \in DOMAIN lists
    <3> SUFFICES ASSUME NEW v \in S, v \notin DOMAIN lists
                 PROVE  FALSE
      OBVIOUS
    <3>1. Successors(lists, v) = {}
      BY DEF Successors, Follow
    <3> QED
      BY <2>1, <3>1
  <2>3. HasLoop(lists, DOMAIN lists)
    BY <2>1, <2>2 DEF HasLoop
  <2> QED
    BY <1>7, <2>3 DEF SearchFindsCycle, r
<1>8. CASE ~r.cycle
  <2>1. DOMAIN lists \subseteq r.visited /\ ~HasLoop(lists, r.visited)
    <3>1. ids \subseteq r.visited \ {} /\ Finished(lists, r.visited \ {})
      BY <1>6, <1>8 DEF After
    <3>2. r.visited \ {} = r.visited
      OBVIOUS
    <3> QED
      BY <1>4, <3>1, <3>2 DEF Finished
  <2>2. ~HasLoop(lists, DOMAIN lists)
    BY <2>1 DEF HasLoop
  <2> QED
    BY <1>8, <2>2 DEF SearchFindsCycle, r
<1> QED
  BY <1>7, <1>8

\* TaskManager._hasCycle: for any tasks, any edges an update may add and any
\* order in which they came about, the depth-first search answers whether the
\* edges have a cycle.
THEOREM SearchAnswersRight == Spec => []SearchIsExact
<1>1. TypeOK /\ EdgesKnown => SearchIsExact
  <2> SUFFICES ASSUME TypeOK, EdgesKnown,
                      NEW t \in Existing, NEW L \in BlockLists,
                      NEW lists \in Listings([blocks EXCEPT ![t] = @ \cup L]),
                      NEW tasks \in Orders(Existing)
               PROVE  SearchFindsCycle(lists, tasks)
                          <=> Cyclic([blocks EXCEPT ![t] = @ \cup L])
    BY DEF SearchIsExact
  <2> DEFINE added == [blocks EXCEPT ![t] = @ \cup L]
  <2>1. /\ Existing \subseteq Ids /\ L \subseteq Refs
        /\ added \in [Ids -> SUBSET Refs]
        /\ added[t] = blocks[t] \cup L
        /\ \A u \in Ids \ {t} : added[u] = blocks[u]
    BY ListsAssumption DEF Existing, TypeOK, Refs
  <2> HIDE DEF added
  <2>2. /\ tasks \in Seq(Existing)
        /\ \A u \in Existing : \E i \in DOMAIN tasks : tasks[i] = u
    BY <2>1, OrdersAssumption
  <2>3. /\ DOMAIN lists = Existing
        /\ \A u \in Existing : lists[u] \in Orders(added[u])
    BY DEF Listings, added
  <2>4. ASSUME NEW u \in Existing
        PROVE  /\ lists[u] \in Seq(added[u])
               /\ \A x \in added[u] : \E i \in DOMAIN lists[u] : lists[u][i] = x
               /\ added[u] \subseteq Nodes(lists)
    <3>1. added[u] \in SUBSET (Ids \cup {Unknown})
      BY <2>1 DEF Refs
    <3>2. /\ lists[u] \in Seq(added[u])
          /\ \A x \in added[u] : \E i \in DOMAIN lists[u] : lists[u][i] = x
      BY <2>3, <3>1, OrdersAssumption
    <3> QED
      BY <2>3, <3>2 DEF Nodes
  <2>5. IsFiniteSet(Nodes(lists))
    <3>1. Nodes(lists) \subseteq (Existing \cup added[t]) \cup {Unknown}
      <4> SUFFICES ASSUME NEW u \in Existing, NEW i \in DOMAIN lists[u]
                   PROVE  lists[u][i] \in (Existing \cup added[t]) \cup {Unknown}
        BY <2>3 DEF Nodes
      <4>1. lists[u][i] \in added[u]
        BY <2>4
      <4>2. u # t => added[u] \subseteq Existing \cup {Unknown}
        BY <2>1 DEF EdgesKnown
      <4> QED
        BY <4>1, <4>2
    <3>2. IsFiniteSet(Existing) /\ IsFiniteSet(added[t])
      BY <2>2, <2>4, SequenceRangeFinite
    <3>3. IsFiniteSet((Existing \cup added[t]) \cup {Unknown})
      BY <3>2, FS_Union, FS_AddElement
    <3> QED
      BY <3>1, <3>3, FS_Subset
  <2>6. \A u \in Existing : lists[u] \in Seq(Nodes(lists))
    BY <2>4
  <2>7. SearchFindsCycle(lists, tasks) <=> HasLoop(lists, Existing)
    BY <2>2, <2>3, <2>5, <2>6, SearchFindsLoops
  <2>8. \A u \in Existing : Successors(lists, u) = added[u]
    BY <2>3, <2>4 DEF Successors, Follow
  <2>9. HasLoop(lists, Existing) => Cyclic(added)
    BY <2>1, <2>8 DEF HasLoop, Cyclic
  <2>10. ASSUME NEW S \in SUBSET Ids, S # {}, \A u \in S : added[u] \cap S # {}
         PROVE  HasLoop(lists, Existing)
    <3>1. \A u \in S : u \in Existing
      BY <2>1, <2>10 DEF EdgesKnown, Existing
    <3> QED
      BY <2>8, <2>10, <3>1 DEF HasLoop
  <2>11. Cyclic(added) => HasLoop(lists, Existing)
    BY <2>10 DEF Cyclic
  <2> QED
    BY <2>7, <2>9, <2>11 DEF added
<1> QED
  BY <1>1, TypeCorrect, EdgesStayKnown, PTL

=============================================================================
