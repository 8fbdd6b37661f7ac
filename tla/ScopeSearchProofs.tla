-------------------------- MODULE ScopeSearchProofs --------------------------
(***************************************************************************)
(* Proofs about a search for a name.  The scopes in the queue of the       *)
(* ScopeIterator have ranks: the scope that is asked has rank 0, what one  *)
(* scope adds to the queue has a rank one above its own, and the queue is  *)
(* in the order of the ranks.  Whatever other threads share meanwhile, a   *)
(* scope that was n steps away when the search began has a rank of at most *)
(* n once the scopes of smaller ranks have been expanded, so none of those *)
(* that declared the name is passed by.                                    *)
(*                                                                         *)
(* The definitions by recursion (the levels of Within, the loop of         *)
(* AddShared) are unfolded by induction over the natural numbers, which is *)
(* stated with sets and rests on their being well ordered.                 *)
(***************************************************************************)
EXTENDS ScopeSearch, Integers, FiniteSetTheorems, WellFoundedInduction, TLAPS

\* A set of numbers has a least one: the naturals are well ordered.
LEMMA LeastNumber ==
    ASSUME NEW S \in SUBSET Nat, S # {}
    PROVE  \E m \in S : \A k \in S : m <= k
<1> DEFINE R == {ss \in Nat \X Nat : ss[1] < ss[2]}
<1>1. IsWellFoundedOn(R, Nat)
  BY NatLessThanWellFounded DEF OpToRel
<1>2. PICK m \in S : \A y \in S : ~(<<y, m>> \in R)
  <2> HIDE DEF R
  <2> QED BY <1>1, WFMin
<1>3. ASSUME NEW y \in S PROVE m <= y
  <2>1. <<y, m>> \in Nat \X Nat /\ <<y, m>>[1] = y /\ <<y, m>>[2] = m
    OBVIOUS
  <2>2. ~(y < m)
    BY <1>2, <2>1
  <2> QED BY <2>2
<1> QED BY <1>3

\* Induction: a set that holds 0 and is closed under the next number holds 0 .. N.
LEMMA CountUp ==
    ASSUME NEW N \in Nat, NEW S, 0 \in S,
           \A n \in 0 .. N : n \in S /\ n < N => n + 1 \in S
    PROVE  0 .. N \subseteq S
<1> DEFINE Out == {n \in 0 .. N : n \notin S}
<1> SUFFICES ASSUME Out # {} PROVE FALSE
  OBVIOUS
<1>1. PICK m \in Out : \A k \in Out : m <= k
  <2>1. Out \in SUBSET Nat OBVIOUS
  <2> HIDE DEF Out
  <2> QED BY <2>1, LeastNumber
<1>2. m # 0 /\ m \in 0 .. N
  OBVIOUS
<1>3. m - 1 \in 0 .. N /\ m - 1 < N /\ m - 1 \notin Out
  BY <1>1, <1>2
<1>4. m - 1 \in S
  BY <1>3
<1>5. (m - 1) + 1 \in S
  BY <1>3, <1>4
<1> QED BY <1>2, <1>5

\* f[k] is what k steps make of a, the k-th step being the function G[k].
Iterates(f, N, D, a, G) ==
    f \in [0 .. N -> D] /\ f[0] = a /\ \A k \in 1 .. N : f[k] = G[k][f[k - 1]]

\* The steps can be taken one after the other.
LEMMA IteratesExist ==
    ASSUME NEW N \in Nat, NEW D, NEW a \in D, NEW G,
           G \in [1 .. N -> [D -> D]]
    PROVE  \E f : \* f[k] is what k steps make of a, the k-th step being the function G[k].
Iterates(f, N, D, a, G)
<1> DEFINE Right(f, n) == f[0] = a /\ \A k \in 1 .. n : f[k] = G[k][f[k - 1]]
           S == {n \in 0 .. N : \E f \in [0 .. n -> D] : Right(f, n)}
<1>1. 0 \in S
  <2> DEFINE f == [k \in 0 .. 0 |-> a]
  <2>1. f \in [0 .. 0 -> D] /\ Right(f, 0) OBVIOUS
  <2>2. \E h \in [0 .. 0 -> D] : Right(h, 0)
    <3> HIDE DEF f, Right
    <3> QED BY <2>1
  <2> QED BY <2>2
<1>2. ASSUME NEW n \in 0 .. N, n \in S, n < N PROVE n + 1 \in S
  <2>1. PICK f \in [0 .. n -> D] : Right(f, n) BY <1>2
  <2> DEFINE g == [k \in 0 .. n + 1 |-> IF k = n + 1 THEN G[n + 1][f[n]] ELSE f[k]]
  <2>2. G[n + 1] \in [D -> D] /\ f[n] \in D BY <1>2
  <2>3. g \in [0 .. n + 1 -> D] BY <2>2
  <2>4. g[0] = a BY <2>1
  <2>5. ASSUME NEW k \in 1 .. n + 1 PROVE g[k] = G[k][g[k - 1]]
    <3>1. CASE k = n + 1 BY <3>1
    <3>2. CASE k # n + 1 
      <4>1. k \in 1 .. n /\ k - 1 \in 0 .. n BY <3>2
      <4> QED BY <4>1, <2>1
    <3> QED BY <3>1, <3>2
  <2>6. Right(g, n + 1) BY <2>4, <2>5
  <2>7. n + 1 \in 0 .. N BY <1>2
  <2> QED BY <2>3, <2>6, <2>7
<1>3. 0 .. N \subseteq S
  <2> HIDE DEF S
  <2> QED BY <1>1, <1>2, CountUp
<1>4. N \in S BY <1>3
<1>5. PICK f \in [0 .. N -> D] : Right(f, N)
  BY <1>4
<1>6. \* f[k] is what k steps make of a, the k-th step being the function G[k].
Iterates(f, N, D, a, G) BY <1>5 DEF Iterates
<1> QED BY <1>6

\* The recursion in Within has a solution, so that its equations hold.
LEMMA WithinUnfolds ==
    ASSUME SearchAssumption, NEW shared \in [Scope -> Seq(Scope)], NEW s \in Scope
    PROVE  LET N == Cardinality(Scope)
               W == Within(shared, s)
           IN  /\ N \in Nat
               /\ W \in [0 .. N -> SUBSET Scope]
               /\ W[0] = {s}
               /\ \A n \in 1 .. N :
                     W[n] = W[n - 1] \cup UNION {Near(shared, x) : x \in W[n - 1]}
<1> DEFINE N == Cardinality(Scope)
           Step(X) == X \cup UNION {Near(shared, x) : x \in X}
           Sets == SUBSET Scope
           G == [k \in 1 .. N |-> [X \in Sets |-> Step(X)]]
           W == Within(shared, s)
<1>1. N \in Nat
  BY FS_CardinalityType DEF SearchAssumption
<1>2. ASSUME NEW X \in SUBSET Scope PROVE Step(X) \in SUBSET Scope
  <2>1. \A x \in X : shared[x] \in Seq(Scope) /\ Parent[x] \in Scope
    BY DEF SearchAssumption
  <2>2. \A x \in X : Near(shared, x) \subseteq Scope
    BY <2>1 DEF Near, Range
  <2> QED BY <2>2
<1>3. PICK f : Iterates(f, N, Sets, {s}, G)
  <2>1. {s} \in Sets OBVIOUS
  <2>2. G \in [1 .. N -> [Sets -> Sets]]
    BY <1>2
  <2> HIDE DEF G, N, Sets
  <2> QED BY <1>1, <2>1, <2>2, IteratesExist
<1>4. f = [n \in 0 .. N |-> IF n = 0 THEN {s} ELSE Step(f[n - 1])]
  <2>1. \A k \in 1 .. N : f[k] = Step(f[k - 1])
    <3> TAKE k \in 1 .. N
    <3>1. k - 1 \in 0 .. N BY <1>1
    <3>2. f[k - 1] \in Sets
      <4> HIDE DEF Sets, N, G
      <4> QED BY <3>1, <1>3 DEF Iterates
    <3>3. \A X \in Sets : G[k][X] = Step(X)
      <4> HIDE DEF Step, Sets, N
      <4> QED OBVIOUS
    <3> HIDE DEF Step, Sets, N, G
    <3> QED BY <1>3, <3>2, <3>3 DEF Iterates
  <2> HIDE DEF Step, G, Sets, N
  <2> QED BY <1>1, <1>3, <2>1 DEF Iterates
<1> DEFINE Rec(g) == [n \in 0 .. N |-> IF n = 0 THEN {s} ELSE Step(g[n - 1])]
<1>5. W = CHOOSE g : g = Rec(g)
  BY Zenon DEF Within
<1>6. W = Rec(W)
  <2> HIDE DEF Rec, W
  <2> QED BY <1>4, <1>5 DEF Rec
<1>7. W[0] = {s} /\ \A n \in 1 .. N : W[n] = Step(W[n - 1])
  <2> HIDE DEF W, Step, N
  <2>1. ASSUME NEW n \in 0 .. N
        PROVE  W[n] = IF n = 0 THEN {s} ELSE Step(W[n - 1])
    BY <1>6
  <2> QED BY <1>1, <2>1
<1>8. \A n \in 0 .. N : W[n] \in SUBSET Scope
  <2> DEFINE S == {n \in 0 .. N : W[n] \in SUBSET Scope}
  <2>1. 0 \in S BY <1>1, <1>7
  <2>2. ASSUME NEW n \in 0 .. N, n \in S, n < N PROVE n + 1 \in S
    <3>1. n + 1 \in 1 .. N /\ (n + 1) - 1 = n BY <1>1, <2>2
    <3>2. W[n + 1] = Step(W[n]) BY <1>7, <3>1
    <3> HIDE DEF W, Step
    <3> QED BY <1>2, <2>2, <3>1, <3>2
  <2> HIDE DEF S, N
  <2>3. 0 .. N \subseteq S BY <1>1, <2>1, <2>2, CountUp
  <2> QED BY <2>3 DEF S
<1>9. W \in [0 .. N -> SUBSET Scope]
  <2> HIDE DEF W, Step
  <2> QED BY <1>6, <1>8
<1> HIDE DEF W
<1> QED BY <1>1, <1>7, <1>9 DEF W

\* From a scope one gets at least as far in n + 1 steps as in n, and to its neighbours.
LEMMA WithinNext ==
    ASSUME SearchAssumption, NEW shared \in [Scope -> Seq(Scope)], NEW s \in Scope,
           NEW n \in Nat, n + 1 <= Cardinality(Scope), NEW x \in Within(shared, s)[n]
    PROVE  /\ x \in Within(shared, s)[n + 1]
           /\ Near(shared, x) \subseteq Within(shared, s)[n + 1]
<1> DEFINE W == Within(shared, s)
           next(X) == UNION {Near(shared, y) : y \in X}
<1>1. n + 1 \in 1 .. Cardinality(Scope) /\ (n + 1) - 1 = n
  BY WithinUnfolds
<1>2. W[n + 1] = W[n] \cup next(W[n])
  <2>1. \A k \in 1 .. Cardinality(Scope) : W[k] = W[k - 1] \cup next(W[k - 1])
    BY WithinUnfolds
  <2> HIDE DEF W, next
  <2> QED BY <1>1, <2>1
<1>3. Near(shared, x) \subseteq next(W[n])
  OBVIOUS
<1> HIDE DEF next
<1> QED BY <1>2, <1>3

\* The scope itself is within any number of steps.
LEMMA WithinSelf ==
    ASSUME SearchAssumption, NEW shared \in [Scope -> Seq(Scope)], NEW s \in Scope,
           NEW n \in 0 .. Cardinality(Scope)
    PROVE  s \in Within(shared, s)[n]
<1> DEFINE N == Cardinality(Scope)
           S == {k \in 0 .. N : s \in Within(shared, s)[k]}
<1>1. N \in Nat /\ s \in Within(shared, s)[0]
  BY WithinUnfolds
<1>2. 0 \in S BY <1>1
<1>3. ASSUME NEW k \in 0 .. N, k \in S, k < N PROVE k + 1 \in S
  <2>1. k \in Nat /\ k + 1 <= N /\ k + 1 \in 0 .. N BY <1>1, <1>3
  <2> QED BY <2>1, <1>3, WithinNext
<1>4. 0 .. N \subseteq S
  <2> HIDE DEF S, N
  <2> QED BY <1>1, <1>2, <1>3, CountUp
<1> QED BY <1>4

\* Each scope shares at least what it shares in the other table.
Covers(more, less) ==
    \A x \in Scope : Range(less[x]) \subseteq Range(more[x])

\* The more is shared, the further one gets.
LEMMA WithinGrows ==
    ASSUME SearchAssumption, NEW less \in [Scope -> Seq(Scope)],
           NEW more \in [Scope -> Seq(Scope)], Covers(more, less), NEW s \in Scope,
           NEW n \in 0 .. Cardinality(Scope)
    PROVE  Within(less, s)[n] \subseteq Within(more, s)[n]
<1> DEFINE N == Cardinality(Scope)
           L == Within(less, s)
           M == Within(more, s)
           S == {k \in 0 .. N : L[k] \subseteq M[k]}
<1>1. /\ N \in Nat
      /\ L \in [0 .. N -> SUBSET Scope] /\ L[0] = {s} /\ M[0] = {s}
      /\ \A k \in 1 .. N :
            L[k] = L[k - 1] \cup UNION {Near(less, x) : x \in L[k - 1]}
  BY WithinUnfolds
<1>2. 0 \in S BY <1>1
<1>3. ASSUME NEW k \in 0 .. N, k \in S, k < N PROVE k + 1 \in S
  <2>1. k \in Nat /\ k + 1 <= N /\ k + 1 \in 0 .. N /\ k + 1 \in 1 .. N /\ (k + 1) - 1 = k
    BY <1>1, <1>3
  <2>2. L[k + 1] = L[k] \cup UNION {Near(less, x) : x \in L[k]}
    BY <1>1, <2>1
  <2>3. ASSUME NEW x \in L[k] PROVE x \in M[k + 1] /\ Near(less, x) \subseteq M[k + 1]
    <3>1. x \in M[k] /\ x \in Scope BY <1>1, <1>3
    <3>2. Near(less, x) \subseteq Near(more, x) BY <3>1 DEF Near, Covers
    <3>3. x \in M[k + 1] /\ Near(more, x) \subseteq M[k + 1]
      BY <2>1, <3>1, WithinNext
    <3> QED BY <3>2, <3>3
  <2>4. L[k + 1] \subseteq M[k + 1]
    BY <2>2, <2>3
  <2> QED BY <2>1, <2>4
<1>4. 0 .. N \subseteq S
  <2> HIDE DEF S, N
  <2> QED BY <1>1, <1>2, <1>3, CountUp
<1> QED BY <1>4

-----------------------------------------------------------------------------
\* r is the queue q with scopes of X behind it, and every scope of X is somewhere in r.
Added(q, r, X) ==
    /\ r \in Seq(Scope) /\ Len(q) <= Len(r)
    /\ \A k \in 1 .. Len(q) : r[k] = q[k]
    /\ \A k \in Len(q) + 1 .. Len(r) : r[k] \in X
    /\ \A x \in X : \E k \in 1 .. Len(r) : r[k] = x

\* The lambda add.
LEMMA AddAdds ==
    ASSUME NEW q \in Seq(Scope), NEW n \in 0 .. Len(q), NEW r, NEW X, Added(q, r, X),
           NEW s \in Scope
    PROVE  Added(q, Add(r, n, s), X \cup {s})
<1> USE DEF Added
<1>1. CASE \E k \in 1 .. n : r[k] = s
  <2>1. Add(r, n, s) = r BY <1>1 DEF Add
  <2>2. \E k \in 1 .. Len(r) : r[k] = s
    BY <1>1
  <2> QED BY <2>1, <2>2
<1>2. CASE ~ \E k \in 1 .. n : r[k] = s
  <2> DEFINE t == Append(r, s)
  <2>1. Add(r, n, s) = t BY <1>2 DEF Add
  <2>2. /\ t \in Seq(Scope) /\ Len(t) = Len(r) + 1 /\ t[Len(r) + 1] = s
        /\ \A k \in 1 .. Len(r) : t[k] = r[k]
    OBVIOUS
  <2> HIDE DEF t
  <2>3. Len(r) \in Nat /\ Len(q) \in Nat OBVIOUS
  <2>4. \A k \in 1 .. Len(q) : t[k] = q[k]
    BY <2>2, <2>3
  <2>5. \A k \in Len(q) + 1 .. Len(t) : t[k] \in X \cup {s}
    BY <2>2, <2>3
  <2>6. ASSUME NEW x \in X \cup {s}
        PROVE  \E k \in 1 .. Len(t) : t[k] = x
    <3>1. CASE x = s
      <4>1. Len(t) \in 1 .. Len(t) /\ t[Len(t)] = x
        BY <2>2, <2>3, <3>1
      <4> QED BY <4>1
    <3>2. CASE x \in X
      BY <2>2, <2>3, <3>2
    <3> QED BY <3>1, <3>2
  <2>7. Len(q) <= Len(t) BY <2>2, <2>3
  <2> QED BY <2>1, <2>2, <2>4, <2>5, <2>6, <2>7
<1> QED BY <1>1, <1>2

\* The loop over shared_scopes, from its equations: after k turns the first k are added.
LEMMA LoopAdds ==
    ASSUME NEW q \in Seq(Scope), NEW n \in 0 .. Len(q), NEW shared \in Seq(Scope), NEW A,
           A[0] = q, \A k \in 1 .. Len(shared) : A[k] = Add(A[k - 1], n, shared[k])
    PROVE  Added(q, A[Len(shared)], Range(shared))
<1> DEFINE N == Len(shared)
           First(k) == {shared[j] : j \in 1 .. k}
           Right(k) == Added(q, A[k], First(k))
           S == {k \in 0 .. N : Right(k)}
<1>1. N \in Nat /\ \A k \in 1 .. N : shared[k] \in Scope
  OBVIOUS
<1>2. Right(0)
  <2>1. First(0) = {} OBVIOUS
  <2>2. Added(q, q, {}) BY DEF Added
  <2> HIDE DEF First
  <2> QED BY <2>1, <2>2
<1>3. ASSUME NEW k \in 0 .. N, Right(k), k < N PROVE Right(k + 1)
  <2>1. k + 1 \in 1 .. N /\ (k + 1) - 1 = k /\ k + 1 \in 0 .. N
    BY <1>1, <1>3
  <2>2. A[k + 1] = Add(A[k], n, shared[k + 1])
    BY <2>1
  <2>3. First(k + 1) = First(k) \cup {shared[k + 1]}
    <3>1. k \in Nat /\ 1 .. k + 1 = (1 .. k) \cup {k + 1} BY <1>1
    <3> QED BY <3>1
  <2>4. shared[k + 1] \in Scope
    BY <1>1, <2>1
  <2> DEFINE r == A[k]
             s == shared[k + 1]
             X == First(k)
  <2>5. Added(q, r, X) BY <1>3
  <2>6. Added(q, Add(r, n, s), X \cup {s})
    <3> HIDE DEF First, N, r, s, X
    <3> QED BY <2>4, <2>5, AddAdds DEF s
  <2> HIDE DEF First
  <2> QED BY <2>2, <2>3, <2>6
<1> HIDE DEF Right
<1>4. 0 \in S BY <1>1, <1>2
<1>5. \A k \in 0 .. N : k \in S /\ k < N => k + 1 \in S
  <2> HIDE DEF N
  <2> QED BY <1>1, <1>3
<1>6. N \in S
  <2>1. 0 .. N \subseteq S
    <3> HIDE DEF S, N
    <3> QED BY <1>1, <1>4, <1>5, CountUp
  <2> QED BY <1>1, <2>1
<1>7. Added(q, A[N], First(N)) BY <1>6 DEF Right
<1>8. First(N) = Range(shared)
  BY <1>1 DEF Range
<1> QED BY <1>7, <1>8

\* The loop over shared_scopes, as it is defined.
LEMMA AddSharedAdds ==
    ASSUME shared_scopes \in [Scope -> Seq(Scope)], NEW q \in Seq(Scope),
           NEW n \in 0 .. Len(q), NEW info \in Scope
    PROVE  Added(q, AddShared(q, n, info), Range(shared_scopes[info]))
<1> DEFINE shared == shared_scopes[info]
           N == Len(shared)
           Queues == Seq(Scope)
           Step(r, k) == Add(r, n, shared[k])
           G == [k \in 1 .. N |-> [r \in Queues |-> Step(r, k)]]
           Rec(g) == [k \in 0 .. N |-> IF k = 0 THEN q ELSE Step(g[k - 1], k)]
           A == CHOOSE g : g = Rec(g)
<1>1. N \in Nat /\ shared \in Seq(Scope) /\ \A k \in 1 .. N : shared[k] \in Scope
  OBVIOUS
<1>2. \A r \in Queues, k \in 1 .. N : Step(r, k) \in Queues
  BY <1>1 DEF Add
<1>3. PICK f : Iterates(f, N, Queues, q, G)
  <2>1. q \in Queues OBVIOUS
  <2>2. G \in [1 .. N -> [Queues -> Queues]]
    <3> HIDE DEF Queues, N, Step
    <3> QED BY <1>2
  <2> HIDE DEF G, N, Queues
  <2> QED BY <1>1, <2>1, <2>2, IteratesExist
<1>4. f = Rec(f)
  <2>1. ASSUME NEW k \in 1 .. N PROVE f[k] = Step(f[k - 1], k)
    <3>1. k - 1 \in 0 .. N BY <1>1
    <3>2. f[k - 1] \in Queues
      <4> HIDE DEF Queues, N, G
      <4> QED BY <3>1, <1>3 DEF Iterates
    <3>3. \A r \in Queues : G[k][r] = Step(r, k)
      <4> HIDE DEF Step, Queues, N
      <4> QED OBVIOUS
    <3> HIDE DEF Step, Queues, N, G
    <3> QED BY <1>3, <3>2, <3>3 DEF Iterates
  <2> HIDE DEF Step, G, Queues, N
  <2> QED BY <1>1, <1>3, <2>1 DEF Iterates
<1>5. A = Rec(A)
  <2> HIDE DEF Rec
  <2> QED BY <1>4
<1>6. AddShared(q, n, info) = A[N]
  BY Zenon DEF AddShared
<1> HIDE DEF A
<1>7. A[0] = q /\ \A k \in 1 .. N : A[k] = Step(A[k - 1], k)
  <2> HIDE DEF Step, N
  <2>1. ASSUME NEW k \in 0 .. N
        PROVE  A[k] = IF k = 0 THEN q ELSE Step(A[k - 1], k)
    BY <1>5
  <2> QED BY <1>1, <2>1
<1>8. Added(q, A[N], Range(shared))
  <2> HIDE DEF shared, A, Step
  <2> QED BY <1>1, <1>7, LoopAdds DEF Step
<1> QED BY <1>6, <1>8

\* The parent after them.
LEMMA QueueGrows ==
    ASSUME SearchAssumption, shared_scopes \in [Scope -> Seq(Scope)], NEW q \in Seq(Scope),
           NEW n \in 1 .. Len(q), NEW info \in Scope, q[n] = info
    PROVE  Added(q, AddParent(AddShared(q, n, info), n, info),
                 Near(shared_scopes, info))
<1> DEFINE r == AddShared(q, n, info)
           X == Range(shared_scopes[info])
<1>1. Added(q, r, X)
  BY AddSharedAdds
<1>2. Parent[info] \in Scope BY DEF SearchAssumption
<1> HIDE DEF r, X
<1>3. CASE Parent[info] = info
  <2>1. AddParent(r, n, info) = r BY <1>3 DEF AddParent
  <2>2. n \in 1 .. Len(r) /\ r[n] = info BY <1>1 DEF Added
  <2>3. Added(q, r, {info} \cup X) BY <1>1, <2>2 DEF Added
  <2> QED BY <1>3, <2>1, <2>3 DEF Near, r, X
<1>4. CASE Parent[info] # info
  <2>1. AddParent(r, n, info) = Add(r, n, Parent[info]) BY <1>4 DEF AddParent
  <2>2. Added(q, Add(r, n, Parent[info]), X \cup {Parent[info]})
    BY <1>1, <1>2, AddAdds
  <2>3. X \cup {Parent[info]} = {Parent[info]} \cup X OBVIOUS
  <2> QED BY <2>1, <2>2, <2>3 DEF Near, r, X
<1> QED BY <1>3, <1>4

-----------------------------------------------------------------------------
\* All variables have their types.
SearchTypes ==
    /\ shared_scopes \in [Scope -> Seq(Scope)] /\ declares \subseteq Scope
    /\ searchScopes \in Seq(Scope) /\ search_index \in 0 .. Len(searchScopes)
    /\ visiting \in Scope \cup {NotFound}
    /\ result = << >> \/ \E s \in Scope \cup {NotFound} : result = <<s>>
    /\ before \in [shared_scopes : [Scope -> Seq(Scope)], declares : SUBSET Scope]

\* Nothing is taken back of what was shared and declared when the search began.
OnlyGrows ==
    Covers(shared_scopes, before.shared_scopes) /\ before.declares \subseteq declares

\* The loop of iterate and its state.
AtScope ==
    /\ searchScopes = << >> => visiting = NotFound /\ result = << >>
    /\ visiting # NotFound =>
          search_index # 0 /\ visiting = searchScopes[search_index] /\ result = << >>

\* The places of the queue whose scopes have been expanded and tested.
Passed == {k \in 1 .. search_index : visiting = NotFound \/ k < search_index}

\* The place of the scope the loop is at.
Current == IF search_index = 0 THEN 1 ELSE search_index

\* The ranks are in the order of the queue and at most one above that of the current
\* scope; a scope is reached in as many steps as its rank; a scope that has been passed
\* did not declare the name at first, and its neighbours of that time are in the queue
\* with a rank at most one higher.
Ranked(rank) ==
    /\ rank[1] = 0
    /\ \A j, k \in DOMAIN searchScopes : j <= k => rank[j] <= rank[k]
    /\ \A k \in DOMAIN searchScopes : rank[k] <= rank[Current] + 1
    /\ \A k \in DOMAIN searchScopes : \A n \in 0 .. Cardinality(Scope) :
          rank[k] <= n => searchScopes[k] \in Within(shared_scopes, searchScopes[1])[n]
    /\ \A k \in Passed :
          /\ searchScopes[k] \notin before.declares
          /\ \A y \in Near(before.shared_scopes, searchScopes[k]) :
                \E j \in DOMAIN searchScopes :
                    searchScopes[j] = y /\ rank[j] <= rank[k] + 1

\* While the search goes on its queue has ranks.
HasRanks ==
    searchScopes # << >> /\ result = << >> =>
        \E rank \in [DOMAIN searchScopes -> Nat] : Ranked(rank)

\* The inductive invariant.
SearchInv == SearchTypes /\ OnlyGrows /\ AtScope /\ HasRanks /\ FindsNearest

\* A scope that was within n steps when the search began has a rank of at most n, if
\* the scopes of ranks below n have been passed.
LEMMA RanksReach ==
    ASSUME SearchAssumption, SearchTypes, searchScopes # << >>,
           NEW rank \in [DOMAIN searchScopes -> Nat], Ranked(rank),
           NEW B \in Nat, \A k \in DOMAIN searchScopes : rank[k] < B => k \in Passed,
           NEW n \in 0 .. Cardinality(Scope), n <= B,
           NEW y \in Within(before.shared_scopes, searchScopes[1])[n]
    PROVE  \E j \in DOMAIN searchScopes : searchScopes[j] = y /\ rank[j] <= n
<1> DEFINE N == Cardinality(Scope)
           old == before.shared_scopes
           q == searchScopes
           places == DOMAIN searchScopes
           s == searchScopes[1]
           W == Within(old, s)
           Placed(x, m) == \E j \in places : q[j] = x /\ rank[j] <= m
           Right(m) == m <= B => \A x \in W[m] : Placed(x, m)
           S == {m \in 0 .. N : Right(m)}
<1>1. /\ old \in [Scope -> Seq(Scope)] /\ s \in Scope
      /\ 1 \in places /\ rank[1] = 0 /\ \A j \in places : rank[j] \in Nat
  BY DEF SearchTypes, Ranked
<1>2. /\ N \in Nat /\ W \in [0 .. N -> SUBSET Scope] /\ W[0] = {s}
      /\ \A k \in 1 .. N : W[k] = W[k - 1] \cup UNION {Near(old, x) : x \in W[k - 1]}
  <2> HIDE DEF old, s
  <2> QED BY <1>1, WithinUnfolds
<1>3. ASSUME NEW k \in places, rank[k] < B, NEW x \in Near(old, q[k])
      PROVE  \E j \in places : q[j] = x /\ rank[j] <= rank[k] + 1
  BY <1>3 DEF Ranked
<1> HIDE DEF old, q, places, s, W
<1>4. Right(0)
  BY <1>1, <1>2 DEF q, s
<1>5. ASSUME NEW m \in 0 .. N, Right(m), m < N PROVE Right(m + 1)
  <2> HAVE m + 1 <= B
  <2> TAKE x \in W[m + 1]
  <2>1. m \in Nat /\ m <= B /\ m + 1 \in 1 .. N /\ (m + 1) - 1 = m
    BY <1>2, <1>5
  <2>2. W[m + 1] = W[m] \cup UNION {Near(old, z) : z \in W[m]}
    BY <1>2, <2>1
  <2>3. CASE x \in W[m]
    <3>1. PICK j \in places : q[j] = x /\ rank[j] <= m BY <1>5, <2>1, <2>3
    <3>2. rank[j] <= m + 1 BY <1>1, <2>1, <3>1
    <3> QED BY <3>1, <3>2
  <2>4. ASSUME NEW z \in W[m], x \in Near(old, z) PROVE Placed(x, m + 1)
    <3>1. PICK k \in places : q[k] = z /\ rank[k] <= m BY <1>5, <2>1
    <3>2. rank[k] < B BY <1>1, <2>1, <3>1
    <3>3. PICK j \in places : q[j] = x /\ rank[j] <= rank[k] + 1
      BY <1>3, <2>4, <3>1, <3>2
    <3>4. rank[j] <= m + 1 BY <1>1, <2>1, <3>1, <3>3
    <3> QED BY <3>3, <3>4
  <2> QED BY <2>2, <2>3, <2>4
<1>6. 0 .. N \subseteq S
  <2> HIDE DEF Right
  <2>1. 0 \in S BY <1>2, <1>4
  <2>2. \A m \in 0 .. N : m \in S /\ m < N => m + 1 \in S
    <3> HIDE DEF N
    <3> QED BY <1>2, <1>5
  <2> HIDE DEF S, N
  <2> QED BY <1>2, <2>1, <2>2, CountUp
<1>7. Right(n) BY <1>6
<1>8. Placed(y, n) BY <1>7 DEF W, old, s
<1> QED BY <1>8 DEF q, places

\* None of them declared the name when the search began, except at the ranks that the
\* search has not passed.
LEMMA NoneNearer ==
    ASSUME SearchAssumption, SearchTypes, searchScopes # << >>,
           NEW rank \in [DOMAIN searchScopes -> Nat], Ranked(rank),
           NEW B \in Nat, \A k \in DOMAIN searchScopes : rank[k] < B => k \in Passed,
           NEW n \in 0 .. Cardinality(Scope), n < B
    PROVE  Within(before.shared_scopes, searchScopes[1])[n] \cap before.declares = {}
<1> SUFFICES ASSUME NEW y \in Within(before.shared_scopes, searchScopes[1])[n],
                    y \in before.declares
             PROVE  FALSE
  OBVIOUS
<1>1. n <= B OBVIOUS
<1>2. PICK j \in DOMAIN searchScopes : searchScopes[j] = y /\ rank[j] <= n
  <2> USE <1>1
  <2> QED BY RanksReach
<1>3. rank[j] < B
  <2>1. rank[j] \in Nat /\ n \in Nat OBVIOUS
  <2> QED BY <1>2, <2>1
<1>4. j \in Passed BY <1>3
<1> QED BY <1>2, <1>4 DEF Ranked

-----------------------------------------------------------------------------
\* Before the search: nothing in the queue, and nothing to compare with.
LEMMA InitSearch ==
    ASSUME SearchAssumption, Init
    PROVE  SearchInv
<1> USE DEF Init
<1>1. SearchTypes
  BY DEF SearchTypes
<1>2. OnlyGrows BY DEF OnlyGrows, Covers
<1>3. AtScope /\ HasRanks /\ FindsNearest BY DEF AtScope, HasRanks, FindsNearest
<1> QED BY <1>1, <1>2, <1>3 DEF SearchInv

\* Another thread lets an import share a scope: one gets further, and nowhere less far.
LEMMA ShareKeeps ==
    ASSUME SearchAssumption, SearchInv, NEW a \in Import, NEW b \in Import, Share(a, b)
    PROVE  SearchInv'
<1> DEFINE old == shared_scopes
           new == shared_scopes'
<1>1. a \in Scope /\ b \in Scope BY DEF SearchAssumption
<1>2. /\ UNCHANGED <<declares, searchScopes, search_index, visiting, result, before>>
      /\ new = [old EXCEPT ![a] = Append(@, b)]
  BY DEF Share, searchVars
<1>3. old \in [Scope -> Seq(Scope)] BY DEF SearchInv, SearchTypes
<1>4. new \in [Scope -> Seq(Scope)] BY <1>1, <1>2, <1>3
<1>5. ASSUME NEW x \in Scope PROVE Range(old[x]) \subseteq Range(new[x])
  <2>1. CASE x = a
    <3> DEFINE p == old[a]
               r == new[a]
    <3>1. r = Append(p, b) /\ p \in Seq(Scope) BY <1>1, <1>2, <1>3
    <3>2. \A k \in DOMAIN p : k \in DOMAIN r /\ r[k] = p[k]
      <4> HIDE DEF p, r
      <4> QED BY <1>1, <3>1
    <3> QED BY <2>1, <3>2 DEF Range
  <2>2. CASE x # a BY <1>2, <1>3, <2>2
  <2> QED BY <2>1, <2>2
<1>6. Covers(new, old) BY <1>5 DEF Covers
<1>7. SearchTypes' BY <1>2, <1>4 DEF SearchInv, SearchTypes
<1>8. OnlyGrows'
  <2>1. Covers(old, before.shared_scopes) BY DEF SearchInv, OnlyGrows
  <2>2. Covers(new, before.shared_scopes) BY <1>6, <2>1 DEF Covers
  <2> QED BY <1>2, <2>2 DEF SearchInv, OnlyGrows
<1>9. AtScope' BY <1>2 DEF SearchInv, AtScope
<1>10. ASSUME searchScopes # << >>, NEW n \in 0 .. Cardinality(Scope)
       PROVE  Within(old, searchScopes[1])[n] \subseteq Within(new, searchScopes[1])[n]
  <2>1. searchScopes[1] \in Scope BY <1>10 DEF SearchInv, SearchTypes
  <2> HIDE DEF old, new
  <2> QED BY <1>3, <1>4, <1>6, <2>1, WithinGrows
<1> HIDE DEF old, new
<1>11. HasRanks'
  <2> SUFFICES ASSUME searchScopes # << >>, result = << >>
               PROVE  \E rank \in [DOMAIN searchScopes -> Nat] : Ranked(rank)'
    BY <1>2 DEF HasRanks
  <2>1. PICK rank \in [DOMAIN searchScopes -> Nat] : Ranked(rank)
    BY DEF SearchInv, HasRanks
  <2>2. Passed' = Passed /\ Current' = Current BY <1>2 DEF Passed, Current
  <2>3. Ranked(rank)' BY <1>2, <1>10, <2>1, <2>2 DEF Ranked, old, new
  <2> QED BY <2>3
<1>12. FindsNearest'
  <2> SUFFICES ASSUME result # << >> PROVE FindsNearest'
    BY <1>2 DEF FindsNearest
  <2>1. searchScopes # << >> BY DEF SearchInv, AtScope
  <2> QED BY <1>2, <1>10, <2>1 DEF SearchInv, FindsNearest, Found, old, new
<1> QED BY <1>7, <1>8, <1>9, <1>11, <1>12 DEF SearchInv

\* Another thread declares the name somewhere: what was declared at first is the same.
LEMMA DeclareKeeps ==
    ASSUME SearchInv, NEW s \in Scope, Declare(s)
    PROVE  SearchInv'
<1>1. /\ searchScopes # << >> /\ result = << >> /\ declares' = declares \cup {s}
      /\ UNCHANGED <<shared_scopes, searchScopes, search_index, visiting, result, before>>
  BY DEF Declare, Searching, searchVars
<1>2. SearchTypes' BY <1>1 DEF SearchInv, SearchTypes
<1>3. OnlyGrows' /\ AtScope' BY <1>1 DEF SearchInv, OnlyGrows, AtScope
<1>4. HasRanks'
  <2>1. PICK rank \in [DOMAIN searchScopes -> Nat] : Ranked(rank)
    BY <1>1 DEF SearchInv, HasRanks
  <2>2. Passed' = Passed /\ Current' = Current BY <1>1 DEF Passed, Current
  <2>3. Ranked(rank)' BY <1>1, <2>1, <2>2 DEF Ranked
  <2> QED BY <1>1, <2>3 DEF HasRanks
<1>5. FindsNearest' BY <1>1 DEF FindsNearest
<1> QED BY <1>2, <1>3, <1>4, <1>5 DEF SearchInv

\* createScopeIterator: the one scope in the queue has rank 0.
LEMMA BeginKeeps ==
    ASSUME SearchAssumption, SearchInv, NEW s \in Start, Begin(s)
    PROVE  SearchInv'
<1>1. s \in Scope BY DEF SearchAssumption
<1>2. /\ searchScopes = << >> /\ searchScopes' = <<s>>
      /\ before' = [shared_scopes |-> shared_scopes, declares |-> declares]
      /\ UNCHANGED <<shared_scopes, declares, search_index, visiting, result>>
  BY DEF Begin
<1>3. visiting = NotFound /\ result = << >> BY <1>2 DEF SearchInv, AtScope
<1>4. search_index = 0 BY <1>2 DEF SearchInv, SearchTypes
<1>5. SearchTypes' BY <1>1, <1>2, <1>4 DEF SearchInv, SearchTypes
<1>6. OnlyGrows' BY <1>2 DEF OnlyGrows, Covers
<1>7. AtScope' BY <1>2, <1>3 DEF AtScope
<1>8. HasRanks'
  <2> DEFINE rank == [k \in 1 .. 1 |-> 0]
  <2>1. rank \in [DOMAIN searchScopes' -> Nat] BY <1>2
  <2>2. Passed' = {} /\ Current' = 1 BY <1>2, <1>4 DEF Passed, Current
  <2>3. shared_scopes' \in [Scope -> Seq(Scope)] BY <1>5 DEF SearchTypes
  <2>4. \A n \in 0 .. Cardinality(Scope) : s \in Within(shared_scopes', s)[n]
    BY <1>1, <2>3, WithinSelf
  <2>5. DOMAIN searchScopes' = {1} /\ searchScopes'[1] = s /\ rank[1] = 0 BY <1>2
  <2>6. Ranked(rank)'
    <3> HIDE DEF rank
    <3> QED BY <2>2, <2>4, <2>5 DEF Ranked
  <2> HIDE DEF rank
  <2> QED BY <2>1, <2>6 DEF HasRanks
<1>9. FindsNearest' BY <1>2, <1>3 DEF FindsNearest
<1> QED BY <1>5, <1>6, <1>7, <1>8, <1>9 DEF SearchInv

\* The next scope becomes the current one; its rank is not below that of the last.
LEMMA VisitKeeps ==
    ASSUME SearchAssumption, SearchInv, Visit
    PROVE  SearchInv'
<1>1. /\ searchScopes # << >> /\ result = << >> /\ visiting = NotFound
      /\ search_index < Len(searchScopes) /\ search_index' = search_index + 1
      /\ visiting' = searchScopes[search_index + 1]
      /\ UNCHANGED <<shared_scopes, declares, searchScopes, result, before>>
  BY DEF Visit, Searching
<1>2. searchScopes \in Seq(Scope) /\ search_index \in 0 .. Len(searchScopes)
  BY DEF SearchInv, SearchTypes
<1>3. search_index + 1 \in DOMAIN searchScopes BY <1>1, <1>2
<1>4. SearchTypes' BY <1>1, <1>2, <1>3 DEF SearchInv, SearchTypes
<1>5. OnlyGrows' BY <1>1 DEF SearchInv, OnlyGrows
<1>6. AtScope' BY <1>1, <1>2 DEF AtScope
<1>7. HasRanks'
  <2>1. PICK rank \in [DOMAIN searchScopes -> Nat] : Ranked(rank)
    BY <1>1 DEF SearchInv, HasRanks
  <2>2. Passed' \subseteq Passed
    <3>1. visiting' # NotFound BY <1>1, <1>2, <1>3 DEF SearchAssumption
    <3> QED BY <1>1, <1>2, <3>1 DEF Passed
  <2>3. Current' = search_index + 1 BY <1>1, <1>2 DEF Current
  <2>4. Current \in DOMAIN searchScopes /\ Current <= search_index + 1
    BY <1>1, <1>2, <1>3 DEF Current
  <2>5. rank[Current] <= rank[Current'] BY <1>3, <2>1, <2>3, <2>4 DEF Ranked
  <2>6. \A k \in DOMAIN searchScopes : rank[k] \in Nat BY <2>1
  <2>7. \A k \in DOMAIN searchScopes : rank[k] <= rank[Current'] + 1
    <3>1. \A k \in DOMAIN searchScopes : rank[k] <= rank[Current] + 1 BY <2>1 DEF Ranked
    <3>2. rank[Current] \in Nat /\ rank[Current'] \in Nat BY <1>3, <2>3, <2>4, <2>6
    <3> QED BY <2>5, <2>6, <3>1, <3>2
  <2>8. Ranked(rank)' BY <1>1, <2>1, <2>2, <2>7 DEF Ranked
  <2> QED BY <1>1, <2>8 DEF HasRanks
<1>8. FindsNearest' BY <1>1 DEF FindsNearest
<1> QED BY <1>4, <1>5, <1>6, <1>7, <1>8 DEF SearchInv

\* The queue is at its end: everything that was in reach has been passed.
LEMMA GiveUpKeeps ==
    ASSUME SearchAssumption, SearchInv, GiveUp
    PROVE  SearchInv'
<1>1. /\ searchScopes # << >> /\ result = << >> /\ visiting = NotFound
      /\ search_index = Len(searchScopes) /\ result' = <<NotFound>>
      /\ UNCHANGED <<shared_scopes, declares, searchScopes, search_index, visiting, before>>
  BY DEF GiveUp, Searching
<1>2. SearchTypes' BY <1>1 DEF SearchInv, SearchTypes
<1>3. OnlyGrows' BY <1>1 DEF SearchInv, OnlyGrows
<1>4. AtScope' BY <1>1 DEF AtScope
<1>5. HasRanks' BY <1>1 DEF HasRanks
<1>6. FindsNearest'
  <2>1. PICK rank \in [DOMAIN searchScopes -> Nat] : Ranked(rank)
    BY <1>1 DEF SearchInv, HasRanks
  <2>2. DOMAIN searchScopes \subseteq Passed
    BY <1>1 DEF SearchInv, SearchTypes, Passed
  <2>3. SearchTypes BY DEF SearchInv
  <2>4. ASSUME NEW n \in 0 .. Cardinality(Scope)
        PROVE  Within(before.shared_scopes, searchScopes[1])[n] \cap before.declares = {}
    <3> DEFINE B == n + 1
    <3>1. B \in Nat /\ n < B OBVIOUS
    <3>2. \A k \in DOMAIN searchScopes : rank[k] < B => k \in Passed BY <2>2
    <3> HIDE DEF B
    <3> QED BY <1>1, <2>1, <2>3, <3>1, <3>2, NoneNearer
  <2>5. ~Found' BY <1>1 DEF Found
  <2> QED BY <1>1, <2>4, <2>5 DEF FindsNearest
<1> QED BY <1>2, <1>3, <1>4, <1>5, <1>6 DEF SearchInv

\* The scope is expanded, and what it adds has the next rank; or it declares the name, and
\* every scope of a lower rank has been passed.
LEMMA ExpandKeeps ==
    ASSUME SearchAssumption, SearchInv, Expand
    PROVE  SearchInv'
<1> DEFINE q == searchScopes
           i == search_index
           info == visiting
           r == searchScopes'
           old == before.shared_scopes
<1>1. /\ q # << >> /\ result = << >> /\ visiting # NotFound
      /\ r = AddParent(AddShared(q, i, info), i, info)
      /\ result' = IF info \in declares THEN <<info>> ELSE << >>
      /\ visiting' = NotFound
      /\ UNCHANGED <<shared_scopes, declares, search_index, before>>
  BY DEF Expand, Searching
<1>2. /\ q \in Seq(Scope) /\ i \in 1 .. Len(q) /\ info = q[i] /\ info \in Scope
      /\ shared_scopes \in [Scope -> Seq(Scope)]
  BY <1>1 DEF SearchInv, SearchTypes, AtScope
<1>3. Added(q, r, Near(shared_scopes, info))
  BY <1>1, <1>2, QueueGrows
<1>4. /\ r \in Seq(Scope) /\ Len(q) \in Nat /\ Len(r) \in Nat /\ Len(q) <= Len(r)
      /\ DOMAIN q = 1 .. Len(q) /\ DOMAIN r = 1 .. Len(r)
      /\ \A k \in 1 .. Len(q) : r[k] = q[k]
  BY <1>2, <1>3 DEF Added
<1>5. r[1] = q[1] /\ r[i] = info /\ r # << >> /\ i \in DOMAIN r
  BY <1>2, <1>4
<1>6. PICK rank \in [DOMAIN q -> Nat] : Ranked(rank)
  BY <1>1 DEF SearchInv, HasRanks
<1>7. /\ Passed = {k \in 1 .. i : k < i} /\ Current = i
      /\ Passed' = 1 .. i /\ Current' = i
  BY <1>1, <1>2 DEF Passed, Current
<1>8. /\ rank[1] = 0 /\ \A k \in 1 .. Len(q) : rank[k] \in Nat /\ rank[k] <= rank[i] + 1
      /\ \A j, k \in 1 .. Len(q) : j <= k => rank[j] <= rank[k]
  BY <1>4, <1>6, <1>7 DEF Ranked
<1>9. rank[i] \in Nat /\ i \in Nat BY <1>2, <1>8
<1>10. SearchTypes'
  BY <1>1, <1>2, <1>4 DEF SearchInv, SearchTypes
<1>11. OnlyGrows' BY <1>1 DEF SearchInv, OnlyGrows
<1>12. AtScope' BY <1>1, <1>5 DEF AtScope
<1>13. FindsNearest'
  <2> SUFFICES ASSUME info \in declares, result' = <<info>>,
                      NEW n \in 0 .. Cardinality(Scope),
                      Within(old, q[1])[n] \cap before.declares # {}
               PROVE  info \in Within(shared_scopes, q[1])[n]
    <3>1. \/ result'[1] = info /\ Found' /\ info \in declares'
          \/ result' = << >>
      BY <1>1, <1>2 DEF SearchAssumption, Found
    <3> QED BY <1>1, <1>5, <3>1 DEF FindsNearest
  <2>1. \A k \in DOMAIN q : rank[k] < rank[i] => k \in Passed
    BY <1>2, <1>4, <1>7, <1>8
  <2>2. SearchTypes BY DEF SearchInv
  <2>3. ~(n < rank[i])
    <3> SUFFICES ASSUME n < rank[i] PROVE FALSE
      OBVIOUS
    <3> DEFINE B == rank[i]
    <3>1. B \in Nat /\ n < B /\ \A k \in DOMAIN q : rank[k] < B => k \in Passed
      BY <1>9, <2>1
    <3> HIDE DEF B
    <3> QED BY <1>1, <1>6, <2>2, <3>1, NoneNearer
  <2>4. rank[i] <= n
    BY <1>9, <2>3
  <2>5. searchScopes[i] \in Within(shared_scopes, searchScopes[1])[n]
    BY <1>2, <1>4, <1>6, <2>4 DEF Ranked
  <2> QED BY <1>2, <2>5
<1>14. HasRanks'
  <2> SUFFICES ASSUME result' = << >>
               PROVE  \E d \in [DOMAIN r -> Nat] : Ranked(d)'
    BY DEF HasRanks
  <2>1. PICK d : d = [k \in DOMAIN r |-> IF k <= Len(q) THEN rank[k] ELSE rank[i] + 1]
    OBVIOUS
  <2>2. \A k \in 1 .. Len(q) : k \in DOMAIN r /\ d[k] = rank[k]
    BY <1>4, <2>1
  <2>3. \A k \in DOMAIN r : k \notin 1 .. Len(q) =>
            d[k] = rank[i] + 1 /\ k \in Len(q) + 1 .. Len(r)
    BY <1>4, <2>1
  <2>4. d \in [DOMAIN r -> Nat]
    BY <1>4, <1>8, <1>9, <2>1
  <2>5. d[1] = 0
    <3>1. 1 \in 1 .. Len(q) BY <1>2, <1>4
    <3> QED BY <1>8, <2>2, <3>1
  <2>6. \A j, k \in DOMAIN r : j <= k => d[j] <= d[k]
    <3> TAKE j, k \in DOMAIN r
    <3> HAVE j <= k
    <3>1. CASE k \in 1 .. Len(q)
      <4>1. j \in 1 .. Len(q) BY <1>4, <3>1
      <4> QED BY <1>8, <2>2, <3>1, <4>1
    <3>2. CASE k \notin 1 .. Len(q) /\ j \in 1 .. Len(q)
      BY <1>8, <2>2, <2>3, <3>2
    <3>3. CASE k \notin 1 .. Len(q) /\ j \notin 1 .. Len(q)
      BY <1>9, <2>3, <3>3
    <3> QED BY <3>1, <3>2, <3>3
  <2>7. d[i] = rank[i] BY <1>2, <2>2
  <2>8. \A k \in DOMAIN r : d[k] <= d[i] + 1
    <3> TAKE k \in DOMAIN r
    <3>1. CASE k \in 1 .. Len(q) BY <1>8, <2>2, <2>7, <3>1
    <3>2. CASE k \notin 1 .. Len(q) BY <1>9, <2>3, <2>7, <3>2
    <3> QED BY <3>1, <3>2
  <2>9. ASSUME NEW k \in DOMAIN r, NEW n \in 0 .. Cardinality(Scope), d[k] <= n
        PROVE  r[k] \in Within(shared_scopes, q[1])[n]
    <3>1. CASE k \in 1 .. Len(q)
      <4>1. rank[k] <= n /\ r[k] = q[k] BY <1>4, <2>2, <2>9, <3>1
      <4> QED BY <1>4, <1>6, <3>1, <4>1 DEF Ranked
    <3>2. CASE k \notin 1 .. Len(q)
      <4>1. rank[i] + 1 <= n /\ r[k] \in Near(shared_scopes, info)
        BY <1>3, <2>3, <2>9, <3>2 DEF Added
      <4>2. q[1] \in Scope BY <1>2
      <4>3. Cardinality(Scope) \in Nat BY <1>2, <4>2, WithinUnfolds
      <4> DEFINE m == n - 1
      <4>4. /\ m \in Nat /\ m \in 0 .. Cardinality(Scope) /\ rank[i] <= m
            /\ m + 1 = n /\ m + 1 <= Cardinality(Scope)
        BY <1>9, <4>1, <4>3
      <4> HIDE DEF m
      <4>5. info \in Within(shared_scopes, q[1])[m]
        BY <1>2, <1>4, <1>6, <4>4 DEF Ranked
      <4>6. Near(shared_scopes, info) \subseteq Within(shared_scopes, q[1])[m + 1]
        BY <1>2, <4>2, <4>4, <4>5, WithinNext
      <4> QED BY <4>1, <4>4, <4>6
    <3> QED BY <3>1, <3>2
  <2>10. ASSUME NEW k \in 1 .. i
        PROVE  /\ r[k] \notin before.declares
               /\ \A y \in Near(old, r[k]) :
                     \E j \in DOMAIN r : r[j] = y /\ d[j] <= d[k] + 1
    <3>1. k \in 1 .. Len(q) /\ r[k] = q[k] /\ d[k] = rank[k]
      BY <1>2, <1>4, <2>2
    <3>2. CASE k < i
      <4>1. k \in Passed BY <1>7, <3>2
      <4>2. q[k] \notin before.declares BY <1>6, <4>1 DEF Ranked
      <4>3. ASSUME NEW y \in Near(old, q[k])
            PROVE  \E j \in DOMAIN r : r[j] = y /\ d[j] <= d[k] + 1
        <5>1. PICK j \in DOMAIN q : q[j] = y /\ rank[j] <= rank[k] + 1
          BY <1>6, <4>1 DEF Ranked
        <5>2. j \in DOMAIN r /\ r[j] = y /\ d[j] = rank[j] BY <1>4, <2>2, <5>1
        <5> QED BY <3>1, <5>1, <5>2
      <4> QED BY <3>1, <4>2, <4>3
    <3>3. CASE k = i
      <4>1. info \notin declares BY <1>1
      <4>2. info \notin before.declares BY <4>1 DEF SearchInv, OnlyGrows
      <4>3. Near(old, info) \subseteq Near(shared_scopes, info)
        BY <1>2 DEF SearchInv, OnlyGrows, Covers, Near
      <4>4. ASSUME NEW y \in Near(old, info)
            PROVE  \E j \in DOMAIN r : r[j] = y /\ d[j] <= d[i] + 1
        <5>1. PICK j \in 1 .. Len(r) : r[j] = y
          BY <1>3, <4>3 DEF Added
        <5> QED BY <1>4, <2>8, <5>1
      <4> QED BY <1>5, <3>3, <4>2, <4>4
    <3>4. k < i \/ k = i BY <1>9
    <3> QED BY <3>2, <3>3, <3>4
  <2>11. Ranked(d)'
    BY <1>1, <1>5, <1>7, <2>5, <2>6, <2>8, <2>9, <2>10 DEF Ranked
  <2> QED BY <2>4, <2>11
<1> QED BY <1>10, <1>11, <1>12, <1>13, <1>14 DEF SearchInv

\* A search finds a nearest scope that declares the name, for any scopes and parents and
\* any number of others that share and declare meanwhile: iterate and findType, findVariable
\* and findFunction of AST.cpp.
THEOREM SearchFindsNearest == Spec => []FindsNearest
<1>1. Init => SearchInv
  BY SearchAssumption, InitSearch
<1>2. SearchInv /\ [Next]_vars => SearchInv'
  <2> SUFFICES ASSUME SearchInv, [Next]_vars PROVE SearchInv'
    OBVIOUS
  <2> USE SearchAssumption
  <2>1. CASE Visit BY <2>1, VisitKeeps
  <2>2. CASE Expand BY <2>2, ExpandKeeps
  <2>3. CASE GiveUp BY <2>3, GiveUpKeeps
  <2>4. ASSUME NEW s \in Start, Begin(s) PROVE SearchInv'
    BY <2>4, BeginKeeps
  <2>5. ASSUME NEW a \in Import, NEW b \in Import, Share(a, b) PROVE SearchInv'
    BY <2>5, ShareKeeps
  <2>6. ASSUME NEW s \in Scope, Declare(s) PROVE SearchInv'
    BY <2>6, DeclareKeeps
  <2>7. CASE UNCHANGED vars
    <3>1. UNCHANGED <<shared_scopes, declares, searchScopes, search_index, visiting, result,
                      before>>
      BY <2>7 DEF vars, searchVars
    <3>2. Passed' = Passed /\ Current' = Current BY <3>1 DEF Passed, Current
    <3>3. SearchTypes' /\ OnlyGrows' /\ AtScope'
      BY <3>1 DEF SearchInv, SearchTypes, OnlyGrows, AtScope
    <3>4. HasRanks' BY <3>1, <3>2 DEF SearchInv, HasRanks, Ranked
    <3>5. FindsNearest' BY <3>1 DEF SearchInv, FindsNearest, Found
    <3> QED BY <3>3, <3>4, <3>5 DEF SearchInv
  <2> QED BY <2>1, <2>2, <2>3, <2>4, <2>5, <2>6, <2>7 DEF Next, Search, Others
<1>3. SearchInv => FindsNearest BY DEF SearchInv
<1> QED BY <1>1, <1>2, <1>3, PTL DEF Spec
=============================================================================
