------------------------- MODULE ProviderSlotsProofs -------------------------
(***************************************************************************)
(* Proofs about ProviderSlots, for any threads, slots and providers.       *)
(*                                                                         *)
(* InstalledInOrder is about the newest store that a thread knows of in    *)
(* each slot.  It is not inductive: a thread that reads a slot learns what *)
(* the store there carries, and moves on in all slots at once.  What is    *)
(* inductive is that every view is closed, those of the threads and those  *)
(* that were ever stored: with a store it has all that its writer knew.    *)
(* Closed views join to closed views.  What an exchange replaced stays     *)
(* known to its thread, because views only grow.                           *)
(***************************************************************************)
EXTENDS ProviderSlots, SequenceTheorems, FiniteSetTheorems, TLAPS

\* w has everything that v has.
Below(v, w) ==
  /\ v.built \subseteq w.built
  /\ \A s \in Slots : v.oldest[s] <= w.oldest[s]

\* Where the slots hold the stores f, a view with a store has what its writer
\* knew, and the provider that it installed.
Closed(f, v) ==
  \A s \in Slots :
    /\ v.oldest[s] \in 1..Len(f[s])
    /\ Below(f[s][v.oldest[s]].known, v)
    /\ f[s][v.oldest[s]].value \in Providers =>
         f[s][v.oldest[s]].value \in v.built

Values == Providers \cup {Fallback, Null}
Stores == [value : Values, carried : Views, known : Views]

\* The types, with what keeps the bound on the stores: they are finitely many.
SlotsTyped ==
  /\ stores \in [Slots -> Seq(Stores)]
  /\ \A s \in Slots : stores[s] # <<>>
  /\ \A s \in Slots \ Nullable : \A i \in 1..Last(s) : stores[s][i].value # Null
  /\ view \in [Threads -> Views]
  /\ previous \in [Threads -> Stores]
  /\ IsFiniteSet(Stored)
  /\ \A s \in Slots : Last(s) <= MaxStores + 1

\* Every store carries what its writer knew, which is closed.
StoresClosed ==
  \A s \in Slots : \A i \in 1..Last(s) :
    /\ stores[s][i].carried = stores[s][i].known
    /\ Closed(stores, stores[s][i].known)
    /\ stores[s][i].value \in Providers =>
         stores[s][i].value \in stores[s][i].known.built

ViewsClosed == \A t \in Threads : Closed(stores, view[t])

CoreInv == SlotsTyped /\ StoresClosed /\ ViewsClosed

\* Whoever replaced a store has what its writer knew, and its provider.
Replaced(t) ==
  /\ Below(previous[t].known, view[t])
  /\ previous[t].value \in Providers => previous[t].value \in view[t].built

SlotsInv == CoreInv /\ \A t \in Threads : Replaced(t)

\* Nobody forgets anything in a step.
Grows == \A t \in Threads : Below(view[t], view'[t])

-----------------------------------------------------------------------------
(* Views.                                                                  *)

LEMMA KnowsType ==
  ASSUME NEW s \in Slots, NEW i \in 1..MaxStores + 1
  PROVE  /\ Knows(s, i) \in Views /\ Nothing \in Views
         /\ Knows(s, i).built = {}
         /\ Knows(s, i).oldest[s] = i
         /\ \A x \in Slots \ {s} : Knows(s, i).oldest[x] = 1
BY SlotsAssumption DEF Knows, Nothing, Views

LEMMA JoinType ==
  ASSUME NEW v \in Views, NEW w \in Views
  PROVE  /\ Join(v, w) \in Views
         /\ Join(v, w).built = v.built \cup w.built
         /\ \A s \in Slots :
              Join(v, w).oldest[s] = IF v.oldest[s] > w.oldest[s]
                                     THEN v.oldest[s] ELSE w.oldest[s]
<1>1. \A s \in Slots : v.oldest[s] \in 1..MaxStores + 1
                      /\ w.oldest[s] \in 1..MaxStores + 1
  BY DEF Views
<1>2. v.built \cup w.built \in SUBSET Providers
  BY DEF Views
<1> QED BY <1>1, <1>2 DEF Join, Views

\* Join() is the least upper bound of two views.
LEMMA JoinBounds ==
  ASSUME NEW v \in Views, NEW w \in Views
  PROVE  /\ Below(v, Join(v, w)) /\ Below(w, Join(v, w))
         /\ \A x \in Views : Below(v, x) /\ Below(w, x) => Below(Join(v, w), x)
<1>1. \A x \in Views, s \in Slots : x.oldest[s] \in Nat
  BY SlotsAssumption DEF Views
<1> QED BY <1>1, JoinType DEF Below

LEMMA BelowTransitive ==
  ASSUME NEW u \in Views, NEW v \in Views, NEW w \in Views,
         Below(u, v), Below(v, w)
  PROVE  Below(u, w)
<1>1. \A x \in Views, s \in Slots : x.oldest[s] \in Nat
  BY SlotsAssumption DEF Views
<1> QED BY <1>1 DEF Below

LEMMA BelowReflexive == ASSUME NEW v \in Views PROVE Below(v, v)
BY SlotsAssumption DEF Below, Views

\* Learning nothing new is being above.
LEMMA JoinAbsorbs ==
  ASSUME NEW v \in Views, NEW w \in Views, Below(w, v)
  PROVE  Join(v, w) = v
<1>1. \A s \in Slots : v.oldest[s] \in Nat /\ w.oldest[s] \in Nat
  BY SlotsAssumption DEF Views
<1>2. v = [built |-> v.built, oldest |-> [s \in Slots |-> v.oldest[s]]]
  BY DEF Views
<1>3. v.built \cup w.built = v.built
  BY DEF Below
<1>4. \A s \in Slots :
        (IF v.oldest[s] > w.oldest[s] THEN v.oldest[s] ELSE w.oldest[s])
                         = v.oldest[s]
  BY <1>1 DEF Below
<1> QED BY <1>2, <1>3, <1>4 DEF Join

-----------------------------------------------------------------------------
(* Closed views.                                                           *)

\* Stores as the type invariant has them.
Histories == [Slots -> Seq(Stores)]

LEMMA StoreType ==
  ASSUME NEW f \in Histories, NEW s \in Slots, NEW i \in 1..Len(f[s])
  PROVE  f[s][i] \in Stores
         /\ f[s][i].known \in Views /\ f[s][i].carried \in Views
<1>1. f[s] \in Seq(Stores)
  BY DEF Histories
<1>2. f[s][i] \in Stores
  BY <1>1, ElementOfSeq
<1> QED BY <1>2 DEF Stores

LEMMA ClosedJoin ==
  ASSUME NEW f \in Histories, NEW v \in Views, NEW w \in Views,
         Closed(f, v), Closed(f, w)
  PROVE  Closed(f, Join(v, w))
<1> DEFINE u == Join(v, w)
<1>1. u \in Views /\ u.built = v.built \cup w.built
  BY JoinType
<1>2. Below(v, u) /\ Below(w, u)
  BY JoinBounds
<1> SUFFICES ASSUME NEW s \in Slots
             PROVE  /\ u.oldest[s] \in 1..Len(f[s])
                    /\ Below(f[s][u.oldest[s]].known, u)
                    /\ f[s][u.oldest[s]].value \in Providers =>
                         f[s][u.oldest[s]].value \in u.built
  BY DEF Closed
<1>3. u.oldest[s] \in {v.oldest[s], w.oldest[s]}
  BY JoinType
<1> HIDE DEF u
<1>4. ASSUME NEW x \in Views, Closed(f, x), Below(x, u),
             u.oldest[s] = x.oldest[s]
      PROVE  /\ u.oldest[s] \in 1..Len(f[s])
             /\ Below(f[s][u.oldest[s]].known, u)
             /\ f[s][u.oldest[s]].value \in Providers =>
                  f[s][u.oldest[s]].value \in u.built
  <2>1. /\ x.oldest[s] \in 1..Len(f[s])
        /\ Below(f[s][x.oldest[s]].known, x)
        /\ f[s][x.oldest[s]].value \in Providers =>
             f[s][x.oldest[s]].value \in x.built
    BY <1>4 DEF Closed
  <2>2. f[s][x.oldest[s]].known \in Views
    BY <2>1, StoreType
  <2>3. Below(f[s][x.oldest[s]].known, u)
    BY <1>1, <1>4, <2>1, <2>2, BelowTransitive
  <2> QED BY <1>4, <2>1, <2>3 DEF Below
<1> QED BY <1>2, <1>3, <1>4

\* A view may move on to store i if it has, or gets, what its writer knew.
LEMMA ClosedMoves ==
  ASSUME NEW f \in Histories, NEW v \in Views, Closed(f, v),
         NEW s \in Slots, NEW i \in 1..Len(f[s]), i <= MaxStores + 1,
         Below(f[s][i].known, Join(v, Knows(s, i))),
         f[s][i].value \in Providers => f[s][i].value \in v.built
  PROVE  Closed(f, Join(v, Knows(s, i)))
<1> DEFINE k == Knows(s, i)  u == Join(v, k)
<1>1. i \in 1..MaxStores + 1 /\ k \in Views /\ k.built = {}
  BY KnowsType, SlotsAssumption
<1>2. u \in Views /\ u.built = v.built /\ Below(v, u)
  <2>1. u \in Views /\ u.built = v.built \cup k.built
    BY <1>1, JoinType
  <2>2. Below(v, u)
    BY <1>1, JoinBounds
  <2> QED BY <1>1, <2>1, <2>2
<1>3. \A x \in Slots : u.oldest[x] = v.oldest[x] \/ (x = s /\ u.oldest[x] = i)
  <2>1. TAKE x \in Slots
  <2>2. v.oldest[x] \in Nat /\ v.oldest[x] >= 1
    BY SlotsAssumption DEF Views
  <2>3. u.oldest[x] =
          IF v.oldest[x] > k.oldest[x] THEN v.oldest[x] ELSE k.oldest[x]
    BY <1>1, JoinType
  <2>4. k.oldest[x] = IF x = s THEN i ELSE 1
    BY DEF Knows
  <2> QED BY <2>2, <2>3, <2>4
<1> SUFFICES ASSUME NEW x \in Slots
             PROVE  /\ u.oldest[x] \in 1..Len(f[x])
                    /\ Below(f[x][u.oldest[x]].known, u)
                    /\ f[x][u.oldest[x]].value \in Providers =>
                         f[x][u.oldest[x]].value \in u.built
  BY DEF Closed
<1>4. CASE x = s /\ u.oldest[x] = i
  BY <1>2, <1>4
<1>5. CASE u.oldest[x] = v.oldest[x]
  <2>1. /\ v.oldest[x] \in 1..Len(f[x])
        /\ Below(f[x][v.oldest[x]].known, v)
        /\ f[x][v.oldest[x]].value \in Providers =>
             f[x][v.oldest[x]].value \in v.built
    BY DEF Closed
  <2>2. f[x][v.oldest[x]].known \in Views
    BY <2>1, StoreType
  <2> HIDE DEF u
  <2>3. Below(f[x][v.oldest[x]].known, u)
    BY <1>2, <2>1, <2>2, BelowTransitive
  <2> QED BY <1>2, <1>5, <2>1, <2>3
<1> QED BY <1>3, <1>4, <1>5

\* A view that is closed stays so when a store is added.
LEMMA ClosedKept ==
  ASSUME NEW f \in Histories, NEW s \in Slots, NEW e \in Stores,
         NEW v \in Views, Closed(f, v)
  PROVE  Closed([f EXCEPT ![s] = Append(f[s], e)], v)
<1> DEFINE g == [f EXCEPT ![s] = Append(f[s], e)]
<1>1. \A x \in Slots : f[x] \in Seq(Stores)
  BY DEF Histories
<1>2. ASSUME NEW x \in Slots, NEW i \in 1..Len(f[x])
      PROVE  i \in 1..Len(g[x]) /\ g[x][i] = f[x][i]
  <2>1. CASE x = s
    <3>1. g[x] = Append(f[x], e)
      BY <2>1 DEF Histories
    <3>2. Len(g[x]) = Len(f[x]) + 1 /\ g[x][i] = f[x][i]
      BY <1>1, <3>1, AppendProperties
    <3>3. Len(f[x]) \in Nat
      BY <1>1, LenProperties
    <3> QED BY <3>2, <3>3
  <2>2. CASE x # s
    BY <2>2 DEF Histories
  <2> QED BY <2>1, <2>2
<1> HIDE DEF g
<1>3. Closed(g, v)
  BY <1>2 DEF Closed
<1> QED BY <1>3 DEF g

\* A store that is added as number Len + 1 is there.
LEMMA StoreAdded ==
  ASSUME NEW f \in Histories, NEW s \in Slots, NEW e \in Stores
  PROVE  LET g == [f EXCEPT ![s] = Append(f[s], e)]
         IN  /\ g \in Histories
             /\ Len(g[s]) = Len(f[s]) + 1
             /\ g[s][Len(f[s]) + 1] = e
             /\ \A i \in 1..Len(f[s]) : g[s][i] = f[s][i]
             /\ \A x \in Slots \ {s} : g[x] = f[x]
<1> DEFINE g == [f EXCEPT ![s] = Append(f[s], e)]
<1>1. f[s] \in Seq(Stores)
  BY DEF Histories
<1>2. /\ Append(f[s], e) \in Seq(Stores)
      /\ Len(Append(f[s], e)) = Len(f[s]) + 1
      /\ \A i \in 1..Len(f[s]) : Append(f[s], e)[i] = f[s][i]
      /\ Append(f[s], e)[Len(f[s]) + 1] = e
  BY <1>1, AppendProperties
<1>3. g[s] = Append(f[s], e) /\ \A x \in Slots \ {s} : g[x] = f[x]
  BY DEF Histories
<1>4. g \in Histories
  BY <1>2 DEF Histories
<1> HIDE DEF g
<1>5. /\ g \in Histories
      /\ Len(g[s]) = Len(f[s]) + 1
      /\ g[s][Len(f[s]) + 1] = e
      /\ \A i \in 1..Len(f[s]) : g[s][i] = f[s][i]
      /\ \A x \in Slots \ {s} : g[x] = f[x]
  BY <1>2, <1>3, <1>4
<1> QED BY <1>5 DEF g

-----------------------------------------------------------------------------
(* The bound on the stores to all slots bounds those to each.              *)

LEMMA StoredMembers ==
  \A x : x \in Stored <=> \E s \in Slots : \E n \in 2..Last(s) : x = <<s, n>>
BY DEF Stored

LEMMA LastType ==
  ASSUME SlotsTyped, NEW s \in Slots
  PROVE  Last(s) \in Nat \ {0} /\ stores \in Histories
<1>1. stores[s] \in Seq(Stores) /\ stores[s] # <<>>
  BY DEF SlotsTyped
<1> QED BY <1>1, EmptySeq, LenProperties DEF Last, SlotsTyped, Histories

LEMMA RoomForOne ==
  ASSUME SlotsTyped, NEW s \in Slots, Cardinality(Stored) < MaxStores
  PROVE  Last(s) + 1 \in 1..MaxStores + 1
<1>1. Last(s) \in Nat \ {0} /\ MaxStores \in Nat
  BY LastType, SlotsAssumption
<1> DEFINE mine == {s} \X (2..Last(s))
<1>2. mine \in SUBSET Stored
  BY StoredMembers
<1>3. Cardinality(mine) <= Cardinality(Stored)
  BY <1>2, FS_Subset DEF SlotsTyped
<1>4. IsFiniteSet(2..Last(s)) /\ Cardinality(2..Last(s)) = Last(s) - 1
  <2>1. 2 \in Int /\ Last(s) \in Int
    BY <1>1
  <2>2. /\ IsFiniteSet(2..Last(s))
        /\ Cardinality(2..Last(s)) = IF 2 > Last(s) THEN 0 ELSE Last(s) - 2 + 1
    BY <2>1, FS_Interval
  <2> QED BY <1>1, <2>2
<1>5. IsFiniteSet({s}) /\ Cardinality({s}) = 1
  BY FS_Singleton
<1>6. Cardinality(mine) = 1 * (Last(s) - 1)
  BY <1>4, <1>5, FS_Product
<1>7. Cardinality(Stored) \in Nat
  BY FS_CardinalityType DEF SlotsTyped
<1> HIDE DEF mine
<1> QED BY <1>1, <1>3, <1>6, <1>7

-----------------------------------------------------------------------------
(* The steps.                                                              *)

\* A store of a provider that the view v has, for a closed v that the thread's
\* view is below of: the view of the thread, or that with the exchange's load.
LEMMA StoreStep ==
  ASSUME CoreInv, NEW t \in Threads, NEW s \in Slots, NEW p \in Values,
         NEW v \in Views, Closed(stores, v), StoreTo(t, s, p, v),
         p = Null => s \in Nullable,
         p \in Providers => p \in v.built,
         Below(view[t], v),
         previous' \in [Threads -> Stores]
  PROVE  CoreInv' /\ Below(v, view'[t]) /\ Grows
<1> DEFINE n == Last(s) + 1
           w == Join(v, Knows(s, n))
           e == [value |-> p, carried |-> w, known |-> w]
<1>1. n \in 1..MaxStores + 1 /\ Last(s) \in Nat \ {0} /\ stores \in Histories
  BY RoomForOne, LastType DEF StoreTo, CoreInv
<1>2. Knows(s, n) \in Views
  BY <1>1, KnowsType
<1>3. w \in Views /\ w.built = v.built \cup Knows(s, n).built /\ Below(v, w)
  BY <1>2, JoinType, JoinBounds
<1>4. stores' = [stores EXCEPT ![s] = Append(stores[s], e)]
      /\ view' = [view EXCEPT ![t] = w]
  BY DEF StoreTo, Carried
<1> HIDE DEF w, n
<1>5. e \in Stores
  BY <1>3 DEF Stores
<1>6. e.value = p /\ e.carried = w /\ e.known = w
  OBVIOUS
<1> HIDE DEF e
<1>7. /\ stores' \in Histories
      /\ Len(stores'[s]) = n
      /\ stores'[s][n] = e
      /\ \A i \in 1..Last(s) : stores'[s][i] = stores[s][i]
      /\ \A x \in Slots \ {s} : stores'[x] = stores[x]
  <2> DEFINE g == [stores EXCEPT ![s] = Append(stores[s], e)]
  <2>1. stores \in Histories
    BY <1>1
  <2>2. /\ g \in Histories
        /\ Len(g[s]) = Len(stores[s]) + 1
        /\ g[s][Len(stores[s]) + 1] = e
        /\ \A i \in 1..Len(stores[s]) : g[s][i] = stores[s][i]
        /\ \A x \in Slots \ {s} : g[x] = stores[x]
    BY <1>5, <2>1, StoreAdded
  <2> QED BY <1>4, <2>2 DEF Last, n
<1>8. \A x \in Views : Closed(stores, x) => Closed(stores', x)
  BY <1>1, <1>4, <1>5, ClosedKept
<1>9. Closed(stores', w)
  <2>1. Below(w, w)
    BY <1>3, SlotsAssumption DEF Below, Views
  <2>2. n \in 1..Len(stores'[s]) /\ n <= MaxStores + 1
    BY <1>1, <1>7, SlotsAssumption
  <2>3. Below(stores'[s][n].known, Join(v, Knows(s, n)))
    BY <1>6, <1>7, <2>1 DEF w
  <2>4. stores'[s][n].value \in Providers => stores'[s][n].value \in v.built
    BY <1>6, <1>7
  <2> QED BY <1>7, <1>8, <2>2, <2>3, <2>4, ClosedMoves DEF w
<1>10. /\ Last(s)' = n
       /\ \A x \in Slots \ {s} : Last(x)' = Last(x)
  BY <1>7 DEF Last
<1>11. SlotsTyped'
  <2>1. \A x \in Slots : stores'[x] # <<>>
    <3>1. stores'[s] # <<>>
      BY <1>1, <1>7 DEF n
    <3> QED BY <1>7, <3>1 DEF CoreInv, SlotsTyped
  <2>2. \A x \in Slots \ Nullable :
          \A i \in 1..Last(x)' : stores'[x][i].value # Null
    <3>1. TAKE x \in Slots \ Nullable
    <3>2. CASE x = s
      <4>1. TAKE i \in 1..Last(x)'
      <4>2. i \in 1..Last(s) \/ i = n
        BY <1>1, <1>10, <3>2 DEF n
      <4> QED BY <1>6, <1>7, <3>2, <4>2 DEF CoreInv, SlotsTyped
    <3>3. CASE x # s
      BY <1>7, <1>10, <3>3 DEF CoreInv, SlotsTyped
    <3> QED BY <3>2, <3>3
  <2>3. view' \in [Threads -> Views]
    BY <1>3, <1>4 DEF CoreInv, SlotsTyped
  <2>4. IsFiniteSet(Stored')
    <3>1. Stored' = Stored \cup {<<s, n>>}
      <4>1. \A x : x \in Stored' <=>
                     \E y \in Slots : \E i \in 2..Last(y)' : x = <<y, i>>
        BY StoredMembers, <1>10 DEF Stored
      <4>2. \A i : i \in 2..n <=> i \in 2..Last(s) \/ i = n
        BY <1>1 DEF n
      <4> QED BY <1>10, <4>1, <4>2, StoredMembers
    <3> QED BY <3>1, FS_AddElement DEF CoreInv, SlotsTyped
  <2>5. \A x \in Slots : Last(x)' <= MaxStores + 1
    <3>1. \A x \in Slots : Last(x) <= MaxStores + 1
      BY DEF CoreInv, SlotsTyped
    <3>2. n <= MaxStores + 1
      BY <1>1, SlotsAssumption
    <3> QED BY <1>10, <3>1, <3>2
  <2> QED BY <1>7, <2>1, <2>2, <2>3, <2>4, <2>5 DEF SlotsTyped, Histories
<1>12. StoresClosed'
  <2> SUFFICES ASSUME NEW x \in Slots, NEW i \in 1..Last(x)'
               PROVE  /\ stores'[x][i].carried = stores'[x][i].known
                      /\ Closed(stores', stores'[x][i].known)
                      /\ stores'[x][i].value \in Providers =>
                           stores'[x][i].value \in stores'[x][i].known.built
    BY DEF StoresClosed
  <2>1. CASE x = s /\ i = n
    BY <1>3, <1>6, <1>7, <1>9, <2>1
  <2>2. CASE ~(x = s /\ i = n)
    <3>1. i \in 1..Last(x) /\ stores'[x][i] = stores[x][i]
      BY <1>1, <1>7, <1>10, <2>2, LastType DEF n
    <3>2. stores[x][i].known \in Views
      BY <1>1, <3>1, StoreType DEF Last
    <3> QED BY <1>8, <3>1, <3>2 DEF CoreInv, StoresClosed
  <2> QED BY <2>1, <2>2
<1>13. ViewsClosed'
  <2>1. \A u \in Threads : view[u] \in Views /\ Closed(stores, view[u])
    BY DEF CoreInv, ViewsClosed, SlotsTyped
  <2>2. \A u \in Threads : view'[u] = IF u = t THEN w ELSE view[u]
    BY <1>4 DEF CoreInv, SlotsTyped
  <2> QED BY <1>8, <1>9, <2>1, <2>2 DEF ViewsClosed
<1>14. Below(v, view'[t]) /\ Grows
  <2>1. view \in [Threads -> Views]
    BY DEF CoreInv, SlotsTyped
  <2>2. view'[t] = w /\ \A u \in Threads \ {t} : view'[u] = view[u]
    BY <1>4, <2>1
  <2>3. Below(view[t], w)
    BY <1>3, <2>1, BelowTransitive
  <2>4. \A u \in Threads : Below(view[u], view[u])
    BY <2>1, BelowReflexive
  <2> QED BY <1>3, <2>2, <2>3, <2>4 DEF Grows
<1> QED BY <1>11, <1>12, <1>13, <1>14 DEF CoreInv

\* Provider() and its like: the view joins two closed ones, and then moves on.
LEMMA GetStep ==
  ASSUME CoreInv, NEW t \in Threads, NEW s \in Slots, Get(t, s)
  PROVE  CoreInv' /\ Grows
<1>1. PICK i \in view[t].oldest[s]..Last(s) :
        /\ view' = [view EXCEPT ![t] =
                      Join(Join(view[t], stores[s][i].carried), Knows(s, i))]
        /\ UNCHANGED <<stores, previous>>
  BY DEF Get
<1> DEFINE k == stores[s][i].known
           j == Join(view[t], k)
           w == Join(j, Knows(s, i))
<1>2. stores \in Histories /\ view[t] \in Views /\ Closed(stores, view[t])
  BY LastType DEF CoreInv, SlotsTyped, ViewsClosed
<1>3. i \in 1..Len(stores[s]) /\ i \in 1..MaxStores + 1
  <2>1. view[t].oldest[s] \in 1..Last(s)
    BY <1>2 DEF Closed, Last
  <2>2. Last(s) \in Nat /\ Last(s) <= MaxStores + 1 /\ MaxStores \in Nat
    BY LastType, SlotsAssumption DEF CoreInv, SlotsTyped
  <2> QED BY <2>1, <2>2 DEF Last
<1>4. k \in Views /\ Closed(stores, k) /\ stores[s][i].carried = k
      /\ (stores[s][i].value \in Providers => stores[s][i].value \in k.built)
  BY <1>2, <1>3, StoreType DEF CoreInv, StoresClosed, Last
<1> HIDE DEF k
<1>5. j \in Views /\ Closed(stores, j) /\ Below(k, j)
      /\ j.built = view[t].built \cup k.built
  BY <1>2, <1>4, ClosedJoin, JoinType, JoinBounds
<1> HIDE DEF j
<1>6. w \in Views /\ Below(j, w)
  BY <1>3, <1>5, KnowsType, JoinType, JoinBounds
<1>g. Below(view[t], w)
  <2>1. Below(view[t], Join(view[t], k))
    BY <1>2, <1>4, JoinBounds
  <2> QED BY <1>2, <1>5, <1>6, <2>1, BelowTransitive DEF j
<1>7. Closed(stores, w)
  <2>1. Below(k, w)
    BY <1>4, <1>5, <1>6, BelowTransitive
  <2>2. Below(stores[s][i].known, Join(j, Knows(s, i)))
    BY <2>1 DEF k
  <2>3. stores[s][i].value \in Providers => stores[s][i].value \in j.built
    BY <1>4, <1>5
  <2>4. i <= MaxStores + 1
    BY <1>3, SlotsAssumption
  <2> QED BY <1>2, <1>3, <1>5, <2>2, <2>3, <2>4, ClosedMoves
<1>8. view' = [view EXCEPT ![t] = w]
  BY <1>1, <1>4 DEF j
<1> HIDE DEF w
<1>9. SlotsTyped'
  BY <1>1, <1>6, <1>8 DEF CoreInv, SlotsTyped, Stored, Last
<1>10. ViewsClosed'
  BY <1>1, <1>7, <1>8 DEF CoreInv, SlotsTyped, ViewsClosed
<1>11. StoresClosed'
  BY <1>1 DEF CoreInv, StoresClosed, Last
<1>12. Grows
  BY <1>8, <1>g, BelowReflexive DEF Grows, CoreInv, SlotsTyped
<1> QED BY <1>9, <1>10, <1>11, <1>12 DEF CoreInv

LEMMA ConstructStep ==
  ASSUME CoreInv, NEW t \in Threads, NEW p \in Providers, Construct(t, p)
  PROVE  CoreInv' /\ Grows
<1> DEFINE v == view[t]  w == [v EXCEPT !.built = v.built \cup {p}]
<1>1. view' = [view EXCEPT ![t] = w] /\ UNCHANGED <<stores, previous>>
  BY DEF Construct, CoreInv, SlotsTyped
<1>2. v \in Views /\ Closed(stores, v)
  BY DEF CoreInv, SlotsTyped, ViewsClosed
<1> HIDE DEF v
<1>3. w \in Views /\ w.oldest = v.oldest /\ w.built = v.built \cup {p}
  BY <1>2 DEF Views
<1> HIDE DEF w
<1>4. Closed(stores, w)
  BY <1>2, <1>3 DEF Closed, Below
<1>5. SlotsTyped'
  BY <1>1, <1>3 DEF CoreInv, SlotsTyped, Stored, Last
<1>6. ViewsClosed'
  BY <1>1, <1>4 DEF CoreInv, SlotsTyped, ViewsClosed
<1>7. StoresClosed'
  BY <1>1 DEF CoreInv, StoresClosed, Last
<1>8. Grows
  <2>1. Below(v, w)
    BY <1>2, <1>3, BelowReflexive DEF Below
  <2> QED BY <1>1, <2>1, BelowReflexive DEF Grows, CoreInv, SlotsTyped, v
<1> QED BY <1>5, <1>6, <1>7, <1>8 DEF CoreInv

\* What was replaced stays known, unless something else is replaced.
LEMMA ReplacedKept ==
  ASSUME SlotsInv, CoreInv', Grows, NEW t \in Threads,
         previous'[t] = previous[t]
  PROVE  Replaced(t)'
<1>1. /\ previous[t].known \in Views
      /\ view[t] \in Views /\ view'[t] \in Views
  BY DEF SlotsInv, CoreInv, SlotsTyped, Stores
<1>2. Below(previous[t].known, view[t]) /\ Below(view[t], view'[t])
  BY DEF SlotsInv, Replaced, Grows
<1>3. Below(previous[t].known, view'[t])
  BY <1>1, <1>2, BelowTransitive
<1> QED BY <1>2, <1>3 DEF SlotsInv, Replaced, Below

-----------------------------------------------------------------------------
\* All the setters, with the providers that they are called with.
Set(t, s, p) ==
  \/ SetNullable(t, s, p)
  \/ SetWithFallback(t, s, p)
  \/ Exchange(t, s, p) /\ UNCHANGED previous
  \/ SetWithExchange(t, s, p)

LEMMA SetStep ==
  ASSUME SlotsInv, NEW t \in Threads, NEW s \in Slots,
         NEW p \in view[t].built \cup {Null, Fallback},
         p = Fallback => s \notin Nullable,
         Set(t, s, p)
  PROVE  SlotsInv'
<1> USE DEF SlotsInv
<1> DEFINE v == view[t]
<1>1. v \in Views /\ Closed(stores, v) /\ v.built \subseteq Providers
        /\ v = view[t]
  BY DEF CoreInv, SlotsTyped, ViewsClosed, Views
<1>2. p \in Values /\ (p \in Providers => p \in v.built)
  BY <1>1, SlotsAssumption DEF Values
<1>b. Below(v, v) /\ previous \in [Threads -> Stores]
  BY <1>1, BelowReflexive DEF CoreInv, SlotsTyped
<1> HIDE DEF v
<1>3. CASE s \in Nullable \cup WithFallback
  <2>1. /\ StoreTo(t, s, p, v) /\ UNCHANGED previous
        /\ p = Null => s \in Nullable
    BY <1>3, SlotsAssumption
    DEF Set, SetNullable, SetWithFallback, SetWithExchange, Exchange, Ignored, v
  <2>2. CoreInv' /\ Grows
    BY <1>1, <1>2, <1>b, <2>1, StoreStep
  <2> QED BY <2>1, <2>2, ReplacedKept
<1>4. CASE s \in WithExchange
  <2> DEFINE q == IF p = Null THEN Fallback ELSE p
             old == stores[s][Last(s)]
             c == old.carried
  <2>1. /\ StoreTo(t, s, q, Join(v, c))
        /\ previous' \in {previous, [previous EXCEPT ![t] = old]}
    BY <1>4, SlotsAssumption
    DEF Set, SetNullable, SetWithFallback, SetWithExchange, Exchange, Acquired,
        v
  <2>2. stores \in Histories /\ Last(s) \in 1..Len(stores[s])
    BY LastType DEF CoreInv, Last
  <2>3. /\ c \in Views /\ Closed(stores, c) /\ old \in Stores
        /\ old.known = c /\ (old.value \in Providers => old.value \in c.built)
    BY <2>2, StoreType DEF CoreInv, StoresClosed, Last
  <2> HIDE DEF c, old
  <2>4. /\ Join(v, c) \in Views /\ Closed(stores, Join(v, c))
        /\ Join(v, c).built = v.built \cup c.built
        /\ Below(v, Join(v, c)) /\ Below(c, Join(v, c))
    BY <1>1, <2>2, <2>3, JoinType, JoinBounds, ClosedJoin
  <2>5. q \in Values /\ q # Null /\ (q \in Providers => q \in Join(v, c).built)
    BY <1>2, <2>4, SlotsAssumption DEF Values
  <2>6. previous' \in [Threads -> Stores]
    BY <1>b, <2>1, <2>3
  <2> HIDE DEF q
  <2>7. CoreInv' /\ Below(Join(v, c), view'[t]) /\ Grows
    BY <1>1, <2>1, <2>4, <2>5, <2>6, StoreStep
  <2>8. ASSUME NEW u \in Threads PROVE Replaced(u)'
    <3>1. CASE previous'[u] = previous[u]
      BY <2>7, <3>1, ReplacedKept
    <3>2. CASE u = t /\ previous'[t] = old
      <4>1. view'[t] \in Views
        BY <2>7 DEF CoreInv, SlotsTyped
      <4>2. Below(c, view'[t])
        BY <2>3, <2>4, <2>7, <4>1, BelowTransitive
      <4> QED BY <2>3, <3>2, <4>2 DEF Replaced, Below
    <3> QED BY <1>b, <2>1, <3>1, <3>2
  <2> QED BY <2>7, <2>8
<1> QED BY <1>3, <1>4 DEF Slots

LEMMA SlotsStep == SlotsInv /\ [Next]_vars => SlotsInv'
<1> SUFFICES ASSUME SlotsInv, [Next]_vars PROVE SlotsInv'
  OBVIOUS
<1> USE DEF SlotsInv
<1>1. ASSUME NEW t \in Threads, NEW p \in Providers, Construct(t, p)
      PROVE  SlotsInv'
  <2>1. CoreInv' /\ Grows
    BY <1>1, ConstructStep
  <2> QED BY <1>1, <2>1, ReplacedKept DEF Construct
<1>2. ASSUME NEW t \in Threads, NEW s \in Slots, Get(t, s) PROVE SlotsInv'
  <2>1. CoreInv' /\ Grows
    BY <1>2, GetStep
  <2> QED BY <1>2, <2>1, ReplacedKept DEF Get
<1>3. ASSUME NEW t \in Threads, NEW s \in Slots, Reset(t, s) PROVE SlotsInv'
  <2>1. CASE SetNullable(t, s, Null)
    BY <2>1, SetStep, SlotsAssumption DEF Set
  <2>2. CASE \/ SetWithFallback(t, s, Fallback)
             \/ Exchange(t, s, Fallback) /\ UNCHANGED previous
    <3>1. s \notin Nullable
      BY <2>2, SlotsAssumption DEF SetWithFallback, Exchange
    <3> QED BY <2>2, <3>1, SetStep DEF Set
  <2> QED BY <1>3, <2>1, <2>2 DEF Reset
<1>4. ASSUME NEW t \in Threads, NEW s \in Slots, Restore(t, s) PROVE SlotsInv'
  <2> DEFINE p == previous[t].value
  <2>1. p \in Values /\ SetWithExchange(t, s, p)
    BY <1>4 DEF Restore, CoreInv, SlotsTyped, Stores
  <2>2. p \in view[t].built \cup {Null, Fallback}
    BY <2>1 DEF Replaced, Values
  <2>3. s \notin Nullable
    BY <2>1, SlotsAssumption DEF SetWithExchange, Exchange
  <2> QED BY <2>1, <2>2, <2>3, SetStep DEF Set
<1>5. ASSUME NEW t \in Threads, NEW s \in Slots,
             NEW p \in view[t].built \cup {Null},
             Set(t, s, p)
      PROVE  SlotsInv'
  <2>1. p # Fallback
    BY SlotsAssumption DEF CoreInv, SlotsTyped, Views
  <2> QED BY <1>5, <2>1, SetStep
<1>6. CASE UNCHANGED vars
  BY <1>6
  DEF vars, CoreInv, SlotsTyped, StoresClosed, ViewsClosed, Replaced,
      Stored, Last
<1> QED BY <1>1, <1>2, <1>3, <1>4, <1>5, <1>6 DEF Next, Set

LEMMA InitSlots == Init => SlotsInv
<1> SUFFICES ASSUME Init PROVE SlotsInv
  OBVIOUS
<1> USE DEF Init
<1>1. Nothing \in Views
  BY SlotsAssumption DEF Nothing, Views
<1>2. \A s \in Slots : stores[s] \in Seq(Stores) /\ Len(stores[s]) = 1
                      /\ stores[s][1].known = Nothing
                      /\ stores[s][1].carried = Nothing
                      /\ stores[s][1].value \notin Providers
                      /\ (s \notin Nullable => stores[s][1].value = Fallback)
  BY <1>1, SlotsAssumption DEF Stores, Values, First
<1>3. Closed(stores, Nothing)
  <2>1. Below(Nothing, Nothing)
    BY DEF Below, Nothing
  <2>2. \A s \in Slots : Nothing.oldest[s] = 1
    BY DEF Nothing
  <2> HIDE DEF Init
  <2> QED BY <1>2, <2>1, <2>2 DEF Closed
<1>4. SlotsTyped
  <2>1. stores \in [Slots -> Seq(Stores)] /\ \A s \in Slots : stores[s] # <<>>
    BY <1>2
  <2>2. \A s \in Slots : Last(s) = 1
    BY <1>2 DEF Last
  <2>3. Stored = {}
    BY <2>2, StoredMembers
  <2>4. IsFiniteSet(Stored)
    BY <2>3, FS_EmptySet
  <2>5. \A s \in Slots \ Nullable :
          \A i \in 1..Last(s) : stores[s][i].value # Null
    BY <1>2, <2>2, SlotsAssumption
  <2>6. previous \in [Threads -> Stores]
    BY <1>1 DEF First, Stores, Values
  <2> QED BY <1>1, <2>1, <2>2, <2>4, <2>5, <2>6, SlotsAssumption DEF SlotsTyped
<1>5. StoresClosed
  BY <1>2, <1>3 DEF StoresClosed, Last
<1>6. ViewsClosed
  BY <1>3 DEF ViewsClosed
<1>7. \A t \in Threads : Replaced(t)
  BY <1>1, BelowReflexive, SlotsAssumption DEF Replaced, First
<1> QED BY <1>4, <1>5, <1>6, <1>7 DEF SlotsInv, CoreInv

LEMMA SlotsInvariant == Spec => []SlotsInv
BY InitSlots, SlotsStep, PTL DEF Spec

-----------------------------------------------------------------------------
\* The variables keep their types, and a slot with a fallback object never
\* holds null (ESPressio_Execution.hpp:163, ESPressio_Memory.hpp:106).
THEOREM SlotsTypeCorrect == Spec => []TypeOK
<1>1. SlotsInv => TypeOK
  <2> SUFFICES ASSUME SlotsInv PROVE TypeOK
    OBVIOUS
  <2>1. stores \in Histories /\ MaxStores \in Nat
    BY SlotsAssumption DEF SlotsInv, CoreInv, SlotsTyped, Histories
  <2>2. ASSUME NEW s \in Slots, NEW i \in 1..Last(s)
        PROVE  /\ stores[s][i].value \in Providers \cup {Fallback}
                    \cup (IF s \in Nullable THEN {Null} ELSE {})
               /\ {stores[s][i].carried, stores[s][i].known} \subseteq Views
    <3>1. /\ stores[s][i] \in Stores
          /\ stores[s][i].known \in Views /\ stores[s][i].carried \in Views
      BY <2>1, StoreType DEF Last
    <3>2. stores[s][i].value \in Values
      BY <3>1 DEF Stores
    <3>3. s \notin Nullable => stores[s][i].value # Null
      BY DEF SlotsInv, CoreInv, SlotsTyped
    <3> QED BY <3>1, <3>2, <3>3 DEF Values
  <2>3. \A t \in Threads : previous[t].value \in Values
    BY DEF SlotsInv, CoreInv, SlotsTyped, Stores
  <2> QED
    BY <2>2, <2>3 DEF TypeOK, SlotsInv, CoreInv, SlotsTyped, Values
<1> QED BY <1>1, SlotsInvariant, PTL

\* Who finds a provider knows that it is constructed, and finds everything
\* that was installed before it by the same thread, or known to it.
THEOREM InstallationOrderIsSeen == Spec => []InstalledInOrder
<1>1. SlotsInv => InstalledInOrder
  <2> SUFFICES ASSUME SlotsInv PROVE InstalledInOrder
    OBVIOUS
  <2> SUFFICES ASSUME NEW t \in Threads, NEW s \in Slots
               PROVE  LET newest == stores[s][view[t].oldest[s]]
                      IN /\ Join(view[t], newest.known) = view[t]
                         /\ newest.value \in Providers =>
                              newest.value \in view[t].built
    BY DEF InstalledInOrder
  <2>1. stores \in Histories /\ view[t] \in Views /\ Closed(stores, view[t])
    BY DEF SlotsInv, CoreInv, SlotsTyped, ViewsClosed, Histories
  <2> DEFINE newest == stores[s][view[t].oldest[s]]
  <2>2. /\ newest.known \in Views /\ Below(newest.known, view[t])
        /\ newest.value \in Providers => newest.value \in view[t].built
    BY <2>1, StoreType DEF Closed
  <2>3. Join(view[t], newest.known) = view[t]
    BY <2>1, <2>2, JoinAbsorbs
  <2> QED BY <2>2, <2>3
<1> QED BY <1>1, SlotsInvariant, PTL

\* Who gets the provider that an exchange replaced knows that it is
\* constructed, and all that its installer knew.
THEOREM ReplacementIsSeen == Spec => []ReplacedInOrder
<1>1. SlotsInv => ReplacedInOrder
  <2> SUFFICES ASSUME SlotsInv, NEW t \in Threads
               PROVE  /\ Join(view[t], previous[t].known) = view[t]
                      /\ previous[t].value \in Providers =>
                           previous[t].value \in view[t].built
    BY DEF ReplacedInOrder
  <2>1. view[t] \in Views /\ previous[t].known \in Views /\ Replaced(t)
    BY DEF SlotsInv, CoreInv, SlotsTyped, Stores
  <2> QED BY <2>1, JoinAbsorbs DEF Replaced
<1> QED BY <1>1, SlotsInvariant, PTL
=============================================================================
