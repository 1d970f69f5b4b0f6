---------------------------- MODULE EdgeIndexProofs ----------------------------
(***************************************************************************)
(* The index a mirror keeps step by step, against the one derived from the *)
(* whole of its nodes.                                                     *)
(*                                                                         *)
(* Walks: a walk of k + 1 steps is one step after a walk of k (FollowIs),  *)
(* by NaturalsProofs.  GraphFollowsIndex needs no more than that and       *)
(* types: what is met on the way is drawn where the start is.              *)
(*                                                                         *)
(* The two action properties compare a store m with what a step makes of   *)
(* it.  Keeps(m, r, A, B) says that the rows of every source outside A     *)
(* that were current still are, that the counts of every node outside B    *)
(* that were right still are, and that r is Whole: one row for a source, a *)
(* kind and a target (Keyed, or a resolution could merge two rows and      *)
(* change a count), and no alias or content left behind by an id without   *)
(* a row (Bare, or a creation would find links it did not write).  There   *)
(* is one lemma for each maintenance operator, of the change that is made  *)
(* before it (RebuildAll, ReresolveAll, RestatAll, PurgeAll), and one for  *)
(* each action, from those.  ReresolveAll rests on SameTerminal: a chain   *)
(* of live aliases that does not meet the rows whose links changed ends    *)
(* where it did.                                                           *)
(***************************************************************************)
EXTENDS EdgeIndex, NaturalsProofs, FiniteSetTheorems, TLAPS

-----------------------------------------------------------------------------
(* Walks *)

Links == [Id -> Id \cup {NoId}]

LEMMA OnwardIs ==
  ASSUME NEW next \in Links, NEW y \in Id
  PROVE  Onward(next, y) \in Id
BY DEF Onward, Links

LEMMA FollowIs ==
  ASSUME NEW next \in Links, NEW x \in Id
  PROVE  /\ Follow(next, 0, x) = x
         /\ \A k \in Nat : /\ Follow(next, k, x) \in Id
                           /\ Follow(next, k + 1, x) = Onward(next, Follow(next, k, x))
<1> DEFINE H == [y \in Id |-> Onward(next, y)]
           Rec(w) == w = [k \in Nat |-> IF k = 0 THEN x ELSE Onward(next, w[k - 1])]
<1>1. H \in [Id -> Id]
  BY OnwardIs
<1>2. PICK f : f \in [Nat -> Id] /\ f[0] = x /\ \A k \in Nat : f[k + 1] = H[f[k]]
  <2> HIDE DEF H
  <2>1. \E f : Stepwise(f, Id, x, H)
    BY <1>1, StepwiseFunction
  <2> QED BY <2>1 DEF Stepwise
<1>3. Rec(f)
  <2>1. ASSUME NEW k \in Nat PROVE f[k] = IF k = 0 THEN x ELSE Onward(next, f[k - 1])
    <3>1. CASE k = 0
      BY <1>2, <3>1
    <3>2. CASE k # 0
      <4>1. k - 1 \in Nat /\ k = (k - 1) + 1
        BY <3>2
      <4>2. f[k] = H[f[k - 1]] /\ f[k - 1] \in Id
        BY <1>2, <4>1
      <4> QED BY <3>2, <4>2
    <3> QED BY <3>1, <3>2
  <2>2. f = [k \in Nat |-> f[k]]
    BY <1>2
  <2> QED BY <2>1, <2>2
<1> DEFINE w == CHOOSE v : Rec(v)
<1>4. Rec(w)
  <2> HIDE DEF Rec
  <2> QED BY <1>3
<1>5. \A k \in Nat : Follow(next, k, x) = w[k]
  BY DEF Follow
<1> HIDE DEF w
<1>6. \A k \in Nat : w[k] = IF k = 0 THEN x ELSE Onward(next, w[k - 1])
  BY <1>4
<1> HIDE DEF Rec
<1>7. w[0] = x
  BY <1>6
<1>8. \A k \in Nat : w[k + 1] = Onward(next, w[k])
  <2> SUFFICES ASSUME NEW k \in Nat PROVE w[k + 1] = Onward(next, w[k])
    OBVIOUS
  <2>1. k + 1 \in Nat /\ k + 1 # 0 /\ (k + 1) - 1 = k
    OBVIOUS
  <2> QED BY <1>6, <2>1
<1>9. \A k \in Nat : w[k] \in Id
  <2> DEFINE S == {k \in Nat : w[k] \in Id}
  <2>1. 0 \in S /\ \A k \in S : k + 1 \in S
    BY <1>7, <1>8, OnwardIs
  <2>2. S \in SUBSET Nat
    OBVIOUS
  <2> HIDE DEF S
  <2>3. S = Nat
    BY <2>1, <2>2, NatClosed
  <2> QED BY <2>3 DEF S
<1> QED BY <1>5, <1>7, <1>8, <1>9

\* A walk is one walk after another.
LEMMA FollowOn ==
  ASSUME NEW next \in Links, NEW x \in Id, NEW j \in Nat, NEW k \in Nat
  PROVE  Follow(next, k, Follow(next, j, x)) = Follow(next, j + k, x)
<1> DEFINE y == Follow(next, j, x)
           S == {i \in Nat : Follow(next, i, y) = Follow(next, j + i, x)}
<1>1. y \in Id
  BY FollowIs
<1> HIDE DEF y
<1>2. 0 \in S
  BY <1>1, FollowIs DEF y
<1>3. ASSUME NEW i \in S PROVE i + 1 \in S
  <2>1. i \in Nat /\ j + i \in Nat /\ j + (i + 1) = (j + i) + 1
    OBVIOUS
  <2>2. Follow(next, i + 1, y) = Onward(next, Follow(next, i, y))
    BY <1>1, <2>1, FollowIs
  <2>3. Follow(next, (j + i) + 1, x) = Onward(next, Follow(next, j + i, x))
    BY <2>1, FollowIs
  <2> QED BY <2>1, <2>2, <2>3
<1>4. S \in SUBSET Nat
  OBVIOUS
<1> HIDE DEF S
<1>5. k \in S
  BY <1>2, <1>3, <1>4, NatClosed
<1> QED BY <1>5 DEF S, y

\* The ids a walk can meet are met within as many steps as there are ids.
LEMMA ChainIs ==
  ASSUME NEW next \in Links, NEW x \in Id
  PROVE  /\ Chain(next, x) \subseteq Id /\ x \in Chain(next, x)
         /\ \A k \in Nat : Follow(next, k, x) \in Chain(next, x)
<1> DEFINE N == Cardinality(Id)
           g == [k \in 0..N |-> Follow(next, k, x)]
<1>1. N \in Nat
  BY FS_CardinalityType, IndexAssumption
<1>2. g \in [0..N -> Id]
  BY <1>1, FollowIs
<1>3. IsFiniteSet(0..N) /\ Cardinality(0..N) = N + 1
  <2> HIDE DEF N
  <2> QED BY <1>1, FS_Interval
<1>4. PICK i \in 0..N, j \in 0..N : i # j /\ g[i] = g[j]
  <2>1. N < Cardinality(0..N)
    BY <1>1, <1>3
  <2> HIDE DEF g
  <2> QED BY <1>2, <1>3, <2>1, FS_PigeonHole, IndexAssumption
<1>5. PICK a \in 0..N, b \in 0..N : a < b /\ Follow(next, a, x) = Follow(next, b, x)
  <2>1. Follow(next, i, x) = Follow(next, j, x)
    BY <1>4
  <2>2. i < j \/ j < i
    BY <1>1, <1>4
  <2> HIDE DEF g, N
  <2> QED BY <2>1, <2>2
<1> HIDE DEF g, N
<1> DEFINE met == {Follow(next, k, x) : k \in 0..(b - 1)}
           S == {k \in Nat : Follow(next, k, x) \in met}
<1>6. 0 \in S
  BY <1>1, <1>5
<1>7. ASSUME NEW k \in S PROVE k + 1 \in S
  <2>1. PICK l \in 0..(b - 1) : Follow(next, k, x) = Follow(next, l, x)
    OBVIOUS
  <2>2. k \in Nat /\ k + 1 \in Nat /\ l \in Nat
    BY <1>1, <1>5
  <2>3. Follow(next, k + 1, x) = Follow(next, l + 1, x)
    BY <2>1, <2>2, FollowIs
  <2>4. CASE l + 1 = b
    <3>1. a \in 0..(b - 1)
      BY <1>1, <1>5
    <3> QED BY <1>5, <2>2, <2>3, <2>4, <3>1
  <2>5. CASE l + 1 # b
    <3>1. l + 1 \in 0..(b - 1)
      BY <1>1, <1>5, <2>5
    <3> QED BY <2>2, <2>3, <3>1
  <2> QED BY <2>4, <2>5
<1>8. S \in SUBSET Nat
  OBVIOUS
<1>9. S = Nat
  <2> HIDE DEF S
  <2> QED BY <1>6, <1>7, <1>8, NatClosed
<1>10. met \subseteq Chain(next, x)
  BY <1>1, <1>5 DEF Chain, N
<1>11. \A k \in Nat : Follow(next, k, x) \in Chain(next, x)
  BY <1>9, <1>10
<1>12. Chain(next, x) \subseteq Id
  BY <1>1, FollowIs DEF Chain, N
<1>13. x \in Chain(next, x)
  BY <1>11, FollowIs
<1> QED BY <1>11, <1>12, <1>13

-----------------------------------------------------------------------------
(* Stores *)

Kinds == {"mention", "field"}
EdgeRows == [source : Id, kind : Kinds, target : Id, resolved : Id]
Stores ==
  [rows : SUBSET Id, live : SUBSET Id, class : SUBSET Id, inline : SUBSET Id,
   above : Links, alias : Links, content : [Id -> SUBSET Id], fields : [Id -> SUBSET Id],
   binned : SUBSET Id, purged : SUBSET Id, edge : SUBSET EdgeRows,
   stats : [Id -> [backlinks : Nat, references : Nat]]]

IndexTypeOK == store \in Stores /\ edits \in Nat

LEMMA StoreFields ==
  ASSUME NEW m \in Stores
  PROVE  /\ m.rows \subseteq Id /\ m.live \subseteq Id /\ m.class \subseteq Id /\ m.inline \subseteq Id
         /\ m.above \in Links /\ m.alias \in Links
         /\ m.content \in [Id -> SUBSET Id] /\ m.fields \in [Id -> SUBSET Id]
         /\ m.binned \subseteq Id /\ m.purged \subseteq Id /\ m.edge \subseteq EdgeRows
         /\ m.stats \in [Id -> [backlinks : Nat, references : Nat]]
BY DEF Stores

LEMMA LiveAliasIs ==
  ASSUME NEW m \in Stores
  PROVE  /\ LiveAlias(m) \in Links
         /\ \A x \in Id : LiveAlias(m)[x] = IF x \in m.live THEN m.alias[x] ELSE NoId
BY StoreFields DEF LiveAlias, Links

LEMMA TerminalTyped ==
  ASSUME NEW m \in Stores, NEW t \in Id
  PROVE  Terminal(m, t) \in Id
BY LiveAliasIs, FollowIs, IndexAssumption DEF Terminal

-----------------------------------------------------------------------------
(* The graph *)

LEMMA RollupIs ==
  ASSUME NEW m \in Stores
  PROVE  /\ Rollup(m) \in Links
         /\ \A x \in Id : /\ Vertex(m, x) => Onward(Rollup(m), x) = x
                          /\ LiveAlias(m)[x] # NoId => Onward(Rollup(m), x) = LiveAlias(m)[x]
<1>1. Rollup(m) \in Links
  BY StoreFields DEF Rollup, Links
<1>2. ASSUME NEW x \in Id, Vertex(m, x) PROVE Onward(Rollup(m), x) = x
  BY <1>2 DEF Rollup, Onward
<1>3. ASSUME NEW x \in Id, LiveAlias(m)[x] # NoId PROVE Onward(Rollup(m), x) = LiveAlias(m)[x]
  <2>1. x \in m.live /\ m.alias[x] # NoId /\ LiveAlias(m)[x] = m.alias[x]
    BY <1>3, LiveAliasIs
  <2> QED BY <2>1 DEF Rollup, Onward, Vertex
<1> QED BY <1>1, <1>2, <1>3

\* What is met on the way up along aliases and parents is drawn where its start is.
LEMMA DrawnAlong ==
  ASSUME NEW m \in Stores, NEW t \in Id, NEW j \in Nat
  PROVE  DrawnAt(m, Follow(Rollup(m), j, t)) = DrawnAt(m, t)
<1> DEFINE D == Rollup(m)
           N == Cardinality(Id)
           y == Follow(D, j, t)
<1>1. D \in Links /\ N \in Nat
  BY RollupIs, FS_CardinalityType, IndexAssumption
<1>2. \A x \in Id : Vertex(m, x) => Onward(D, x) = x
  BY RollupIs
<1> HIDE DEF D
<1>3. y \in Id
  BY <1>1, FollowIs
\* A vertex is where a walk stays.
<1>4. ASSUME NEW i \in Nat, NEW k \in Nat, i <= k, Vertex(m, Follow(D, i, t))
      PROVE  Follow(D, k, t) = Follow(D, i, t)
  <2> DEFINE S == {l \in Nat : Follow(D, i + l, t) = Follow(D, i, t)}
  <2>1. 0 \in S
    OBVIOUS
  <2>2. ASSUME NEW l \in S PROVE l + 1 \in S
    <3>1. i + l \in Nat /\ i + (l + 1) = (i + l) + 1
      OBVIOUS
    <3>2. Follow(D, (i + l) + 1, t) = Onward(D, Follow(D, i, t)) /\ Follow(D, i, t) \in Id
      BY <1>1, <3>1, FollowIs
    <3> QED BY <1>2, <1>4, <3>1, <3>2
  <2>3. S \in SUBSET Nat
    OBVIOUS
  <2> HIDE DEF S
  <2>4. k - i \in S
    BY <1>4, <2>1, <2>2, <2>3, NatClosed
  <2>5. i + (k - i) = k
    OBVIOUS
  <2> QED BY <2>4, <2>5 DEF S
<1>5. Follow(D, N, y) = Follow(D, j + N, t)
  BY <1>1, FollowOn
<1>6. CASE Vertex(m, Follow(D, N, t))
  <2>1. Follow(D, j + N, t) = Follow(D, N, t)
    BY <1>1, <1>4, <1>6
  <2> QED BY <1>5, <2>1 DEF DrawnAt, D, N
<1>7. CASE ~Vertex(m, Follow(D, N, t))
  <2>1. Follow(D, j + N, t) \in Chain(D, t)
    BY <1>1, ChainIs
  <2>2. PICK i \in 0..N : Follow(D, j + N, t) = Follow(D, i, t)
    BY <2>1 DEF Chain
  <2>3. ~Vertex(m, Follow(D, i, t))
    BY <1>1, <1>4, <1>7
  <2> QED BY <1>5, <1>7, <2>2, <2>3 DEF DrawnAt, D, N
<1> QED BY <1>6, <1>7

\* An alias walk is the start of one along aliases and parents.
LEMMA TerminalAlong ==
  ASSUME NEW m \in Stores, NEW t \in Id
  PROVE  \E j \in Nat : Terminal(m, t) = Follow(Rollup(m), j, t)
<1> DEFINE L == LiveAlias(m)
           D == Rollup(m)
           S == {k \in Nat : \E j \in Nat : Follow(L, k, t) = Follow(D, j, t)}
<1>1. L \in Links /\ D \in Links
  BY LiveAliasIs, RollupIs
<1>2. \A x \in Id : L[x] # NoId => Onward(D, x) = L[x]
  BY RollupIs
<1> HIDE DEF L, D
<1>3. 0 \in S
  BY <1>1, FollowIs
<1>4. ASSUME NEW k \in S PROVE k + 1 \in S
  <2>1. PICK j \in Nat : Follow(L, k, t) = Follow(D, j, t)
    OBVIOUS
  <2>2. /\ Follow(L, k + 1, t) = Onward(L, Follow(L, k, t)) /\ Follow(L, k, t) \in Id
        /\ Follow(D, j + 1, t) = Onward(D, Follow(D, j, t))
    BY <1>1, FollowIs
  <2>3. Follow(L, k + 1, t) \in {Follow(D, j, t), Follow(D, j + 1, t)}
    BY <1>2, <2>1, <2>2 DEF Onward
  <2>4. j + 1 \in Nat /\ k + 1 \in Nat
    OBVIOUS
  <2> QED BY <2>3, <2>4
<1>5. S \in SUBSET Nat
  OBVIOUS
<1> HIDE DEF S
<1>6. AliasCap \in S
  BY <1>3, <1>4, <1>5, NatClosed, IndexAssumption
<1> QED BY <1>6 DEF S, L, D, Terminal

LEMMA TypedGraphFollows == IndexTypeOK => GraphFollowsIndex
<1> SUFFICES ASSUME IndexTypeOK, NEW e \in store.edge, e.resolved = Terminal(store, e.target)
             PROVE  DrawnAt(store, e.target) = DrawnAt(store, e.resolved)
  BY DEF GraphFollowsIndex
<1>1. store \in Stores /\ e.target \in Id
  BY StoreFields DEF IndexTypeOK, EdgeRows
<1>2. PICK j \in Nat : Terminal(store, e.target) = Follow(Rollup(store), j, e.target)
  BY <1>1, TerminalAlong
<1> QED BY <1>1, <1>2, DrawnAlong

-----------------------------------------------------------------------------
(* What each operation on a store leaves, and what it writes *)

\* Everything but the index and the counts.
SameTables(m, r) ==
  /\ r.rows = m.rows /\ r.live = m.live /\ r.class = m.class /\ r.inline = m.inline
  /\ r.above = m.above /\ r.alias = m.alias /\ r.content = m.content /\ r.fields = m.fields
  /\ r.binned = m.binned /\ r.purged = m.purged

LEMMA UpIs ==
  ASSUME NEW m \in Stores, NEW n \in Id
  PROVE  Up(m, n) \subseteq Id /\ n \in Up(m, n)
BY ChainIs, StoreFields DEF Up

LEMMA EdgesFinite ==
  /\ IsFiniteSet(EdgeRows)
  /\ \A E \in SUBSET EdgeRows : IsFiniteSet(E)
<1> DEFINE T == (Id \X Kinds) \X (Id \X Id)
           f == [e \in EdgeRows |-> <<<<e.source, e.kind>>, <<e.target, e.resolved>>>>]
<1>1. IsFiniteSet(Kinds)
  <2>1. IsFiniteSet({"mention"}) /\ Kinds = {"mention"} \cup {"field"}
    BY FS_Singleton DEF Kinds
  <2> QED BY <2>1, FS_AddElement
<1>2. IsFiniteSet(T)
  <2>1. IsFiniteSet(Id \X Kinds) /\ IsFiniteSet(Id \X Id)
    BY <1>1, FS_Product, IndexAssumption
  <2> QED BY <2>1, FS_Product
<1>3. f \in [EdgeRows -> T]
  BY DEF EdgeRows
<1>4. \A a, b \in EdgeRows : f[a] = f[b] => a = b
  <2> SUFFICES ASSUME NEW a \in EdgeRows, NEW b \in EdgeRows, f[a] = f[b] PROVE a = b
    OBVIOUS
  <2>1. a.source = b.source /\ a.kind = b.kind /\ a.target = b.target /\ a.resolved = b.resolved
    OBVIOUS
  <2> QED BY <2>1 DEF EdgeRows
<1> HIDE DEF f, T
<1>5. f \in Injection(EdgeRows, T)
  BY <1>3, <1>4 DEF Injection, IsInjective
<1>6. IsFiniteSet(EdgeRows)
  BY <1>2, <1>5, FS_Injection
<1> QED BY <1>6, FS_Subset

LEMMA CountedIs ==
  ASSUME NEW m \in Stores, NEW n \in Id
  PROVE  Counted(m, n) \in [backlinks : Nat, references : Nat]
<1> DEFINE from == {e.source : e \in {x \in m.edge : x.target = n}}
           to == {e \in m.edge : e.source = n}
<1>1. m.edge \subseteq EdgeRows
  BY StoreFields
<1>2. from \in SUBSET Id
  BY <1>1 DEF EdgeRows
<1>3. to \in SUBSET EdgeRows
  BY <1>1
<1> HIDE DEF from, to
<1>4. Cardinality(from) \in Nat /\ Cardinality(to) \in Nat
  BY <1>2, <1>3, EdgesFinite, FS_Subset, FS_CardinalityType, IndexAssumption
<1> QED BY <1>4 DEF Counted, from, to

LEMMA RestatIs ==
  ASSUME NEW m \in Stores, NEW S \in SUBSET Id
  PROVE  /\ Restat(m, S) \in Stores
         /\ SameTables(m, Restat(m, S)) /\ Restat(m, S).edge = m.edge
         /\ \A n \in m.rows : Restat(m, S).stats[n] \in {m.stats[n], Counted(m, n)}
         /\ \A n \in m.rows \cap S : Restat(m, S).stats[n] = Counted(m, n)
<1> DEFINE all == UNION {Up(m, n) : n \in S}
           st == [n \in Id |-> IF n \notin all THEN m.stats[n]
                               ELSE IF n \in m.rows THEN Counted(m, n) ELSE NoStats]
<1>1. Restat(m, S) = [m EXCEPT !.stats = st]
  BY DEF Restat
<1>2. S \subseteq all
  BY UpIs
<1>3. st \in [Id -> [backlinks : Nat, references : Nat]]
  <2>1. NoStats \in [backlinks : Nat, references : Nat]
    BY DEF NoStats
  <2>2. \A n \in Id : Counted(m, n) \in [backlinks : Nat, references : Nat]
    BY CountedIs
  <2>3. \A n \in Id : m.stats[n] \in [backlinks : Nat, references : Nat]
    BY StoreFields
  <2> HIDE DEF all
  <2> QED BY <2>1, <2>2, <2>3
<1>4. \A n \in m.rows : n \in Id /\ st[n] \in {m.stats[n], Counted(m, n)} /\ (n \in S => st[n] = Counted(m, n))
  BY <1>2, StoreFields
<1> HIDE DEF st, all
<1>5. Restat(m, S) \in Stores /\ SameTables(m, Restat(m, S)) /\ Restat(m, S).edge = m.edge
  BY <1>1, <1>3 DEF Stores, SameTables
<1>6. Restat(m, S).stats = st
  BY <1>1 DEF Stores
<1> QED BY <1>4, <1>5, <1>6

\* The rows of n that its content and its fields ask for.
Asks(m, n, kind, t) ==
  (kind = "mention" /\ t \in m.content[n]) \/ (kind = "field" /\ t \in m.fields[n])

LEMMA DesiredIs ==
  ASSUME NEW m \in Stores, NEW n \in Id
  PROVE  /\ DesiredEdges(m, n) \subseteq EdgeRows
         /\ \A e \in EdgeRows : e \in DesiredEdges(m, n)
              <=> e.source = n /\ e.resolved = Terminal(m, e.target) /\ Asks(m, n, e.kind, e.target)
<1> DEFINE row(kind, t) == [source |-> n, kind |-> kind, target |-> t, resolved |-> Terminal(m, t)]
<1>1. m.content[n] \subseteq Id /\ m.fields[n] \subseteq Id
  BY StoreFields
<1>2. \A e : e \in DesiredEdges(m, n)
        <=> (\E t \in m.content[n] : e = row("mention", t)) \/ (\E t \in m.fields[n] : e = row("field", t))
  BY DEF DesiredEdges
<1>3. \A t \in Id, kind \in Kinds : row(kind, t) \in EdgeRows
  BY TerminalTyped DEF EdgeRows
<1>4. \A e \in EdgeRows : e.source = n /\ e.resolved = Terminal(m, e.target) => e = row(e.kind, e.target)
  BY DEF EdgeRows
<1>5. \A t \in Id, kind \in Kinds :
        row(kind, t).source = n /\ row(kind, t).kind = kind /\ row(kind, t).target = t
        /\ row(kind, t).resolved = Terminal(m, t)
  OBVIOUS
<1> HIDE DEF row
<1>6. "mention" \in Kinds /\ "field" \in Kinds
  BY DEF Kinds
<1>7. DesiredEdges(m, n) \subseteq EdgeRows
  BY <1>1, <1>2, <1>3, <1>6
<1>8. ASSUME NEW e \in EdgeRows, e \in DesiredEdges(m, n)
      PROVE  e.source = n /\ e.resolved = Terminal(m, e.target) /\ Asks(m, n, e.kind, e.target)
  BY <1>1, <1>2, <1>5, <1>6, <1>8 DEF Asks
<1>9. ASSUME NEW e \in EdgeRows, e.source = n, e.resolved = Terminal(m, e.target), Asks(m, n, e.kind, e.target)
      PROVE  e \in DesiredEdges(m, n)
  BY <1>2, <1>4, <1>9 DEF Asks
<1> QED BY <1>7, <1>8, <1>9

\* Two rows of one source, kind and target would be counted twice.
Keyed(m) ==
  \A d, e \in m.edge : d.source = e.source /\ d.kind = e.kind /\ d.target = e.target => d = e

\* d and e are the same row, resolved anew or not.
Twin(d, e) == d.source = e.source /\ d.kind = e.kind /\ d.target = e.target

LEMMA ReresolveIs ==
  ASSUME NEW m \in Stores, NEW S \in SUBSET Id
  PROVE  /\ Reresolve(m, S) \in Stores
         /\ SameTables(m, Reresolve(m, S)) /\ Reresolve(m, S).stats = m.stats
         /\ \A e \in EdgeRows : e \in Reresolve(m, S).edge
              <=> \E d \in m.edge : /\ Twin(d, e)
                                    /\ e.resolved = IF d.target \in AliasesOf(m, S)
                                                      THEN Terminal(m, d.target) ELSE d.resolved
<1> DEFINE moved == AliasesOf(m, S)
           new(e) == IF e.target \in moved THEN [e EXCEPT !.resolved = Terminal(m, e.target)] ELSE e
           E == {new(e) : e \in m.edge}
<1>1. Reresolve(m, S) = [m EXCEPT !.edge = E]
  BY DEF Reresolve
<1>2. m.edge \subseteq EdgeRows
  BY StoreFields
<1>3. \A d \in EdgeRows : Terminal(m, d.target) \in Id
  BY TerminalTyped DEF EdgeRows
<1>4. \A d \in m.edge : new(d) \in EdgeRows
  BY <1>2, <1>3 DEF EdgeRows
<1>5. \A d \in m.edge : Twin(d, new(d)) /\ new(d).resolved = IF d.target \in moved THEN Terminal(m, d.target) ELSE d.resolved
  BY <1>2 DEF EdgeRows, Twin
<1>6. \A d, e \in EdgeRows : Twin(d, e) /\ d.resolved = e.resolved => d = e
  BY DEF EdgeRows, Twin
<1>7. E \subseteq EdgeRows
  BY <1>4
<1>8. \A e : e \in E <=> \E d \in m.edge : e = new(d)
  OBVIOUS
<1> HIDE DEF new, E, moved
<1>9. ASSUME NEW e \in EdgeRows, NEW d \in m.edge, Twin(d, e),
             e.resolved = IF d.target \in moved THEN Terminal(m, d.target) ELSE d.resolved
      PROVE  e = new(d)
  <2>1. Twin(new(d), e) /\ new(d).resolved = e.resolved
    BY <1>5, <1>9 DEF Twin
  <2> QED BY <1>4, <1>6, <2>1
<1>10. \A e \in EdgeRows : e \in E <=> \E d \in m.edge : /\ Twin(d, e)
                                    /\ e.resolved = IF d.target \in moved THEN Terminal(m, d.target) ELSE d.resolved
  BY <1>5, <1>8, <1>9
<1>11. /\ Reresolve(m, S) \in Stores
       /\ SameTables(m, Reresolve(m, S)) /\ Reresolve(m, S).stats = m.stats
       /\ Reresolve(m, S).edge = E
  BY <1>1, <1>7 DEF Stores, SameTables
<1> QED BY <1>10, <1>11 DEF moved

LEMMA RebuildIs ==
  ASSUME NEW m \in Stores, NEW n \in Id
  PROVE  /\ Rebuild(m, n) \in Stores /\ SameTables(m, Rebuild(m, n))
         /\ Rebuild(m, n).edge = {e \in m.edge : e.source # n} \cup DesiredEdges(m, n)
         /\ \A x \in m.rows : Rebuild(m, n).stats[x] \in {m.stats[x], Counted(Rebuild(m, n), x)}
         /\ \A x \in m.rows :
              (x = n \/ \E e \in m.edge \cup DesiredEdges(m, n) : e.source = n /\ e.target = x)
                => Rebuild(m, n).stats[x] = Counted(Rebuild(m, n), x)
<1> DEFINE old == {e \in m.edge : e.source = n}
           new == DesiredEdges(m, n)
           E == (m.edge \ old) \cup new
           m1 == [m EXCEPT !.edge = E]
           S == {n} \cup {e.target : e \in old \cup new}
<1>1. Rebuild(m, n) = Restat(m1, S)
  BY DEF Rebuild
<1>2. m.edge \subseteq EdgeRows /\ new \subseteq EdgeRows
  BY StoreFields, DesiredIs
<1>3. E \subseteq EdgeRows /\ S \in SUBSET Id
  BY <1>2 DEF EdgeRows
<1>4. E = {e \in m.edge : e.source # n} \cup DesiredEdges(m, n)
  OBVIOUS
<1>5. \A x : (x = n \/ \E e \in m.edge \cup DesiredEdges(m, n) : e.source = n /\ e.target = x) => x \in S
  BY <1>2, DesiredIs
<1> HIDE DEF E, S
<1>6. m1 \in Stores /\ SameTables(m, m1) /\ m1.edge = E /\ m1.stats = m.stats
  BY <1>3 DEF Stores, SameTables
<1> HIDE DEF m1
<1> DEFINE r == Restat(m1, S)
<1>7. /\ r \in Stores /\ SameTables(m1, r) /\ r.edge = m1.edge
      /\ \A x \in m1.rows : r.stats[x] \in {m1.stats[x], Counted(m1, x)}
      /\ \A x \in m1.rows \cap S : r.stats[x] = Counted(m1, x)
  BY <1>3, <1>6, RestatIs
<1> HIDE DEF r
<1>8. \A x : Counted(m1, x) = Counted(r, x)
  BY <1>7 DEF Counted
<1>9. SameTables(m, r) /\ m1.rows = m.rows
  BY <1>6, <1>7 DEF SameTables
<1>10. Rebuild(m, n) = r
  BY <1>1 DEF r
<1> QED BY <1>4, <1>5, <1>6, <1>7, <1>8, <1>9, <1>10

-----------------------------------------------------------------------------
(* Current rows and right counts *)

Current(m, n) == {e \in m.edge : e.source = n} = (IF n \in m.rows THEN DesiredEdges(m, n) ELSE {})
Right(m, n) == m.stats[n] = Counted(m, n)

LEMMA CurrentIs ==
  ASSUME NEW m \in Stores, NEW n \in Id
  PROVE  Current(m, n)
           <=> IF n \in m.rows
                 THEN \A e \in EdgeRows : e.source = n =>
                        (e \in m.edge <=> e.resolved = Terminal(m, e.target) /\ Asks(m, n, e.kind, e.target))
                 ELSE \A e \in m.edge : e.source # n
<1>1. m.edge \subseteq EdgeRows
  BY StoreFields
<1>2. /\ DesiredEdges(m, n) \subseteq EdgeRows
      /\ \A e \in EdgeRows : e \in DesiredEdges(m, n)
              <=> e.source = n /\ e.resolved = Terminal(m, e.target) /\ Asks(m, n, e.kind, e.target)
  BY DesiredIs
<1> QED BY <1>1, <1>2 DEF Current

\* The links differ on S at most.
SameLinks(m, r, S) == \A x \in Id \ S : LiveAlias(r)[x] = LiveAlias(m)[x]

LEMMA SameTerminal ==
  ASSUME NEW m \in Stores, NEW r \in Stores, NEW S, SameLinks(m, r, S),
         NEW t \in Id, t \notin AliasesOf(r, S)
  PROVE  Terminal(r, t) = Terminal(m, t)
<1> DEFINE L == LiveAlias(m)
           M == LiveAlias(r)
           T == {k \in Nat : Follow(M, k, t) = Follow(L, k, t)}
<1>1. L \in Links /\ M \in Links
  BY LiveAliasIs
<1>2. \A x \in Id \ S : M[x] = L[x]
  BY DEF SameLinks
<1>3. Chain(M, t) \cap S = {}
  BY DEF AliasesOf
<1> HIDE DEF L, M
<1>4. 0 \in T
  BY <1>1, FollowIs
<1>5. ASSUME NEW k \in T PROVE k + 1 \in T
  <2>1. k \in Nat /\ k + 1 \in Nat /\ Follow(M, k, t) = Follow(L, k, t)
    OBVIOUS
  <2>2. Follow(M, k, t) \in Id /\ Follow(M, k, t) \notin S
    BY <1>1, <1>3, <2>1, ChainIs, FollowIs
  <2>3. /\ Follow(M, k + 1, t) = Onward(M, Follow(M, k, t))
        /\ Follow(L, k + 1, t) = Onward(L, Follow(L, k, t))
    BY <1>1, <2>1, FollowIs
  <2>4. Follow(M, k + 1, t) = Follow(L, k + 1, t)
    BY <1>2, <2>1, <2>2, <2>3 DEF Onward
  <2> QED BY <2>1, <2>4
<1>6. T \in SUBSET Nat
  OBVIOUS
<1> HIDE DEF T
<1>7. AliasCap \in T
  BY <1>4, <1>5, <1>6, NatClosed, IndexAssumption
<1> QED BY <1>7 DEF T, L, M, Terminal

\* n asks for the same rows and has the same ones.
SameSource(m, r, n) ==
  /\ n \in r.rows <=> n \in m.rows
  /\ n \in m.rows => r.content[n] = m.content[n] /\ r.fields[n] = m.fields[n]
  /\ \A e \in EdgeRows : e.source = n => (e \in r.edge <=> e \in m.edge)

LEMMA CurrentCarries ==
  ASSUME NEW m \in Stores, NEW r \in Stores, NEW n \in Id, Current(m, n),
         SameLinks(m, r, {}), SameSource(m, r, n)
  PROVE  Current(r, n)
<1>1. \A t \in Id : Terminal(r, t) = Terminal(m, t)
  <2>1. AliasesOf(r, {}) = {}
    BY DEF AliasesOf
  <2> HIDE DEF AliasesOf
  <2> QED BY <2>1, SameTerminal
<1>2. \A e \in EdgeRows : e.target \in Id
  BY DEF EdgeRows
<1>3. m.edge \subseteq EdgeRows /\ r.edge \subseteq EdgeRows
  BY StoreFields
<1>4. CASE n \in m.rows
  <2>1. \A e \in EdgeRows : Asks(r, n, e.kind, e.target) <=> Asks(m, n, e.kind, e.target)
    BY <1>4 DEF Asks, SameSource
  <2> QED BY <1>1, <1>2, <1>3, <1>4, <2>1, CurrentIs DEF SameSource
<1>5. CASE n \notin m.rows
  BY <1>3, <1>5, CurrentIs DEF SameSource
<1> QED BY <1>4, <1>5

\* Whatever changes the links of S, resolving the chains into S anew keeps rows current.
LEMMA ReresolveKeeps ==
  ASSUME NEW m \in Stores, NEW r \in Stores, NEW S \in SUBSET Id, NEW n \in Id, Current(m, n),
         SameLinks(m, r, S), SameSource(m, r, n)
  PROVE  Current(Reresolve(r, S), n)
<1> DEFINE q == Reresolve(r, S)
           moved == AliasesOf(r, S)
<1>1. /\ q \in Stores /\ SameTables(r, q)
      /\ \A e \in EdgeRows : e \in q.edge
            <=> \E d \in r.edge : /\ Twin(d, e)
                                  /\ e.resolved = IF d.target \in moved
                                                    THEN Terminal(r, d.target) ELSE d.resolved
  BY ReresolveIs
<1>2. \A t \in Id : Terminal(q, t) = Terminal(r, t)
  <2>1. LiveAlias(q) = LiveAlias(r)
    BY <1>1 DEF LiveAlias, SameTables
  <2> QED BY <2>1 DEF Terminal
<1>3. \A t \in Id \ moved : Terminal(r, t) = Terminal(m, t)
  BY SameTerminal
<1> HIDE DEF q, moved
<1>4. m.edge \subseteq EdgeRows /\ r.edge \subseteq EdgeRows /\ q.edge \subseteq EdgeRows
  BY <1>1, StoreFields
<1>5. q.rows = r.rows /\ q.content = r.content /\ q.fields = r.fields
  BY <1>1 DEF SameTables
<1>6. CASE n \notin m.rows
  <2>1. \A e \in m.edge : e.source # n
    BY <1>6, CurrentIs
  <2>2. \A e \in q.edge : e.source # n
    BY <1>1, <1>4, <2>1 DEF SameSource, Twin
  <2> QED BY <1>1, <1>5, <1>6, <2>2, CurrentIs DEF SameSource, q
<1>7. CASE n \in m.rows
  <2>1. \A e \in EdgeRows : e.source = n =>
          (e \in m.edge <=> e.resolved = Terminal(m, e.target) /\ Asks(m, n, e.kind, e.target))
    BY <1>7, CurrentIs
  <2>2. \A k, t : Asks(q, n, k, t) <=> Asks(m, n, k, t)
    BY <1>5, <1>7 DEF Asks, SameSource
  <2>3. ASSUME NEW e \in EdgeRows, e.source = n, e \in q.edge
        PROVE  e.resolved = Terminal(q, e.target) /\ Asks(q, n, e.kind, e.target)
    <3>1. PICK d \in r.edge : /\ Twin(d, e)
                              /\ e.resolved = IF d.target \in moved THEN Terminal(r, d.target) ELSE d.resolved
      BY <1>1, <2>3
    <3>2. d \in EdgeRows /\ d.source = n /\ d \in m.edge /\ d.target \in Id
      BY <1>4, <2>3, <3>1 DEF Twin, SameSource, EdgeRows
    <3>3. d.resolved = Terminal(m, d.target) /\ Asks(m, n, d.kind, d.target)
      BY <2>1, <3>2
    <3>4. e.target = d.target /\ e.kind = d.kind
      BY <3>1 DEF Twin
    <3>5. e.resolved = Terminal(r, d.target)
      BY <1>3, <3>1, <3>2, <3>3
    <3> QED BY <1>2, <2>2, <3>2, <3>3, <3>4, <3>5
  <2>4. ASSUME NEW e \in EdgeRows, e.source = n, e.resolved = Terminal(q, e.target), Asks(q, n, e.kind, e.target)
        PROVE  e \in q.edge
    <3> DEFINE d == [source |-> n, kind |-> e.kind, target |-> e.target, resolved |-> Terminal(m, e.target)]
    <3>1. e.target \in Id /\ e.kind \in Kinds
      BY DEF EdgeRows
    <3>2. d \in EdgeRows
      BY <3>1, TerminalTyped DEF EdgeRows
    <3>3. d.source = n /\ d.kind = e.kind /\ d.target = e.target /\ d.resolved = Terminal(m, e.target)
      OBVIOUS
    <3> HIDE DEF d
    <3>4. d \in r.edge /\ Twin(d, e)
      BY <2>1, <2>2, <2>4, <3>2, <3>3 DEF SameSource, Twin
    <3>5. e.resolved = IF d.target \in moved THEN Terminal(r, d.target) ELSE d.resolved
      BY <1>2, <1>3, <2>4, <3>1, <3>3
    <3> QED BY <1>1, <3>4, <3>5
  <2>5. n \in q.rows /\ q \in Stores
    BY <1>1, <1>5, <1>7 DEF SameSource, q
  <2>6. Current(q, n)
    BY <2>3, <2>4, <2>5, CurrentIs
  <2> QED BY <2>6 DEF q
<1> QED BY <1>6, <1>7

\* A rebuild makes its own source current and leaves the others'.
LEMMA RebuildKeeps ==
  ASSUME NEW m \in Stores, NEW r \in Stores, NEW x \in Id, NEW n \in Id, x \in r.rows,
         SameLinks(m, r, {}),
         n # x => Current(m, n) /\ SameSource(m, r, n)
  PROVE  Current(Rebuild(r, x), n)
<1> DEFINE q == Rebuild(r, x)
<1>1. /\ q \in Stores /\ SameTables(r, q)
      /\ q.edge = {e \in r.edge : e.source # x} \cup DesiredEdges(r, x)
  BY RebuildIs
<1>2. LiveAlias(q) = LiveAlias(r)
  BY <1>1 DEF LiveAlias, SameTables
<1>3. DesiredEdges(r, x) \subseteq EdgeRows /\ \A e \in DesiredEdges(r, x) : e.source = x
  BY DesiredIs
<1> HIDE DEF q
<1>4. CASE n = x
  <2>1. {e \in q.edge : e.source = x} = DesiredEdges(r, x)
    BY <1>1, <1>3
  <2>2. DesiredEdges(q, x) = DesiredEdges(r, x) /\ q.rows = r.rows
    BY <1>1, <1>2 DEF DesiredEdges, Terminal, SameTables
  <2> QED BY <1>4, <2>1, <2>2 DEF Current, q
<1>5. CASE n # x
  <2>1. \A e \in EdgeRows : e.source = n => (e \in q.edge <=> e \in r.edge)
    BY <1>1, <1>3, <1>5
  <2>2. SameSource(m, q, n)
    BY <1>1, <1>5, <2>1 DEF SameSource, SameTables
  <2>3. SameLinks(m, q, {})
    BY <1>2 DEF SameLinks
  <2> QED BY <1>1, <1>5, <2>2, <2>3, CurrentCarries DEF q
<1> QED BY <1>4, <1>5

-----------------------------------------------------------------------------
LEMMA ReresolveTwins ==
  ASSUME NEW m \in Stores, NEW S \in SUBSET Id
  PROVE  /\ \A d \in m.edge : \E e \in Reresolve(m, S).edge : Twin(d, e)
         /\ \A e \in Reresolve(m, S).edge : \E d \in m.edge : Twin(d, e)
         /\ Keyed(m) => Keyed(Reresolve(m, S))
<1> DEFINE q == Reresolve(m, S)
           moved == AliasesOf(m, S)
<1>1. /\ q \in Stores
      /\ \A e \in EdgeRows : e \in q.edge
            <=> \E d \in m.edge : /\ Twin(d, e)
                                  /\ e.resolved = IF d.target \in moved
                                                    THEN Terminal(m, d.target) ELSE d.resolved
  BY ReresolveIs
<1> HIDE DEF q, moved
<1>2. m.edge \subseteq EdgeRows /\ q.edge \subseteq EdgeRows
  BY <1>1, StoreFields
<1>3. ASSUME NEW d \in m.edge PROVE \E e \in q.edge : Twin(d, e)
  <2> DEFINE to == IF d.target \in moved THEN Terminal(m, d.target) ELSE d.resolved
             e == [source |-> d.source, kind |-> d.kind, target |-> d.target, resolved |-> to]
  <2>1. d.source \in Id /\ d.kind \in Kinds /\ d.target \in Id /\ d.resolved \in Id
    BY <1>2 DEF EdgeRows
  <2>2. to \in Id
    BY <2>1, TerminalTyped
  <2> HIDE DEF to
  <2>3. e \in EdgeRows /\ Twin(d, e) /\ e.resolved = to
    BY <2>1, <2>2 DEF EdgeRows, Twin
  <2> HIDE DEF e
  <2> QED BY <1>1, <2>3 DEF to
<1>4. \A e \in q.edge : \E d \in m.edge : /\ Twin(d, e)
                                          /\ e.resolved = IF d.target \in moved
                                                    THEN Terminal(m, d.target) ELSE d.resolved
  BY <1>1, <1>2
<1>5. ASSUME Keyed(m), NEW a \in q.edge, NEW b \in q.edge, Twin(a, b) PROVE a = b
  <2>1. PICK c \in m.edge : Twin(c, a) /\ a.resolved = IF c.target \in moved THEN Terminal(m, c.target) ELSE c.resolved
    BY <1>4
  <2>2. PICK d \in m.edge : Twin(d, b) /\ b.resolved = IF d.target \in moved THEN Terminal(m, d.target) ELSE d.resolved
    BY <1>4
  <2>3. c = d
    BY <1>5, <2>1, <2>2 DEF Keyed, Twin
  <2>4. a.resolved = b.resolved
    BY <2>1, <2>2, <2>3
  <2> QED BY <1>2, <1>5, <2>4 DEF Twin, EdgeRows
<1>6. Keyed(m) => Keyed(q)
  BY <1>5 DEF Keyed, Twin
<1> QED BY <1>3, <1>4, <1>6 DEF q

LEMMA ReresolveCounts ==
  ASSUME NEW m \in Stores, Keyed(m), NEW S \in SUBSET Id, NEW n \in Id
  PROVE  Counted(Reresolve(m, S), n) = Counted(m, n)
<1> DEFINE q == Reresolve(m, S)
           A == {e \in m.edge : e.source = n}
           B == {e \in q.edge : e.source = n}
           f == [d \in A |-> CHOOSE e \in q.edge : Twin(d, e)]
<1>1. /\ \A d \in m.edge : \E e \in q.edge : Twin(d, e)
      /\ \A e \in q.edge : \E d \in m.edge : Twin(d, e)
      /\ Keyed(q)
  BY ReresolveTwins
<1> HIDE DEF q
<1>2. {e.source : e \in {x \in q.edge : x.target = n}} = {e.source : e \in {x \in m.edge : x.target = n}}
  BY <1>1 DEF Twin
<1>3. \A d \in A : f[d] \in q.edge /\ Twin(d, f[d])
  BY <1>1
<1> HIDE DEF f
<1>4. \A d \in A : f[d] \in B
  BY <1>3 DEF Twin
<1>5. f \in [A -> B]
  BY <1>4 DEF f
<1>6. \A c, d \in A : f[c] = f[d] => c = d
  BY <1>3 DEF Twin, Keyed
<1>7. ASSUME NEW e \in B PROVE \E d \in A : f[d] = e
  <2>1. PICK d \in m.edge : Twin(d, e)
    BY <1>1
  <2>2. d \in A
    BY <2>1 DEF Twin
  <2>3. f[d] = e
    BY <1>1, <1>3, <2>1, <2>2 DEF Twin, Keyed
  <2> QED BY <2>2, <2>3
<1>8. A \in SUBSET EdgeRows
  BY StoreFields
<1> HIDE DEF A, B
<1>9. f \in Bijection(A, B)
  BY <1>5, <1>6, <1>7 DEF Bijection, Injection, Surjection, IsInjective
<1>10. ExistsBijection(A, B)
  BY <1>9 DEF ExistsBijection
<1>11. Cardinality(B) = Cardinality(A)
  BY <1>8, <1>10, EdgesFinite, FS_Bijection
<1> QED BY <1>2, <1>11 DEF Counted, A, B, q

\* Rows of other sources and to other targets do not count.
LEMMA CountedSame ==
  ASSUME NEW m \in Stores, NEW r \in Stores, NEW n \in Id,
         \A e \in EdgeRows : e.source = n \/ e.target = n => (e \in r.edge <=> e \in m.edge)
  PROVE  Counted(r, n) = Counted(m, n)
<1>1. m.edge \subseteq EdgeRows /\ r.edge \subseteq EdgeRows
  BY StoreFields
<1>2. {x \in r.edge : x.target = n} = {x \in m.edge : x.target = n}
  BY <1>1
<1>3. {x \in r.edge : x.source = n} = {x \in m.edge : x.source = n}
  BY <1>1
<1> QED BY <1>2, <1>3 DEF Counted

-----------------------------------------------------------------------------
(* The invariant, and what a step keeps of the index *)

\* An id without a row is no alias and asks for nothing.
Bare(m) == \A n \in Id \ m.rows : m.alias[n] = NoId /\ m.content[n] = {} /\ m.fields[n] = {}

Whole(m) == m \in Stores /\ Keyed(m) /\ Bare(m)

\* From m to r rows stay current but for those of A, counts right but for those of B.
Keeps(m, r, A, B) ==
  /\ Whole(r)
  /\ \A n \in Id \ A : Current(m, n) => Current(r, n)
  /\ \A n \in r.rows \ B : (n \in m.rows => Right(m, n)) => Right(r, n)

LEMMA RebuildAll ==
  ASSUME NEW m, Whole(m), NEW r \in Stores, Bare(r), r.edge = m.edge, r.stats = m.stats,
         SameLinks(m, r, {}), NEW x \in r.rows, r.rows \subseteq m.rows \cup {x},
         \A n \in Id \ {x} : SameSource(m, r, n)
  PROVE  Keeps(m, Rebuild(r, x), {}, {})
<1> DEFINE q == Rebuild(r, x)
<1>0. m \in Stores /\ Keyed(m) /\ x \in Id /\ r.rows \subseteq Id
  BY StoreFields DEF Whole
<1>1. /\ q \in Stores /\ SameTables(r, q)
      /\ q.edge = {e \in r.edge : e.source # x} \cup DesiredEdges(r, x)
      /\ \A n \in r.rows : q.stats[n] \in {r.stats[n], Counted(q, n)}
      /\ \A n \in r.rows :
              (n = x \/ \E e \in r.edge \cup DesiredEdges(r, x) : e.source = x /\ e.target = n)
                => q.stats[n] = Counted(q, n)
  BY <1>0, RebuildIs
<1>2. \A n \in Id : Current(m, n) => Current(q, n)
  BY <1>0, RebuildKeeps
<1> HIDE DEF q
<1>3. /\ DesiredEdges(r, x) \subseteq EdgeRows
      /\ \A e \in DesiredEdges(r, x) : e.source = x /\ e.resolved = Terminal(r, e.target)
  BY <1>0, DesiredIs
<1>4. Keyed(q)
  <2> SUFFICES ASSUME NEW d \in q.edge, NEW e \in q.edge, d.source = e.source, d.kind = e.kind, d.target = e.target
               PROVE  d = e
    BY DEF Keyed
  <2>1. CASE d.source = x
    <3>1. d \in DesiredEdges(r, x) /\ e \in DesiredEdges(r, x)
      BY <1>1, <2>1
    <3>2. d.resolved = e.resolved /\ d \in EdgeRows /\ e \in EdgeRows
      BY <1>3, <3>1
    <3> QED BY <3>2 DEF EdgeRows
  <2>2. CASE d.source # x
    <3>1. d \in m.edge /\ e \in m.edge
      BY <1>1, <1>3, <2>2
    <3> QED BY <1>0, <3>1 DEF Keyed
  <2> QED BY <2>1, <2>2
<1>5. Bare(q) /\ q.rows = r.rows
  BY <1>1 DEF Bare, SameTables
<1>6. ASSUME NEW n \in r.rows, n \in m.rows => Right(m, n) PROVE Right(q, n)
  <2>1. CASE n = x \/ \E e \in r.edge \cup DesiredEdges(r, x) : e.source = x /\ e.target = n
    BY <1>1, <2>1 DEF Right
  <2>2. CASE ~(n = x \/ \E e \in r.edge \cup DesiredEdges(r, x) : e.source = x /\ e.target = n)
    <3>1. \A e \in EdgeRows : e.source = n \/ e.target = n => (e \in q.edge <=> e \in m.edge)
      BY <1>1, <1>3, <2>2
    <3>2. Counted(q, n) = Counted(m, n)
      BY <1>0, <1>1, <3>1, CountedSame
    <3>3. m.stats[n] = Counted(m, n)
      BY <1>6, <2>2 DEF Right
    <3> QED BY <1>1, <3>2, <3>3 DEF Right
  <2> QED BY <2>1, <2>2
<1> QED BY <1>1, <1>2, <1>4, <1>5, <1>6 DEF Keeps, Whole, q

\* A source without a row is current when it has no edges.
LEMMA ReresolveGone ==
  ASSUME NEW r \in Stores, NEW S \in SUBSET Id, NEW n \in Id, n \notin r.rows, \A e \in r.edge : e.source # n
  PROVE  Current(Reresolve(r, S), n)
<1>1. Reresolve(r, S) \in Stores /\ n \notin Reresolve(r, S).rows
  BY ReresolveIs DEF SameTables
<1>2. \A e \in Reresolve(r, S).edge : e.source # n
  BY ReresolveTwins DEF Twin
<1> QED BY <1>1, <1>2, CurrentIs

LEMMA ReresolveAll ==
  ASSUME NEW m, Whole(m), NEW r \in Stores, Bare(r), Keyed(r), NEW S \in SUBSET Id, SameLinks(m, r, S),
         \A n \in Id : SameSource(m, r, n) \/ (n \notin r.rows /\ \A e \in r.edge : e.source # n),
         NEW B, \A n \in r.rows \ B : (n \in m.rows => Right(m, n)) => Right(r, n)
  PROVE  Keeps(m, Reresolve(r, S), {}, B)
<1> DEFINE q == Reresolve(r, S)
<1>1. q \in Stores /\ SameTables(r, q) /\ q.stats = r.stats
  BY ReresolveIs
<1>2. Keyed(q)
  BY ReresolveTwins
<1>3. \A n \in Id : Counted(q, n) = Counted(r, n)
  BY ReresolveCounts
<1>4. \A n \in Id : Current(m, n) => Current(q, n)
  BY ReresolveKeeps, ReresolveGone DEF Whole
<1> HIDE DEF q
<1>5. q.rows = r.rows /\ Bare(q) /\ r.rows \subseteq Id
  BY <1>1, StoreFields DEF SameTables, Bare
<1>6. \A n \in r.rows : Right(r, n) => Right(q, n)
  BY <1>1, <1>3, <1>5 DEF Right
<1> QED BY <1>1, <1>2, <1>4, <1>5, <1>6 DEF Keeps, Whole, q

LEMMA RestatAll ==
  ASSUME NEW m, NEW r, NEW A, NEW B, Keeps(m, r, A, B), NEW S \in SUBSET Id, r.rows \cap B \subseteq S
  PROVE  Keeps(m, Restat(r, S), A, {})
<1> DEFINE q == Restat(r, S)
<1>0. r \in Stores /\ r.rows \subseteq Id
  BY StoreFields DEF Keeps, Whole
<1>1. /\ q \in Stores /\ SameTables(r, q) /\ q.edge = r.edge
      /\ \A n \in r.rows : q.stats[n] \in {r.stats[n], Counted(r, n)}
      /\ \A n \in r.rows \cap S : q.stats[n] = Counted(r, n)
  BY <1>0, RestatIs
<1> HIDE DEF q
<1>2. \A n \in Id : DesiredEdges(q, n) = DesiredEdges(r, n) /\ Counted(q, n) = Counted(r, n)
  <2>1. LiveAlias(q) = LiveAlias(r)
    BY <1>1 DEF LiveAlias, SameTables
  <2> QED BY <1>1, <2>1 DEF DesiredEdges, Terminal, Counted, SameTables
<1>3. \A n \in Id : Current(r, n) => Current(q, n)
  BY <1>1, <1>2 DEF Current, SameTables
<1>4. Whole(q) /\ q.rows = r.rows
  BY <1>1 DEF Whole, Keyed, Bare, SameTables, Keeps
<1>5. ASSUME NEW n \in r.rows, n \in m.rows => Right(m, n) PROVE Right(q, n)
  <2>1. CASE n \in S
    BY <1>0, <1>1, <1>2, <2>1 DEF Right
  <2>2. CASE n \notin S
    <3>1. Right(r, n)
      BY <1>5, <2>2 DEF Keeps
    <3> QED BY <1>0, <1>1, <1>2, <3>1 DEF Right
  <2> QED BY <2>1, <2>2
<1> QED BY <1>3, <1>4, <1>5 DEF Keeps, q

LEMMA PurgeAll ==
  ASSUME NEW m, Whole(m), NEW R \in SUBSET Id, NEW kept \in SUBSET Id
  PROVE  Keeps(m, Purge(m, R, kept), {}, {})
<1> DEFINE ids == UNION {Below(m, n) : n \in R}
           lost == {e.target : e \in {x \in m.edge : x.source \in ids}}
           ups == UNION {Up(m, n) : n \in R}
           S == (ups \cup lost) \ ids
           r == Without(m, ids, kept)
<1>0. /\ m \in Stores /\ Keyed(m) /\ Bare(m) /\ m.rows \subseteq Id
      /\ m.edge \subseteq EdgeRows
  BY StoreFields DEF Whole
<1>1. ids \in SUBSET Id
  BY <1>0 DEF Below
<1>2. S \in SUBSET Id
  <2>1. ups \in SUBSET Id
    BY <1>0, UpIs
  <2>2. lost \in SUBSET Id
    BY <1>0 DEF EdgeRows
  <2> QED BY <2>1, <2>2
<1>3. \A e \in m.edge : e.source \in ids => e.target \in lost
  OBVIOUS
<1>4. \A x \in lost : x \notin ids => x \in S
  OBVIOUS
<1>5. Purge(m, R, kept) = Restat(Reresolve(r, ids), S)
  BY DEF Purge
<1> HIDE DEF ids, lost, ups, S
<1>6. /\ r \in Stores /\ r.rows = m.rows \ ids /\ r.live = m.live \ ids
      /\ r.edge = {e \in m.edge : e.source \notin ids}
      /\ \A x \in Id : /\ r.alias[x] = IF x \in ids THEN NoId ELSE m.alias[x]
                       /\ r.content[x] = IF x \in ids THEN {} ELSE m.content[x]
                       /\ r.fields[x] = IF x \in ids THEN {} ELSE m.fields[x]
                       /\ r.stats[x] = IF x \in ids THEN NoStats ELSE m.stats[x]
  <2> DEFINE above == [x \in Id |-> IF x \in ids THEN NoId ELSE m.above[x]]
             alias == [x \in Id |-> IF x \in ids THEN NoId ELSE m.alias[x]]
             content == [x \in Id |-> IF x \in ids THEN {} ELSE m.content[x]]
             fields == [x \in Id |-> IF x \in ids THEN {} ELSE m.fields[x]]
             stats == [x \in Id |-> IF x \in ids THEN NoStats ELSE m.stats[x]]
             edge == {e \in m.edge : e.source \notin ids}
  <2>1. above \in Links /\ alias \in Links
    BY <1>0, StoreFields DEF Links
  <2>2. content \in [Id -> SUBSET Id] /\ fields \in [Id -> SUBSET Id]
    BY <1>0, StoreFields
  <2>3. stats \in [Id -> [backlinks : Nat, references : Nat]]
    <3>1. NoStats \in [backlinks : Nat, references : Nat]
      BY DEF NoStats
    <3> QED BY <1>0, <3>1, StoreFields
  <2>4. edge \in SUBSET EdgeRows
    BY <1>0
  <2>5. r = [m EXCEPT !.rows = m.rows \ ids, !.live = m.live \ ids, !.class = m.class \ ids,
                      !.inline = m.inline \ ids, !.above = above, !.alias = alias, !.content = content,
                      !.fields = fields, !.binned = m.binned \ ids, !.purged = (m.purged \ ids) \cup kept,
                      !.edge = edge, !.stats = stats]
    BY DEF Without
  <2>6. \A x \in Id : /\ alias[x] = IF x \in ids THEN NoId ELSE m.alias[x]
                      /\ content[x] = IF x \in ids THEN {} ELSE m.content[x]
                      /\ fields[x] = IF x \in ids THEN {} ELSE m.fields[x]
                      /\ stats[x] = IF x \in ids THEN NoStats ELSE m.stats[x]
    OBVIOUS
  <2> HIDE DEF above, alias, content, fields, stats, r
  <2>7. r \in Stores
    BY <1>0, <2>1, <2>2, <2>3, <2>4, <2>5 DEF Stores
  <2>8. /\ r.rows = m.rows \ ids /\ r.live = m.live \ ids /\ r.edge = edge
        /\ r.alias = alias /\ r.content = content /\ r.fields = fields /\ r.stats = stats
    BY <1>0, <2>5 DEF Stores
  <2> QED BY <2>6, <2>7, <2>8
<1> HIDE DEF r
<1>7. Bare(r) /\ Keyed(r)
  BY <1>0, <1>6 DEF Bare, Keyed
<1>8. SameLinks(m, r, ids)
  BY <1>0, <1>6, LiveAliasIs DEF SameLinks
<1>9. ASSUME NEW n \in Id
      PROVE  SameSource(m, r, n) \/ (n \notin r.rows /\ \A e \in r.edge : e.source # n)
  <2>1. CASE n \in ids
    BY <1>6, <2>1
  <2>2. CASE n \notin ids
    BY <1>6, <2>2 DEF SameSource
  <2> QED BY <2>1, <2>2
<1>10. ASSUME NEW n \in r.rows, n \notin lost, n \in m.rows => Right(m, n) PROVE Right(r, n)
  <2>1. n \in Id /\ n \in m.rows /\ n \notin ids
    BY <1>0, <1>6
  <2>2. \A e \in EdgeRows : e.source = n \/ e.target = n => (e \in r.edge <=> e \in m.edge)
    BY <1>3, <1>6, <1>10, <2>1
  <2>3. Counted(r, n) = Counted(m, n)
    BY <1>0, <1>6, <2>1, <2>2, CountedSame
  <2> QED BY <1>6, <1>10, <2>1, <2>3 DEF Right
<1>11. Keeps(m, Reresolve(r, ids), {}, lost)
  BY <1>1, <1>6, <1>7, <1>8, <1>9, <1>10, ReresolveAll
<1>12. Reresolve(r, ids).rows \cap lost \subseteq S
  <2>1. Reresolve(r, ids).rows = r.rows
    BY <1>1, <1>6, ReresolveIs DEF SameTables
  <2> QED BY <1>4, <1>6, <2>1
<1>13. Keeps(m, Restat(Reresolve(r, ids), S), {}, {})
  BY <1>2, <1>11, <1>12, RestatAll
<1> QED BY <1>5, <1>13

-----------------------------------------------------------------------------
(* The steps *)

IndexInv == Whole(store) /\ edits \in Nat

LEMMA WholeFacts ==
  ASSUME NEW m, Whole(m)
  PROVE  /\ m \in Stores /\ Keyed(m) /\ m.edge \subseteq EdgeRows
         /\ m.rows \subseteq Id /\ m.live \subseteq Id /\ m.class \subseteq Id /\ m.inline \subseteq Id
         /\ m.above \in Links /\ m.alias \in Links
         /\ m.content \in [Id -> SUBSET Id] /\ m.fields \in [Id -> SUBSET Id]
         /\ \A n \in Id \ m.rows : m.alias[n] = NoId /\ m.content[n] = {} /\ m.fields[n] = {}
         /\ \A x \in Id : LiveAlias(m)[x] = IF x \in m.live THEN m.alias[x] ELSE NoId
BY StoreFields, LiveAliasIs DEF Whole, Bare

\* With the same edges and counts, what is right stays right.
LEMMA RightCarries ==
  ASSUME NEW m, NEW r, r.edge = m.edge, r.stats = m.stats, NEW n, Right(m, n)
  PROVE  Right(r, n)
BY DEF Right, Counted

LEMMA IndexInitInv == IndexInit => IndexInv
<1> SUFFICES ASSUME IndexInit PROVE Whole(store) /\ edits = 0
  BY DEF IndexInv
<1>1. PICK made \in SUBSET (Id \ Family) :
        store = [rows |-> made \cup Family, live |-> made \cup Family, class |-> Family, inline |-> {},
                 above |-> [n \in Id |-> NoId], alias |-> [n \in Id |-> NoId],
                 content |-> [n \in Id |-> {}], fields |-> [n \in Id |-> {}],
                 binned |-> {}, purged |-> {}, edge |-> {}, stats |-> [n \in Id |-> NoStats]]
  BY DEF IndexInit
<1>2. store \in Stores
  BY <1>1, IndexAssumption DEF Stores, Links, NoStats
<1>3. Keyed(store) /\ Bare(store)
  BY <1>1 DEF Keyed, Bare
<1> QED BY <1>2, <1>3 DEF Whole, IndexInit

LEMMA CreateKeepsIndex ==
  ASSUME Whole(store), NEW n \in Id, NEW p \in Id \cup {NoId}, NEW asInline \in BOOLEAN, NEW T \in SUBSET Id,
         CreateNode(n, p, asInline, T)
  PROVE  Keeps(store, store', {}, {})
<1> DEFINE m == store
           above == [store.above EXCEPT ![n] = p]
           inline == IF asInline THEN store.inline \cup {n} ELSE store.inline
           content == [store.content EXCEPT ![n] = IF asInline THEN T ELSE {}]
           made == [store EXCEPT !.rows = @ \cup {n}, !.live = @ \cup {n}, !.above[n] = p,
                                 !.inline = IF asInline THEN @ \cup {n} ELSE @,
                                 !.content[n] = IF asInline THEN T ELSE {}]
<1>1. n \notin m.rows /\ store' = Restat(Rebuild(made, n), {n})
  BY DEF CreateNode, Edited
<1>2. /\ m \in Stores /\ m.rows \subseteq Id /\ m.alias[n] = NoId /\ m.fields[n] = {}
      /\ m.above \in Links /\ m.content \in [Id -> SUBSET Id] /\ m.inline \subseteq Id /\ m.live \subseteq Id
  BY <1>1, WholeFacts
<1>3. made = [m EXCEPT !.rows = m.rows \cup {n}, !.live = m.live \cup {n}, !.above = above,
                       !.inline = inline, !.content = content]
  BY <1>2 DEF Stores
<1>4. above \in Links /\ content \in [Id -> SUBSET Id] /\ inline \subseteq Id
  BY <1>2 DEF Links
<1>5. \A x \in Id \ {n} : content[x] = m.content[x]
  BY <1>2
<1> HIDE DEF above, inline, content, made
<1>6. /\ made \in Stores /\ made.rows = m.rows \cup {n} /\ made.live = m.live \cup {n}
      /\ made.alias = m.alias /\ made.fields = m.fields /\ made.content = content
      /\ made.edge = m.edge /\ made.stats = m.stats
  BY <1>2, <1>3, <1>4 DEF Stores
<1>7. Bare(made) /\ n \in made.rows
  BY <1>5, <1>6, WholeFacts DEF Bare
<1>8. SameLinks(m, made, {})
  BY <1>2, <1>6, LiveAliasIs DEF SameLinks
<1>9. \A x \in Id \ {n} : SameSource(m, made, x)
  BY <1>5, <1>6 DEF SameSource
<1>10. Keeps(m, Rebuild(made, n), {}, {})
  BY <1>6, <1>7, <1>8, <1>9, RebuildAll
<1>11. Keeps(m, Restat(Rebuild(made, n), {n}), {}, {})
  <2> DEFINE S == {n}
  <2>1. S \in SUBSET Id
    OBVIOUS
  <2> HIDE DEF S
  <2>2. Keeps(m, Restat(Rebuild(made, n), S), {}, {})
    BY <1>10, <2>1, RestatAll
  <2> QED BY <2>2 DEF S
<1> QED BY <1>1, <1>11

LEMMA WriteContentKeepsIndex ==
  ASSUME Whole(store), NEW n \in Id, NEW T \in SUBSET Id, WriteContent(n, T)
  PROVE  Keeps(store, store', {}, {})
<1> DEFINE m == store
           to == IF n \in m.class THEN {} ELSE T
           content == [m.content EXCEPT ![n] = to]
           r == [m EXCEPT !.content = content]
<1>1. n \in m.rows /\ store' = Rebuild([store EXCEPT !.content[n] = to], n)
  BY DEF WriteContent, Edited
<1>2. m \in Stores /\ m.content \in [Id -> SUBSET Id] /\ m.rows \subseteq Id
  BY WholeFacts
<1>3. [store EXCEPT !.content[n] = to] = r
  BY <1>2 DEF Stores
<1>4. content \in [Id -> SUBSET Id] /\ \A x \in Id \ {n} : content[x] = m.content[x]
  BY <1>2
<1> HIDE DEF content, to
<1>5. /\ r \in Stores /\ r.rows = m.rows /\ r.live = m.live /\ r.alias = m.alias /\ r.fields = m.fields
      /\ r.content = content /\ r.edge = m.edge /\ r.stats = m.stats
  BY <1>2, <1>4 DEF Stores
<1> HIDE DEF r
<1>6. Bare(r) /\ SameLinks(m, r, {}) /\ \A x \in Id \ {n} : SameSource(m, r, x)
  BY <1>1, <1>2, <1>4, <1>5, WholeFacts, LiveAliasIs DEF Bare, SameLinks, SameSource
<1>7. Keeps(m, Rebuild(r, n), {}, {})
  BY <1>1, <1>5, <1>6, RebuildAll
<1> QED BY <1>1, <1>3, <1>7

LEMMA WriteFieldsKeepsIndex ==
  ASSUME Whole(store), NEW n \in Id, NEW T \in SUBSET Id, WriteFields(n, T)
  PROVE  Keeps(store, store', {}, {})
<1> DEFINE m == store
           fields == [m.fields EXCEPT ![n] = T]
           r == [m EXCEPT !.fields = fields]
<1>1. n \in m.rows /\ store' = Rebuild([store EXCEPT !.fields[n] = T], n)
  BY DEF WriteFields, Edited
<1>2. m \in Stores /\ m.fields \in [Id -> SUBSET Id] /\ m.rows \subseteq Id
  BY WholeFacts
<1>3. [store EXCEPT !.fields[n] = T] = r
  BY <1>2 DEF Stores
<1>4. fields \in [Id -> SUBSET Id] /\ \A x \in Id \ {n} : fields[x] = m.fields[x]
  BY <1>2
<1> HIDE DEF fields
<1>5. /\ r \in Stores /\ r.rows = m.rows /\ r.live = m.live /\ r.alias = m.alias /\ r.content = m.content
      /\ r.fields = fields /\ r.edge = m.edge /\ r.stats = m.stats
  BY <1>2, <1>4 DEF Stores
<1> HIDE DEF r
<1>6. Bare(r) /\ SameLinks(m, r, {}) /\ \A x \in Id \ {n} : SameSource(m, r, x)
  BY <1>1, <1>2, <1>4, <1>5, WholeFacts, LiveAliasIs DEF Bare, SameLinks, SameSource
<1>7. Keeps(m, Rebuild(r, n), {}, {})
  BY <1>1, <1>5, <1>6, RebuildAll
<1> QED BY <1>1, <1>3, <1>7

\* A change of the links of S alone, resolved anew.
LEMMA RelinkKeepsIndex ==
  ASSUME NEW m, Whole(m), NEW r \in Stores, NEW S \in SUBSET Id,
         r.rows = m.rows, r.content = m.content, r.fields = m.fields,
         r.edge = m.edge, r.stats = m.stats,
         \A x \in Id \ S : (x \in r.live <=> x \in m.live) /\ r.alias[x] = m.alias[x],
         \A x \in Id \ m.rows : r.alias[x] = NoId
  PROVE  Keeps(m, Reresolve(r, S), {}, {})
<1>1. Bare(r) /\ Keyed(r)
  BY WholeFacts DEF Bare, Keyed
<1>2. SameLinks(m, r, S)
  BY WholeFacts, LiveAliasIs DEF SameLinks
<1>3. \A n \in Id : SameSource(m, r, n)
  BY DEF SameSource
<1>4. \A n \in r.rows \ {} : (n \in m.rows => Right(m, n)) => Right(r, n)
  BY RightCarries
<1> QED BY <1>1, <1>2, <1>3, <1>4, ReresolveAll

LEMMA SetAliasKeepsIndex ==
  ASSUME Whole(store), NEW n \in Id, NEW target \in Id \cup {NoId}, SetAlias(n, target)
  PROVE  Keeps(store, store', {}, {})
<1> DEFINE m == store
           S == {n}
           alias == [m.alias EXCEPT ![n] = target]
           r == [m EXCEPT !.alias = alias]
<1>1. n \in m.rows /\ store' = Reresolve([store EXCEPT !.alias[n] = target], S)
  BY DEF SetAlias, Edited
<1>2. m \in Stores /\ m.alias \in Links /\ m.rows \subseteq Id
  BY WholeFacts
<1>3. [store EXCEPT !.alias[n] = target] = r
  BY <1>2 DEF Stores
<1>4. alias \in Links /\ (\A x \in Id \ S : alias[x] = m.alias[x]) /\ S \in SUBSET Id
  BY <1>2 DEF Links
<1>5. \A x \in Id \ m.rows : alias[x] = NoId
  BY <1>1, <1>4, WholeFacts
<1> HIDE DEF alias, S
<1>6. /\ r \in Stores /\ r.rows = m.rows /\ r.live = m.live /\ r.alias = alias /\ r.content = m.content
      /\ r.fields = m.fields /\ r.edge = m.edge /\ r.stats = m.stats
  BY <1>2, <1>4 DEF Stores
<1> HIDE DEF r
<1>7. Keeps(m, Reresolve(r, S), {}, {})
  BY <1>4, <1>5, <1>6, RelinkKeepsIndex
<1> QED BY <1>1, <1>3, <1>7

LEMMA SetActiveKeepsIndex ==
  ASSUME Whole(store), NEW n \in Id, NEW active \in BOOLEAN, SetActive(n, active)
  PROVE  Keeps(store, store', {}, {})
<1> DEFINE m == store
           S == {n}
           live == IF active THEN m.live \cup {n} ELSE m.live \ {n}
           r == [m EXCEPT !.live = live]
<1>1. store' = Reresolve(r, S)
  BY DEF SetActive, Edited
<1>2. m \in Stores /\ m.live \subseteq Id
  BY WholeFacts
<1>3. live \subseteq Id /\ (\A x \in Id \ S : x \in live <=> x \in m.live) /\ S \in SUBSET Id
  BY <1>2
<1> HIDE DEF live, S
<1>4. /\ r \in Stores /\ r.rows = m.rows /\ r.live = live /\ r.alias = m.alias /\ r.content = m.content
      /\ r.fields = m.fields /\ r.edge = m.edge /\ r.stats = m.stats
  BY <1>2, <1>3 DEF Stores
<1> HIDE DEF r
<1>5. Keeps(m, Reresolve(r, S), {}, {})
  BY <1>3, <1>4, WholeFacts, RelinkKeepsIndex
<1> QED BY <1>1, <1>5

\* Where only content is lost, and links are the same, the other rows stay current.
LEMMA StillKeepsIndex ==
  ASSUME NEW m, Whole(m), NEW r \in Stores, r.edge = m.edge, r.stats = m.stats, r.fields = m.fields,
         r.alias = m.alias, m.rows \subseteq r.rows, m.live \subseteq r.live,
         r.live \subseteq m.live \cup (r.rows \ m.rows), NEW B, r.rows \ m.rows \subseteq B,
         \A n \in Id \ r.rows : r.content[n] = {},
         NEW A, \A n \in Id \ A : r.content[n] = m.content[n]
  PROVE  Keeps(m, r, A, B)
<1>1. Whole(r)
  BY WholeFacts DEF Whole, Keyed, Bare
<1>2. SameLinks(m, r, {})
  BY WholeFacts, LiveAliasIs DEF SameLinks
<1>3. ASSUME NEW n \in Id, n \notin A, Current(m, n) PROVE Current(r, n)
  <2>1. CASE n \in m.rows \/ n \notin r.rows
    <3>1. SameSource(m, r, n)
      BY <1>3, <2>1 DEF SameSource
    <3> QED BY <1>2, <1>3, <3>1, WholeFacts, CurrentCarries
  <2>2. CASE n \in r.rows \ m.rows
    <3>1. \A e \in m.edge : e.source # n
      BY <1>3, <2>2, WholeFacts, CurrentIs
    <3>2. r.content[n] = {} /\ r.fields[n] = {}
      BY <1>3, <2>2, WholeFacts
    <3>3. \A e \in EdgeRows : ~Asks(r, n, e.kind, e.target)
      BY <3>2 DEF Asks
    <3> QED BY <2>2, <3>1, <3>3, CurrentIs
  <2> QED BY <2>1, <2>2
<1>4. \A n \in r.rows \ B : (n \in m.rows => Right(m, n)) => Right(r, n)
  BY RightCarries
<1> QED BY <1>1, <1>3, <1>4 DEF Keeps

\* The nodes whose content is not what it was.
Rewritten(m, r) == {n \in Id : r.content[n] # m.content[n]}

LEMMA SetInlineKeepsIndex ==
  ASSUME Whole(store), NEW n \in Id, NEW asInline \in BOOLEAN, SetInline(n, asInline)
  PROVE  Keeps(store, store', Rewritten(store, store'), {}) /\ store'.edge = store.edge
<1> DEFINE m == store
           inline == IF asInline THEN m.inline \cup {n} ELSE m.inline \ {n}
           to == IF ~asInline /\ n \in m.inline THEN {} ELSE m.content[n]
           content == [m.content EXCEPT ![n] = to]
<1>1. n \in m.rows /\ store' = [m EXCEPT !.inline = inline, !.content = content]
  <2>1. m \in Stores /\ m.content \in [Id -> SUBSET Id]
    BY WholeFacts
  <2> QED BY <2>1 DEF SetInline, Edited, Stores
<1>2. m \in Stores /\ m.content \in [Id -> SUBSET Id] /\ m.inline \subseteq Id
  BY WholeFacts
<1>3. inline \subseteq Id /\ content \in [Id -> SUBSET Id] /\ \A x \in Id \ {n} : content[x] = m.content[x]
  BY <1>2
<1> HIDE DEF inline, content
<1>4. /\ store' \in Stores /\ store'.rows = m.rows /\ store'.live = m.live /\ store'.alias = m.alias
      /\ store'.content = content /\ store'.fields = m.fields /\ store'.edge = m.edge /\ store'.stats = m.stats
  BY <1>1, <1>2, <1>3 DEF Stores
<1>5. \A x \in Id \ store'.rows : store'.content[x] = {}
  BY <1>1, <1>3, <1>4, WholeFacts
<1>6. \A x \in Id \ Rewritten(m, store') : store'.content[x] = m.content[x]
  BY DEF Rewritten
<1> DEFINE r == store'
<1> HIDE DEF r
<1>7. Keeps(m, r, Rewritten(m, r), {})
  BY <1>4, <1>5, <1>6, StillKeepsIndex DEF r
<1> QED BY <1>4, <1>7 DEF r

\* The trash rows are no part of what the index is derived from.
LEMMA TrashRowsKeepIndex ==
  ASSUME NEW m, NEW r, NEW A, NEW B, Keeps(m, r, A, B), NEW q \in Stores,
         q.rows = r.rows, q.live = r.live, q.alias = r.alias, q.content = r.content,
         q.fields = r.fields, q.edge = r.edge, q.stats = r.stats
  PROVE  Keeps(m, q, A, B)
<1>1. Whole(r) /\ r \in Stores
  BY DEF Keeps, Whole
<1>2. Whole(q)
  BY <1>1 DEF Whole, Keyed, Bare
<1>3. SameLinks(r, q, {})
  BY <1>1, <1>2, LiveAliasIs DEF SameLinks
<1>4. \A n \in Id : Current(r, n) => Current(q, n)
  <2> SUFFICES ASSUME NEW n \in Id, Current(r, n) PROVE Current(q, n)
    OBVIOUS
  <2>1. SameSource(r, q, n)
    BY DEF SameSource
  <2> QED BY <1>1, <1>3, <2>1, CurrentCarries
<1>5. \A n \in q.rows : Right(r, n) => Right(q, n)
  BY RightCarries
<1> QED BY <1>2, <1>4, <1>5 DEF Keeps

LEMMA MoveNodeKeepsIndex ==
  ASSUME Whole(store), NEW n \in Id, NEW p \in Id \cup {NoId}, MoveNode(n, p)
  PROVE  Keeps(store, store', Rewritten(store, store'), {}) /\ store'.edge = store.edge
<1> DEFINE m == store
           first == store.above[n] = NoId /\ n \in store.inline \ store.class /\ p # NoId
           inline == IF first THEN m.inline \ {n} ELSE m.inline
           to == IF first THEN {} ELSE m.content[n]
           above == [m.above EXCEPT ![n] = p]
           content == [m.content EXCEPT ![n] = to]
           r == [m EXCEPT !.above = above, !.inline = inline, !.content = content]
           S == Up(m, n)
<1>1. m \in Stores /\ m.content \in [Id -> SUBSET Id] /\ m.inline \subseteq Id /\ m.above \in Links
  BY WholeFacts
<1>2. n \in m.rows /\ store' = Restat(r, S)
  <2>1. n \in m.rows
    BY DEF MoveNode
  <2>2. store' = Restat([store EXCEPT !.above[n] = p, !.inline = inline, !.content[n] = to], S)
    BY <1>1 DEF MoveNode, Edited, Stores
  <2>3. [store EXCEPT !.above[n] = p, !.inline = inline, !.content[n] = to] = r
    BY <1>1 DEF Stores
  <2> QED BY <2>1, <2>2, <2>3
<1>3. /\ inline \subseteq Id /\ content \in [Id -> SUBSET Id] /\ above \in Links
      /\ \A x \in Id \ {n} : content[x] = m.content[x]
  BY <1>1 DEF Links
<1>4. S \in SUBSET Id
  BY <1>1, UpIs
<1> HIDE DEF inline, content, above, S
<1>5. /\ r \in Stores /\ r.rows = m.rows /\ r.live = m.live /\ r.alias = m.alias
      /\ r.content = content /\ r.fields = m.fields /\ r.edge = m.edge /\ r.stats = m.stats
  BY <1>1, <1>3 DEF Stores
<1> HIDE DEF r
<1>6. \A x \in Id \ r.rows : r.content[x] = {}
  BY <1>2, <1>3, <1>5, WholeFacts
<1>7. \A x \in Id \ Rewritten(m, r) : r.content[x] = m.content[x]
  BY DEF Rewritten
<1>8. Keeps(m, r, Rewritten(m, r), {})
  BY <1>5, <1>6, <1>7, StillKeepsIndex
<1>9. Keeps(m, Restat(r, S), Rewritten(m, r), {})
  BY <1>4, <1>8, RestatAll
<1>10. SameTables(r, Restat(r, S)) /\ Restat(r, S).edge = r.edge
  BY <1>4, <1>5, RestatIs
<1>11. Rewritten(m, Restat(r, S)) = Rewritten(m, r)
  BY <1>10 DEF Rewritten, SameTables
<1> QED BY <1>2, <1>5, <1>9, <1>10, <1>11

LEMMA DeclareClassNodeKeepsIndex ==
  ASSUME Whole(store), NEW n \in Id, NEW titled \in BOOLEAN, DeclareClassNode(n, titled)
  PROVE  /\ Keeps(store, store', Rewritten(store, store'), store'.rows \ store.rows)
         /\ store'.edge = store.edge /\ store'.rows \ store.rows \subseteq store'.class
<1> DEFINE m == store
           live == IF n \in m.rows THEN m.live ELSE m.live \cup {n}
           inline == IF n \in m.class THEN m.inline ELSE m.inline \ {n}
           par == IF n \in m.class THEN m.above[n] ELSE NoId
           to == IF titled THEN {} ELSE m.content[n]
           above == [m.above EXCEPT ![n] = par]
           content == [m.content EXCEPT ![n] = to]
           r == store'
<1>1. /\ m \in Stores /\ m.content \in [Id -> SUBSET Id] /\ m.inline \subseteq Id /\ m.above \in Links
      /\ m.live \subseteq Id /\ m.class \subseteq Id /\ m.rows \subseteq Id
  BY WholeFacts
<1>2. r = [m EXCEPT !.rows = m.rows \cup {n}, !.live = live, !.class = m.class \cup {n},
                    !.inline = inline, !.above = above, !.content = content]
  BY <1>1 DEF DeclareClassNode, Edited, Stores
<1>3. /\ inline \subseteq Id /\ content \in [Id -> SUBSET Id] /\ above \in Links /\ live \subseteq Id
      /\ \A x \in Id \ {n} : content[x] = m.content[x]
  BY <1>1 DEF Links
<1>4. m.live \subseteq live /\ live \subseteq m.live \cup ((m.rows \cup {n}) \ m.rows)
  OBVIOUS
<1> HIDE DEF inline, content, above, live
<1>5. /\ r \in Stores /\ r.rows = m.rows \cup {n} /\ r.live = live /\ r.class = m.class \cup {n}
      /\ r.alias = m.alias /\ r.content = content /\ r.fields = m.fields /\ r.edge = m.edge
      /\ r.stats = m.stats
  BY <1>1, <1>2, <1>3 DEF Stores
<1> HIDE DEF r
<1>6. \A x \in Id \ r.rows : r.content[x] = {}
  BY <1>3, <1>5, WholeFacts
<1>7. \A x \in Id \ Rewritten(m, r) : r.content[x] = m.content[x]
  BY DEF Rewritten
<1> DEFINE B == r.rows \ m.rows
           A == Rewritten(m, r)
<1>8. r.rows \ m.rows \subseteq B
  OBVIOUS
<1> HIDE DEF A, B
<1>9. Keeps(m, r, A, B)
  BY <1>4, <1>5, <1>6, <1>7, <1>8, StillKeepsIndex DEF A
<1> QED BY <1>5, <1>9 DEF A, B, r

LEMMA ToggleFamilyKeepsIndex ==
  ASSUME Whole(store), NEW n \in Id, ToggleFamily(n)
  PROVE  Keeps(store, store', Id, {}) /\ Toggled
<1> DEFINE m == store
           live == IF n \in m.live THEN m.live \ {n} ELSE m.live \cup {n}
           r == store'
<1>1. m \in Stores /\ m.live \subseteq Id
  BY WholeFacts
<1>2. n \in Family /\ n \in m.class /\ r = [m EXCEPT !.live = live]
  BY DEF ToggleFamily, Edited
<1>3. live \subseteq Id /\ ~(n \in live <=> n \in m.live)
  BY <1>1
<1> HIDE DEF live
<1>4. /\ r \in Stores /\ r.rows = m.rows /\ r.live = live /\ r.class = m.class /\ r.alias = m.alias
      /\ r.content = m.content /\ r.fields = m.fields /\ r.edge = m.edge /\ r.stats = m.stats
  BY <1>1, <1>2, <1>3 DEF Stores
<1>5. Whole(r)
  BY <1>4 DEF Whole, Keyed, Bare
<1>6. \A x \in r.rows : Right(m, x) => Right(r, x)
  BY <1>4, RightCarries
<1>7. Toggled
  BY <1>2, <1>3, <1>4 DEF Toggled
<1> QED BY <1>4, <1>5, <1>6, <1>7 DEF Keeps

LEMMA TrashNodeKeepsIndex ==
  ASSUME Whole(store), NEW n \in Id, TrashNode(n)
  PROVE  Keeps(store, store', {}, {})
<1> DEFINE m == store
           ids == Below(m, n)
           live == m.live \ ids
           binned == m.binned \cup {n}
           purged == m.purged \ {n}
           r == [m EXCEPT !.live = live, !.binned = binned, !.purged = purged]
           S == {n}
<1>1. store' = Restat(Reresolve(r, ids), S)
  BY DEF TrashNode, Edited
<1>2. m \in Stores /\ m.rows \subseteq Id /\ m.live \subseteq Id /\ m.binned \subseteq Id /\ m.purged \subseteq Id
  BY WholeFacts DEF Stores
<1>3. /\ live \subseteq Id /\ binned \subseteq Id /\ purged \subseteq Id /\ ids \in SUBSET Id /\ S \in SUBSET Id
      /\ \A x \in Id \ ids : x \in live <=> x \in m.live
  BY <1>2 DEF Below
<1> HIDE DEF live, binned, purged, ids, S
<1>4. /\ r \in Stores /\ r.rows = m.rows /\ r.live = live /\ r.alias = m.alias
      /\ r.content = m.content /\ r.fields = m.fields /\ r.edge = m.edge /\ r.stats = m.stats
  BY <1>2, <1>3 DEF Stores
<1> HIDE DEF r
<1>5. Keeps(m, Reresolve(r, ids), {}, {})
  BY <1>3, <1>4, WholeFacts, RelinkKeepsIndex
<1>6. Keeps(m, Restat(Reresolve(r, ids), S), {}, {})
  BY <1>3, <1>5, RestatAll
<1> QED BY <1>1, <1>6

LEMMA RestoreNodeKeepsIndex ==
  ASSUME Whole(store), NEW n \in Id, RestoreNode(n)
  PROVE  Keeps(store, store', {}, {})
<1> DEFINE m == store
           own == m.binned \cup m.purged
           par == IF m.above[n] \in m.rows THEN m.above[n] ELSE NoId
           above == [m.above EXCEPT ![n] = par]
           placed == [store EXCEPT !.above[n] = IF @ \in store.rows THEN @ ELSE NoId]
           back == {x \in Below(placed, n) : \A y \in Up(placed, x) \cap Below(placed, n) : y \in own => y = n}
           live == placed.live \cup back
           r == [placed EXCEPT !.live = live]
           S == {n}
           q == Restat(Reresolve(r, back), S)
<1>1. store' = [q EXCEPT !.binned = @ \ {n}, !.purged = @ \ {n}]
  BY DEF RestoreNode, Edited
<1>2. m \in Stores /\ m.rows \subseteq Id /\ m.live \subseteq Id /\ m.above \in Links
  BY WholeFacts
<1>3. placed = [m EXCEPT !.above = above] /\ above \in Links
  <2>1. par \in Id \cup {NoId}
    BY <1>2
  <2> HIDE DEF par
  <2>2. above \in Links
    BY <1>2, <2>1 DEF Links
  <2>3. placed = [m EXCEPT !.above = above]
    BY <1>2 DEF Stores, par
  <2> QED BY <2>2, <2>3
<1> HIDE DEF above, placed
<1>4. /\ placed \in Stores /\ placed.rows = m.rows /\ placed.live = m.live /\ placed.alias = m.alias
      /\ placed.content = m.content /\ placed.fields = m.fields /\ placed.edge = m.edge
      /\ placed.stats = m.stats
  BY <1>2, <1>3 DEF Stores
<1>5. back \in SUBSET Id /\ S \in SUBSET Id
  BY <1>2, <1>4 DEF Below
<1> HIDE DEF back, S
<1>6. live \subseteq Id /\ \A x \in Id \ back : x \in live <=> x \in m.live
  BY <1>2, <1>4, <1>5
<1> HIDE DEF live
<1>7. /\ r \in Stores /\ r.rows = m.rows /\ r.live = live /\ r.alias = m.alias
      /\ r.content = m.content /\ r.fields = m.fields /\ r.edge = m.edge /\ r.stats = m.stats
  BY <1>4, <1>6 DEF Stores
<1> HIDE DEF r
<1>8. Keeps(m, Reresolve(r, back), {}, {})
  BY <1>5, <1>6, <1>7, WholeFacts, RelinkKeepsIndex
<1>9. Keeps(m, q, {}, {})
  BY <1>5, <1>8, RestatAll
<1> HIDE DEF q
<1>10. q \in Stores
  BY <1>9 DEF Keeps, Whole
<1> DEFINE z == store'
<1>11. /\ z \in Stores /\ z.rows = q.rows /\ z.live = q.live /\ z.alias = q.alias
       /\ z.content = q.content /\ z.fields = q.fields /\ z.edge = q.edge /\ z.stats = q.stats
  BY <1>1, <1>10 DEF Stores
<1> HIDE DEF z
<1>12. Keeps(m, z, {}, {})
  BY <1>9, <1>11, TrashRowsKeepIndex
<1> QED BY <1>12 DEF z

LEMMA PurgeNodeKeepsIndex ==
  ASSUME Whole(store), NEW n \in Id, PurgeNode(n)
  PROVE  Keeps(store, store', {}, {})
<1> DEFINE R == {n}
<1>1. store' = Purge(store, R, R) /\ R \in SUBSET Id
  BY DEF PurgeNode, Edited
<1> HIDE DEF R
<1> QED BY <1>1, PurgeAll

LEMMA EmptyTrashKeepsIndex ==
  ASSUME Whole(store), EmptyTrash
  PROVE  Keeps(store, store', {}, {})
<1>1. store.binned \in SUBSET Id
  BY WholeFacts DEF Stores
<1>2. PICK kept \in SUBSET store.binned : store' = Purge(store, store.binned, kept)
  BY DEF EmptyTrash, Edited
<1>3. kept \in SUBSET Id
  BY <1>1
<1> DEFINE R == store.binned
<1>4. R \in SUBSET Id
  BY <1>1
<1> HIDE DEF R
<1>5. Keeps(store, Purge(store, R, kept), {}, {})
  BY <1>3, <1>4, PurgeAll
<1> QED BY <1>2, <1>5 DEF R

\* What a step leaves current and right.
StepKeeps ==
  /\ Whole(store')
  /\ \A n \in Id : Current(store, n) => Current(store', n) \/ Flattened(n) \/ Toggled
  /\ \A n \in store'.rows :
       (n \in store.rows => Right(store, n))
         => Right(store', n) \/ n \in (store'.rows \ store.rows) \cap store'.class

LEMMA PlainStepKeeps ==
  ASSUME Keeps(store, store', {}, {})
  PROVE  StepKeeps
BY DEF Keeps, StepKeeps

LEMMA FlatteningStepKeeps ==
  ASSUME NEW B, Keeps(store, store', Rewritten(store, store'), B), store'.edge = store.edge,
         B \subseteq (store'.rows \ store.rows) \cap store'.class
  PROVE  StepKeeps
BY DEF Keeps, StepKeeps, Rewritten, Flattened

LEMMA IndexStepKeeps ==
  ASSUME IndexInv, IndexNext
  PROVE  StepKeeps /\ edits' \in Nat
<1>0. Whole(store) /\ edits \in Nat
  BY DEF IndexInv
<1>1. CASE EmptyTrash
  <2>1. StepKeeps
    BY <1>0, <1>1, EmptyTrashKeepsIndex, PlainStepKeeps
  <2>2. edits' = edits + 1
    BY <1>1 DEF EmptyTrash, Edited
  <2> QED BY <1>0, <2>1, <2>2
<1>2. ASSUME NEW n \in Id, NEW p \in Id \cup {NoId}, NEW asInline \in BOOLEAN,
             NEW T \in {{}} \cup {{t} : t \in Id}, CreateNode(n, p, asInline, T)
      PROVE  StepKeeps /\ edits' \in Nat
  <2>1. T \in SUBSET Id
    OBVIOUS
  <2>2. StepKeeps
    BY <1>0, <1>2, <2>1, CreateKeepsIndex, PlainStepKeeps
  <2>3. edits' = edits + 1
    BY <1>2 DEF CreateNode, Edited
  <2> QED BY <1>0, <2>2, <2>3
<1>3. ASSUME NEW n \in Id, NEW T \in {{}} \cup {{t} : t \in Id}, WriteContent(n, T) \/ WriteFields(n, T)
      PROVE  StepKeeps /\ edits' \in Nat
  <2>1. T \in SUBSET Id
    OBVIOUS
  <2>2. StepKeeps
    BY <1>0, <1>3, <2>1, WriteContentKeepsIndex, WriteFieldsKeepsIndex, PlainStepKeeps
  <2>3. edits' = edits + 1
    BY <1>3 DEF WriteContent, WriteFields, Edited
  <2> QED BY <1>0, <2>2, <2>3
<1>4. ASSUME NEW n \in Id, NEW p \in Id \cup {NoId}, SetAlias(n, p)
      PROVE  StepKeeps /\ edits' \in Nat
  <2>1. StepKeeps
    BY <1>0, <1>4, SetAliasKeepsIndex, PlainStepKeeps
  <2>2. edits' = edits + 1
    BY <1>4 DEF SetAlias, Edited
  <2> QED BY <1>0, <2>1, <2>2
<1>5. ASSUME NEW n \in Id, NEW p \in Id \cup {NoId}, MoveNode(n, p)
      PROVE  StepKeeps /\ edits' \in Nat
  <2>1. StepKeeps
    <3>1. Keeps(store, store', Rewritten(store, store'), {}) /\ store'.edge = store.edge
      BY <1>0, <1>5, MoveNodeKeepsIndex
    <3> QED BY <3>1, FlatteningStepKeeps
  <2>2. edits' = edits + 1
    BY <1>5 DEF MoveNode, Edited
  <2> QED BY <1>0, <2>1, <2>2
<1>6. ASSUME NEW n \in Id, NEW b \in BOOLEAN, SetActive(n, b)
      PROVE  StepKeeps /\ edits' \in Nat
  <2>1. StepKeeps
    BY <1>0, <1>6, SetActiveKeepsIndex, PlainStepKeeps
  <2>2. edits' = edits + 1
    BY <1>6 DEF SetActive, Edited
  <2> QED BY <1>0, <2>1, <2>2
<1>7. ASSUME NEW n \in Id, NEW b \in BOOLEAN, SetInline(n, b)
      PROVE  StepKeeps /\ edits' \in Nat
  <2>1. StepKeeps
    <3>1. Keeps(store, store', Rewritten(store, store'), {}) /\ store'.edge = store.edge
      BY <1>0, <1>7, SetInlineKeepsIndex
    <3> QED BY <3>1, FlatteningStepKeeps
  <2>2. edits' = edits + 1
    BY <1>7 DEF SetInline, Edited
  <2> QED BY <1>0, <2>1, <2>2
<1>8. ASSUME NEW n \in Id, NEW b \in BOOLEAN, DeclareClassNode(n, b)
      PROVE  StepKeeps /\ edits' \in Nat
  <2>1. StepKeeps
    <3>1. /\ Keeps(store, store', Rewritten(store, store'), store'.rows \ store.rows)
          /\ store'.edge = store.edge /\ store'.rows \ store.rows \subseteq store'.class
      BY <1>0, <1>8, DeclareClassNodeKeepsIndex
    <3> DEFINE B == store'.rows \ store.rows
    <3>2. B \subseteq (store'.rows \ store.rows) \cap store'.class
      BY <3>1
    <3>3. Keeps(store, store', Rewritten(store, store'), B)
      BY <3>1
    <3> HIDE DEF B
    <3> QED BY <3>1, <3>2, <3>3, FlatteningStepKeeps
  <2>2. edits' = edits + 1
    BY <1>8 DEF DeclareClassNode, Edited
  <2> QED BY <1>0, <2>1, <2>2
<1>9. ASSUME NEW n \in Id, ToggleFamily(n)
      PROVE  StepKeeps /\ edits' \in Nat
  <2>1. Keeps(store, store', Id, {}) /\ Toggled
    BY <1>0, <1>9, ToggleFamilyKeepsIndex
  <2>2. StepKeeps
    BY <2>1 DEF Keeps, StepKeeps
  <2>3. edits' = edits + 1
    BY <1>9 DEF ToggleFamily, Edited
  <2> QED BY <1>0, <2>2, <2>3
<1>10. ASSUME NEW n \in Id, TrashNode(n)
       PROVE  StepKeeps /\ edits' \in Nat
  <2>1. StepKeeps
    BY <1>0, <1>10, TrashNodeKeepsIndex, PlainStepKeeps
  <2>2. edits' = edits + 1
    BY <1>10 DEF TrashNode, Edited
  <2> QED BY <1>0, <2>1, <2>2
<1>11. ASSUME NEW n \in Id, PurgeNode(n)
       PROVE  StepKeeps /\ edits' \in Nat
  <2>1. StepKeeps
    BY <1>0, <1>11, PurgeNodeKeepsIndex, PlainStepKeeps
  <2>2. edits' = edits + 1
    BY <1>11 DEF PurgeNode, Edited
  <2> QED BY <1>0, <2>1, <2>2
<1>12. ASSUME NEW n \in Id, RestoreNode(n)
       PROVE  StepKeeps /\ edits' \in Nat
  <2>1. StepKeeps
    BY <1>0, <1>12, RestoreNodeKeepsIndex, PlainStepKeeps
  <2>2. edits' = edits + 1
    BY <1>12 DEF RestoreNode, Edited
  <2> QED BY <1>0, <2>1, <2>2
<1> QED BY <1>1, <1>2, <1>3, <1>4, <1>5, <1>6, <1>7, <1>8, <1>9, <1>10, <1>11, <1>12 DEF IndexNext

LEMMA IndexInvSteps == IndexInv /\ [IndexNext]_indexVars => IndexInv'
<1> SUFFICES ASSUME IndexInv, [IndexNext]_indexVars PROVE IndexInv'
  OBVIOUS
<1>1. CASE IndexNext
  BY <1>1, IndexStepKeeps DEF StepKeeps, IndexInv
<1>2. CASE UNCHANGED indexVars
  BY <1>2 DEF indexVars, IndexInv
<1> QED BY <1>1, <1>2

LEMMA IndexAlways == IndexSpec => []IndexInv
BY IndexInitInv, IndexInvSteps, PTL DEF IndexSpec

\* In every reachable mirror, an edge whose row holds the end of its target's alias chain
\* is drawn at the same vertex from the target and from that end, or left out from both:
\* _resolve_edge_target and resolve_to_set agree on every current row, however deep the
\* chain, on every set of ids.
THEOREM GraphFollows == IndexSpec => []GraphFollowsIndex
<1>1. IndexInv => GraphFollowsIndex
  BY TypedGraphFollows DEF IndexInv, Whole, IndexTypeOK
<1> QED BY <1>1, IndexAlways, PTL

\* The rows _backfill_edge_index would derive are the rows kept step by step, but for
\* sources whose content a promotion, a first parenting or a class title has flattened,
\* and after a feature toggle: creations, writes, alias changes, archivals, deletes of
\* whole subtrees, an emptied trash and restores leave no current source stale.
THEOREM StalesByFlatteningOrToggles == IndexSpec => OnlyFlatteningOrTogglesStale
<1> DEFINE A == \A n \in StaleSources(store') : n \in StaleSources(store) \/ Flattened(n) \/ Toggled
<1>1. IndexInv /\ [IndexNext]_indexVars => [A]_indexVars
  <2> SUFFICES ASSUME IndexInv, IndexNext PROVE A
    OBVIOUS
  <2>1. \A n \in Id : Current(store, n) => Current(store', n) \/ Flattened(n) \/ Toggled
    BY IndexStepKeeps DEF StepKeeps
  <2> QED BY <2>1 DEF StaleSources, Current
<1>2. IndexSpec => []IndexInv /\ [][IndexNext]_indexVars
  BY IndexAlways, PTL DEF IndexSpec
<1> QED BY <1>1, <1>2, PTL DEF OnlyFlatteningOrTogglesStale

\* node_stats is the index counted, but for a class declared under an id that was already
\* linked to: every other step counts again whatever it changes (_rebuild_node_stats), and
\* a count that is right stays right.
THEOREM MiscountsByDeclaration == IndexSpec => OnlyDeclarationMiscounts
<1> DEFINE A == \A n \in Miscounted(store') :
                  n \in Miscounted(store) \/ n \in (store'.rows \ store.rows) \cap store'.class
<1>1. IndexInv /\ [IndexNext]_indexVars => [A]_indexVars
  <2> SUFFICES ASSUME IndexInv, IndexNext PROVE A
    OBVIOUS
  <2>1. \A n \in store'.rows :
          (n \in store.rows => Right(store, n))
            => Right(store', n) \/ n \in (store'.rows \ store.rows) \cap store'.class
    BY IndexStepKeeps DEF StepKeeps
  <2> QED BY <2>1 DEF Miscounted, Right
<1>2. IndexSpec => []IndexInv /\ [][IndexNext]_indexVars
  BY IndexAlways, PTL DEF IndexSpec
<1> QED BY <1>1, <1>2, PTL DEF OnlyDeclarationMiscounts
================================================================================
