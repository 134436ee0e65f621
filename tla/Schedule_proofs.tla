--------------------------- MODULE Schedule_proofs ---------------------------
(***************************************************************************)
(* Proofs about the reminders: the fold of the schedule log, the queue     *)
(* that serializes the runtime and the tools, and the durability barriers. *)
(* They hold for every horizon, every timer limit, all rules and any number*)
(* of calls, failures, clock changes and crashes.                          *)
(***************************************************************************)
EXTENDS Schedule, FiniteSetTheorems, FunctionTheorems, SequenceTheorems, WellFoundedInduction, TLAPS

-----------------------------------------------------------------------------
(* Natural numbers.                                                        *)

\* Every nonempty set of natural numbers has a least element: the form of
\* induction that the proofs about the log use.
LEMMA Least ==
  ASSUME NEW T \in SUBSET Nat, T # {}
  PROVE  \E n \in T : \A m \in T : n <= m
<1> DEFINE R == OpToRel(<, Nat)
<1>1. IsWellFoundedOn(R, Nat)  BY NatLessThanWellFounded
<1>2. \A x, y \in Nat : y < x => <<y, x>> \in R
  BY DEF OpToRel
<1> HIDE DEF R
<1>3. PICK n \in T : \A m \in T : ~(<<m, n>> \in R)
  BY <1>1, WFMin
<1>4. ASSUME NEW m \in T PROVE n <= m
  <2>1. n \in Nat /\ m \in Nat  OBVIOUS
  <2>2. ~(m < n)  BY <2>1, <1>2, <1>3, Zenon
  <2> QED  BY <2>1, <2>2
<1> QED  BY <1>4

\* A set of numbers up to a bound that holds 0 and the successor of each of its
\* members below the bound holds them all.
LEMMA UpTo ==
  ASSUME NEW n \in Nat, NEW G, 0 \in G, \A k \in 1..n : k - 1 \in G => k \in G
  PROVE  \A k \in 0..n : k \in G
<1> SUFFICES ASSUME NEW b \in 0..n, b \notin G PROVE FALSE
  OBVIOUS
<1> DEFINE T == {k \in 0..n : k \notin G}
<1>1. T \in SUBSET Nat /\ T # {}  OBVIOUS
<1>2. PICK k \in T : \A m \in T : k <= m
  <2> HIDE DEF T
  <2> QED  BY <1>1, Least
<1>3. k # 0 /\ k \in 1..n /\ k \notin G  OBVIOUS
<1>4. k - 1 \notin T  BY <1>2, <1>3
<1>5. k - 1 \in G  BY <1>3, <1>4
<1> QED  BY <1>3, <1>5

-----------------------------------------------------------------------------
(* The fold.                                                               *)

\* What the fold is after each event of the log.
Runs(f, events) ==
  f = [n \in 0..Len(events) |-> IF n = 0 THEN Unfolded ELSE Folds(f[n - 1], events[n])]

\* The fold of a log of any length exists, and passes through the fold of each
\* of its prefixes (foldScheduleEvents).
LEMMA FoldRuns ==
  ASSUME NEW events, Len(events) \in Nat
  PROVE  \E f : Runs(f, events) /\ Fold(events) = f[Len(events)]
<1> DEFINE Upto(f, n) ==
      f = [k \in 0..n |-> IF k = 0 THEN Unfolded ELSE Folds(f[k - 1], events[k])]
    G == {n \in 0..Len(events) : \E f : Upto(f, n)}
<1>1. 0 \in G
  <2> DEFINE f == [k \in 0..0 |-> Unfolded]
  <2>1. \A k \in 0..0 : k = 0  OBVIOUS
  <2>2. Upto(f, 0)  BY <2>1
  <2>3. \E g : Upto(g, 0)
    <3> HIDE DEF f
    <3> QED  BY <2>2
  <2> QED  BY <2>3
<1>2. ASSUME NEW n \in 1..Len(events), n - 1 \in G
      PROVE  n \in G
  <2>1. PICK h : Upto(h, n - 1)  BY <1>2
  <2> DEFINE f == [k \in 0..n |-> IF k = n THEN Folds(h[n - 1], events[n]) ELSE h[k]]
  <2>2. ASSUME NEW k \in 0..n
        PROVE  f[k] = IF k = 0 THEN Unfolded ELSE Folds(f[k - 1], events[k])
    <3>1. CASE k = n
      <4>1. n # 0 /\ n - 1 \in 0..n /\ n - 1 # n  OBVIOUS
      <4>2. f[k] = Folds(h[n - 1], events[n]) /\ f[n - 1] = h[n - 1]  BY <3>1, <4>1
      <4> QED  BY <3>1, <4>1, <4>2
    <3>2. CASE k # n
      <4>1. k \in 0..(n - 1)  BY <3>2
      <4>2. h[k] = IF k = 0 THEN Unfolded ELSE Folds(h[k - 1], events[k])
        BY <2>1, <4>1
      <4>3. f[k] = h[k]  BY <3>2
      <4>4. k # 0 => f[k - 1] = h[k - 1]  BY <4>1
      <4> QED  BY <4>2, <4>3, <4>4
    <3> QED  BY <3>1, <3>2
  <2>3. f = [k \in 0..n |-> f[k]]  OBVIOUS
  <2> HIDE DEF f
  <2>4. Upto(f, n)  BY <2>2, <2>3
  <2> QED  BY <2>4
<1>3. Len(events) \in G
  <2> HIDE DEF G
  <2>1. Len(events) \in 0..Len(events)  OBVIOUS
  <2> QED  BY <1>1, <1>2, <2>1, UpTo
<1>4. \E f : Runs(f, events)  BY <1>3 DEF Runs
<1>5. Fold(events) = (CHOOSE f : Runs(f, events))[Len(events)]
  BY DEF Fold, Runs
<1> QED  BY <1>4, <1>5

\* Two logs that agree up to a place have the same fold up to that place.
LEMMA FoldAgrees ==
  ASSUME NEW a, NEW b, NEW f, NEW g, Runs(f, a), Runs(g, b),
         Len(a) \in Nat, Len(b) \in Nat, NEW n \in Nat, n <= Len(a), n <= Len(b),
         \A i \in 1..n : a[i] = b[i]
  PROVE  f[n] = g[n]
<1> DEFINE G == {k \in 0..n : f[k] = g[k]}
<1>1. \A k \in 0..Len(a) : f[k] = IF k = 0 THEN Unfolded ELSE Folds(f[k - 1], a[k])
  BY DEF Runs
<1>2. \A k \in 0..Len(b) : g[k] = IF k = 0 THEN Unfolded ELSE Folds(g[k - 1], b[k])
  BY DEF Runs
<1>3. 0 \in G
  <2>1. f[0] = Unfolded /\ g[0] = Unfolded  BY <1>1, <1>2
  <2> QED  BY <2>1
<1>4. ASSUME NEW k \in 1..n, k - 1 \in G PROVE k \in G
  <2>1. f[k - 1] = g[k - 1] /\ a[k] = b[k] /\ k \in 0..n
    BY <1>4
  <2>2. f[k] = Folds(f[k - 1], a[k])  BY <1>1
  <2>3. g[k] = Folds(g[k - 1], b[k])  BY <1>2
  <2> QED  BY <2>1, <2>2, <2>3
<1>5. n \in G
  <2> HIDE DEF G
  <2>1. n \in 0..n  OBVIOUS
  <2> QED  BY <1>3, <1>4, <2>1, UpTo
<1> QED  BY <1>5

\* The empty log.
LEMMA FoldEmpty == Fold(<<>>) = Unfolded
<1>1. Len(<<>>) = 0 /\ 0 \in Nat /\ 0 \in 0..0  OBVIOUS
<1>2. PICK f : Runs(f, <<>>) /\ Fold(<<>>) = f[0]
  BY <1>1, FoldRuns
<1>3. f[0] = Unfolded  BY <1>1, <1>2 DEF Runs
<1> QED  BY <1>2, <1>3

\* One more event is folded into what the log was before it.
LEMMA FoldAppend ==
  ASSUME NEW S, NEW events \in Seq(S), NEW e \in S
  PROVE  Fold(Append(events, e)) = Folds(Fold(events), e)
<1> DEFINE longer == Append(events, e)
           n == Len(events)
<1>1. /\ n \in Nat /\ Len(longer) = n + 1
      /\ \A i \in 1..n : longer[i] = events[i]
      /\ longer[n + 1] = e
  BY AppendProperties
<1> HIDE DEF longer, n
<1>2. PICK f : Runs(f, events) /\ Fold(events) = f[n]
  BY <1>1, FoldRuns DEF n
<1>3. PICK g : Runs(g, longer) /\ Fold(longer) = g[n + 1]
  BY <1>1, FoldRuns
<1>4. f[n] = g[n]
  BY <1>1, <1>2, <1>3, FoldAgrees DEF n
<1>5. g[n + 1] = Folds(g[n], e)
  <2>1. \A k \in 0..(n + 1) :
           g[k] = IF k = 0 THEN Unfolded ELSE Folds(g[k - 1], longer[k])
    BY <1>1, <1>3 DEF Runs
  <2>2. n + 1 \in 0..(n + 1) /\ n + 1 # 0 /\ (n + 1) - 1 = n  BY <1>1
  <2>3. g[n + 1] = Folds(g[(n + 1) - 1], longer[n + 1])  BY <2>1, <2>2
  <2> QED  BY <1>1, <2>2, <2>3
<1> QED  BY <1>2, <1>3, <1>4, <1>5 DEF longer

\* A property of states that holds of the empty log and that every event of the
\* log keeps holds of the whole log: the states are given as a set.
LEMMA FoldWithin ==
  ASSUME NEW S, NEW events \in Seq(S), NEW States, Unfolded \in States,
         \A st \in States, e \in S : Folds(st, e) \in States
  PROVE  Fold(events) \in States
<1> DEFINE n == Len(events)
<1>1. n \in Nat /\ \A k \in 1..n : events[k] \in S  OBVIOUS
<1>2. PICK f : Runs(f, events) /\ Fold(events) = f[n]
  BY <1>1, FoldRuns
<1> DEFINE G == {k \in 0..n : f[k] \in States}
<1> HIDE DEF n
<1>3. \A k \in 0..n : f[k] = IF k = 0 THEN Unfolded ELSE Folds(f[k - 1], events[k])
  BY <1>2 DEF Runs, n
<1>4. 0 \in G
  <2>1. f[0] = Unfolded /\ 0 \in 0..n  BY <1>1, <1>3
  <2> QED  BY <2>1
<1>5. ASSUME NEW k \in 1..n, k - 1 \in G PROVE k \in G
  <2>1. f[k - 1] \in States /\ k \in 0..n /\ events[k] \in S
    BY <1>1, <1>5
  <2>2. f[k] = Folds(f[k - 1], events[k])  BY <1>1, <1>3
  <2> QED  BY <2>1, <2>2
<1>6. n \in G
  <2> HIDE DEF G
  <2>1. n \in 0..n  BY <1>1
  <2> QED  BY <1>1, <1>4, <1>5, <2>1, UpTo
<1> QED  BY <1>2, <1>6

-----------------------------------------------------------------------------
(* The states of the fold.                                                 *)

Record == [id : Nat, due : Int, every : Nat]
States ==
  {st \in [active : SUBSET Record, seen : SUBSET Nat, legal : BOOLEAN] :
     IsFiniteSet(st.active) /\ IsFiniteSet(st.seen)}

\* An occurrence is an instant.
LEMMA LatestIsInstant ==
  ASSUME NEW r \in Record, NEW at \in Nat
  PROVE  Latest(r, at) \in Int
<1>1. CASE r.every = 0  BY <1>1 DEF Latest, Record
<1>2. CASE r.every # 0
  <2>1. r.every \in Nat \ {0} /\ r.due \in Int /\ at - r.due \in Int  BY <1>2 DEF Record
  <2>2. (at - r.due) \div r.every \in Int  BY <2>1
  <2>3. PICK q \in Int : q = (at - r.due) \div r.every  BY <2>2
  <2> QED  BY <1>2, <2>1, <2>3 DEF Latest
<1> QED  BY <1>1, <1>2

\* A dispatch leaves one record at most, of the same reminder.
LEMMA DispatchedIsRecord ==
  ASSUME NEW r \in Record, NEW at \in Nat
  PROVE  /\ Dispatched(r, at) \subseteq Record
         /\ IsFiniteSet(Dispatched(r, at))
         /\ \A s \in Dispatched(r, at) :
              s.id = r.id /\ s.due = Latest(r, at) + r.every /\ s.every = r.every /\ r.every # 0
<1>1. PICK l \in Int : l = Latest(r, at)  BY LatestIsInstant
<1> DEFINE s == [r EXCEPT !.due = l + r.every]
<1>2. s \in Record /\ s.id = r.id /\ s.due = l + r.every /\ s.every = r.every
  BY <1>1 DEF Record
<1>3. Dispatched(r, at) \subseteq {s} /\ (Dispatched(r, at) # {} => r.every # 0)
  BY <1>1 DEF Dispatched
<1>4. IsFiniteSet({s})  BY FS_Singleton
<1> HIDE DEF s
<1>5. IsFiniteSet(Dispatched(r, at))  BY <1>3, <1>4, FS_Subset
<1> QED  BY <1>1, <1>2, <1>3, <1>5

\* Every event leads from a state to a state, whatever the event: the fold
\* notes an illegal one and goes on.
LEMMA FoldsIsState ==
  ASSUME NEW st \in States, NEW e \in Event
  PROVE  Folds(st, e) \in States
<1> DEFINE mine == {r \in st.active : r.id = e.id}
<1>1. /\ st \in [active : SUBSET Record, seen : SUBSET Nat, legal : BOOLEAN]
      /\ IsFiniteSet(st.active) /\ IsFiniteSet(st.seen)
  BY DEF States
<1>2. /\ e.op \in {"create", "delete", "dispatch", "remind"} /\ e.id \in Nat /\ e.due \in Nat
      /\ e.every \in Nat /\ e.at \in Nat
  BY DEF Event
<1>3. mine \subseteq st.active /\ mine \subseteq Record /\ IsFiniteSet(mine)
  <2>1. mine \subseteq st.active /\ mine \subseteq Record  BY <1>1
  <2> QED  BY <1>1, <2>1, FS_Subset
<1>4. ASSUME NEW active \in SUBSET Record, NEW seen \in SUBSET Nat, NEW legal \in BOOLEAN,
             IsFiniteSet(active), IsFiniteSet(seen)
      PROVE  [active |-> active, seen |-> seen, legal |-> legal] \in States
  BY <1>4 DEF States
<1>5. CASE e.op = "remind"
  BY <1>5 DEF Folds
<1>6. CASE e.op = "create"
  <2> DEFINE new == [id |-> e.id, due |-> e.due, every |-> e.every]
  <2>1. new \in Record  BY <1>2 DEF Record
  <2>2. IsFiniteSet(st.active \cup {new}) /\ IsFiniteSet(st.seen \cup {e.id})
    <3> HIDE DEF new
    <3> QED  BY <1>1, FS_AddElement
  <2>3. st.active \cup {new} \in SUBSET Record /\ st.seen \cup {e.id} \in SUBSET Nat
    BY <1>1, <1>2, <2>1
  <2>4. (st.legal /\ e.id \notin st.seen) \in BOOLEAN  OBVIOUS
  <2>5. Folds(st, e) = [active |-> st.active \cup {new}, seen |-> st.seen \cup {e.id},
                        legal |-> st.legal /\ e.id \notin st.seen]
    BY <1>6 DEF Folds
  <2> HIDE DEF new
  <2> QED  BY <1>4, <2>2, <2>3, <2>4, <2>5
<1>7. CASE e.op = "delete"
  <2>1. IsFiniteSet(st.active \ mine) /\ st.active \ mine \in SUBSET Record
    BY <1>1, FS_Subset
  <2>2. (st.legal /\ mine # {}) \in BOOLEAN  OBVIOUS
  <2>3. Folds(st, e) = [active |-> st.active \ mine, seen |-> st.seen,
                        legal |-> st.legal /\ mine # {}]
    BY <1>1, <1>7 DEF Folds
  <2> HIDE DEF mine
  <2> QED  BY <1>1, <1>4, <2>1, <2>2, <2>3
<1>8. CASE e.op = "dispatch"
  <2> DEFINE moved == UNION {Dispatched(r, e.at) : r \in mine}
  <2>1. moved \subseteq Record
    BY <1>2, <1>3, DispatchedIsRecord
  <2>2. IsFiniteSet(moved)
    <3>1. IsFiniteSet({Dispatched(r, e.at) : r \in mine})
      <4> DEFINE D == {Dispatched(r, e.at) : r \in mine}
                 f == [r \in mine |-> Dispatched(r, e.at)]
      <4>1. f \in [mine -> D] /\ \A X \in D : \E r \in mine : f[r] = X
        OBVIOUS
      <4> HIDE DEF mine, f, D
      <4>2. f \in Surjection(mine, D)  BY <4>1, Fun_IsSurj
      <4>3. IsFiniteSet(D)  BY <1>3, <4>2, FS_Surjection
      <4> QED  BY <4>3 DEF D
    <3>2. \A X \in {Dispatched(r, e.at) : r \in mine} : IsFiniteSet(X)
      BY <1>2, <1>3, DispatchedIsRecord
    <3> HIDE DEF mine
    <3> QED  BY <3>1, <3>2, FS_UNION
  <2> DEFINE active == (st.active \ mine) \cup moved
             allowed == st.legal /\ mine # {} /\ \A r \in mine : r.due <= e.at
  <2>3. active \in SUBSET Record /\ IsFiniteSet(active)
    <3>1. IsFiniteSet(st.active \ mine)  BY <1>1, FS_Subset
    <3> HIDE DEF mine, moved
    <3>2. IsFiniteSet(active)  BY <2>2, <3>1, FS_Union
    <3> QED  BY <1>1, <2>1, <3>2
  <2>4. allowed \in BOOLEAN  OBVIOUS
  <2>5. Folds(st, e) = [active |-> active, seen |-> st.seen, legal |-> allowed]
    BY <1>1, <1>8 DEF Folds
  <2> HIDE DEF mine, moved, active, allowed
  <2> QED  BY <1>1, <1>4, <2>3, <2>4, <2>5
<1> QED  BY <1>2, <1>5, <1>6, <1>7, <1>8

\* The fold of every log is a state: finitely many records, with instants for
\* targets, whatever the log holds.
LEMMA FoldIsState ==
  ASSUME NEW events \in Seq(Event)
  PROVE  Fold(events) \in States
<1>1. Unfolded \in States
  <2>1. IsFiniteSet({})  BY FS_EmptySet
  <2> QED  BY <2>1 DEF Unfolded, States
<1> QED  BY <1>1, FoldsIsState, FoldWithin

-----------------------------------------------------------------------------
(* The order of due records.                                               *)

\* Records that are told apart by their ids.
Distinct(set) == \A r, s \in set : r.id = s.id => r = s

\* Two records of a set are in order one way or the other, and never both.
LEMMA EarlierIsTotal ==
  ASSUME NEW set \in SUBSET Record, Distinct(set)
  PROVE  /\ \A a, b \in set : a # b => Earlier(a, b) \/ Earlier(b, a)
         /\ \A a, b, c \in set : Earlier(a, b) /\ Earlier(b, c) => Earlier(a, c)
         /\ \A a \in set : ~Earlier(a, a)
<1>1. \A a \in set : a.id \in Nat /\ a.due \in Int  BY DEF Record
<1>2. \A a, b \in set : a # b => a.id # b.id  BY DEF Distinct
<1> QED  BY <1>1, <1>2 DEF Earlier

\* A finite set of records that is not empty has a last one.
LEMMA HasLast ==
  ASSUME NEW set \in SUBSET Record, Distinct(set), IsFiniteSet(set), set # {}
  PROVE  \E last \in set : \A r \in set : r # last => Earlier(r, last)
<1> DEFINE HasLastOne(X) == \E last \in X : \A r \in X : r # last => Earlier(r, last)
           G == {n \in Nat : \A X \in SUBSET set :
                   Cardinality(X) = n + 1 => HasLastOne(X)}
<1>0. \A X \in SUBSET set : IsFiniteSet(X) /\ Cardinality(X) \in Nat
  BY FS_Subset, FS_CardinalityType
<1>1. 0 \in G
  <2>1. ASSUME NEW X \in SUBSET set, Cardinality(X) = 1 PROVE HasLastOne(X)
    <3>1. PICK r : X = {r}  BY <1>0, <2>1, FS_Singleton
    <3> QED  BY <3>1
  <2> QED  BY <2>1
<1>2. ASSUME NEW n \in Nat, n \in G, NEW X \in SUBSET set, Cardinality(X) = n + 2
      PROVE  HasLastOne(X)
  <2>1. X # {}
    <3>1. Cardinality(X) # 0  BY <1>2
    <3> QED  BY <3>1, FS_EmptySet
  <2>2. PICK r \in X : TRUE  BY <2>1
  <2>3. X \ {r} \in SUBSET set /\ Cardinality(X \ {r}) = n + 1
    <3>1. Cardinality(X \ {r}) = Cardinality(X) - 1
      BY <1>0, <2>2, FS_RemoveElement
    <3> QED  BY <3>1, <1>2
  <2>4. PICK last \in X \ {r} : \A s \in X \ {r} : s # last => Earlier(s, last)
    BY <1>2, <2>3
  <2>5. r \in set /\ last \in set /\ r # last /\ last \in X  OBVIOUS
  <2>6. CASE Earlier(r, last)
    BY <2>4, <2>5, <2>6
  <2>7. CASE Earlier(last, r)
    <3>1. ASSUME NEW s \in X, s # r PROVE Earlier(s, r)
      <4>1. s = last \/ Earlier(s, last)  BY <2>4, <3>1
      <4> QED  BY <2>5, <2>7, <4>1, EarlierIsTotal
    <3> QED  BY <3>1
  <2> QED  BY <2>5, <2>6, <2>7, EarlierIsTotal
<1>3. Cardinality(set) \in Nat /\ Cardinality(set) # 0
  BY <1>0, FS_EmptySet
<1>4. \A k \in 1..(Cardinality(set) - 1) : k - 1 \in G => k \in G
  <2>1. ASSUME NEW k \in 1..(Cardinality(set) - 1), k - 1 \in G PROVE k \in G
    <3>1. k - 1 \in Nat /\ (k - 1) + 2 = k + 1 /\ k \in Nat  OBVIOUS
    <3>2. \A X \in SUBSET set : Cardinality(X) = k + 1 => HasLastOne(X)
      BY <1>2, <2>1, <3>1
    <3> QED  BY <3>1, <3>2
  <2> QED  BY <2>1
<1>5. Cardinality(set) - 1 \in G
  <2> HIDE DEF G
  <2>1. Cardinality(set) - 1 \in Nat /\ Cardinality(set) - 1 \in 0..(Cardinality(set) - 1)
    BY <1>3
  <2> QED  BY <1>1, <1>4, <2>1, UpTo
<1> QED  BY <1>3, <1>5

\* An enumeration of a finite set in order.
Sorts(order, set) ==
  /\ order \in [1..Cardinality(set) -> set]
  /\ \A i, j \in 1..Cardinality(set) : i < j => Earlier(order[i], order[j])

\* Every finite set of records can be put in order.
LEMMA CanBeSorted ==
  ASSUME NEW set \in SUBSET Record, Distinct(set), IsFiniteSet(set)
  PROVE  \E order : Sorts(order, set)
<1> DEFINE G == {n \in Nat : \A X \in SUBSET set :
                   Cardinality(X) = n => \E order : Sorts(order, X)}
<1>0. \A X \in SUBSET set : IsFiniteSet(X) /\ Cardinality(X) \in Nat
  BY FS_Subset, FS_CardinalityType
<1>1. 0 \in G
  <2>1. ASSUME NEW X \in SUBSET set, Cardinality(X) = 0 PROVE \E order : Sorts(order, X)
    <3> DEFINE none == [i \in 1..0 |-> i]
    <3>1. 1..Cardinality(X) = {} /\ 1..0 = {}  BY <2>1
    <3>2. none \in [1..Cardinality(X) -> X]  BY <3>1
    <3>3. Sorts(none, X)  BY <3>1, <3>2 DEF Sorts
    <3> HIDE DEF none
    <3> QED  BY <3>3
  <2> QED  BY <2>1
<1>2. ASSUME NEW n \in Nat, n \in G, NEW X \in SUBSET set, Cardinality(X) = n + 1
      PROVE  \E order : Sorts(order, X)
  <2>1. X # {}
    <3>1. Cardinality(X) # 0  BY <1>2
    <3> QED  BY <3>1, FS_EmptySet
  <2>2. X \in SUBSET Record /\ Distinct(X) /\ IsFiniteSet(X)
    BY <1>0 DEF Distinct
  <2>3. PICK last \in X : \A r \in X : r # last => Earlier(r, last)
    BY <2>1, <2>2, HasLast
  <2> DEFINE rest == X \ {last}
  <2>4. rest \in SUBSET set /\ Cardinality(rest) = n
    <3>1. Cardinality(rest) = Cardinality(X) - 1
      BY <2>2, <2>3, FS_RemoveElement
    <3> QED  BY <3>1, <1>2
  <2>5. PICK first : Sorts(first, rest)
    <3> HIDE DEF rest
    <3> QED  BY <1>2, <2>4
  <2>6. /\ \A i \in 1..n : first[i] \in X /\ first[i] # last
        /\ \A i, j \in 1..n : i < j => Earlier(first[i], first[j])
    BY <2>4, <2>5 DEF Sorts
  <2> DEFINE order == [i \in 1..(n + 1) |-> IF i = n + 1 THEN last ELSE first[i]]
  <2>7. order \in [1..(n + 1) -> X]
    <3>1. ASSUME NEW i \in 1..(n + 1)
          PROVE  (IF i = n + 1 THEN last ELSE first[i]) \in X
      <4>1. i = n + 1 \/ i \in 1..n  OBVIOUS
      <4> QED  BY <2>6, <4>1
    <3> QED  BY <3>1
  <2>8. ASSUME NEW i \in 1..(n + 1), NEW j \in 1..(n + 1), i < j
        PROVE  Earlier(order[i], order[j])
    <3>1. i \in 1..n /\ i # n + 1  BY <2>8
    <3>2. order[i] = first[i]  BY <3>1
    <3>3. CASE j = n + 1
      <4>1. order[j] = last  BY <3>3
      <4>2. first[i] \in X /\ first[i] # last  BY <2>6, <3>1
      <4> QED  BY <2>3, <3>2, <4>1, <4>2
    <3>4. CASE j # n + 1
      <4>1. j \in 1..n /\ order[j] = first[j]  BY <3>4
      <4> QED  BY <2>6, <2>8, <3>1, <3>2, <4>1
    <3> QED  BY <3>3, <3>4
  <2>9. Sorts(order, X)
    <3> HIDE DEF order
    <3> QED  BY <1>2, <2>7, <2>8 DEF Sorts
  <2> HIDE DEF order
  <2> QED  BY <2>9
<1>3. \A k \in 1..Cardinality(set) : k - 1 \in G => k \in G
  <2>1. ASSUME NEW k \in 1..Cardinality(set), k - 1 \in G PROVE k \in G
    <3>1. k - 1 \in Nat /\ (k - 1) + 1 = k /\ k \in Nat  BY <1>0
    <3>2. \A X \in SUBSET set : Cardinality(X) = k => \E order : Sorts(order, X)
      BY <1>2, <2>1, <3>1
    <3> QED  BY <3>1, <3>2
  <2> QED  BY <2>1
<1>4. Cardinality(set) \in G
  <2> HIDE DEF G
  <2>1. Cardinality(set) \in Nat /\ Cardinality(set) \in 0..Cardinality(set)  BY <1>0
  <2> QED  BY <1>1, <1>3, <2>1, UpTo
<1> QED  BY <1>4

\* The order of a decision names each of its records once (dueDecision).
LEMMA InOrderEnumerates ==
  ASSUME NEW set \in SUBSET Record, Distinct(set), IsFiniteSet(set)
  PROVE  /\ Cardinality(set) \in Nat
         /\ InOrder(set) \in [1..Cardinality(set) -> set]
         /\ \A i, j \in 1..Cardinality(set) : i # j => InOrder(set)[i] # InOrder(set)[j]
         /\ \A r \in set : \E i \in 1..Cardinality(set) : InOrder(set)[i] = r
<1> DEFINE n == Cardinality(set)
<1>1. n \in Nat  BY FS_CardinalityType
<1>2. Sorts(InOrder(set), set)
  <2>1. PICK p : Sorts(p, set)  BY CanBeSorted
  <2>2. \E o \in [1..Cardinality(set) -> set] :
          \A i, j \in 1..Cardinality(set) : i < j => Earlier(o[i], o[j])
    BY <2>1 DEF Sorts
  <2> QED  BY <2>2 DEF InOrder, Sorts
<1> DEFINE order == InOrder(set)
<1>3. /\ order \in [1..n -> set]
      /\ \A i, j \in 1..n : i < j => Earlier(order[i], order[j])
  BY <1>2 DEF Sorts
<1> HIDE DEF order, n
<1>4. ASSUME NEW i \in 1..n, NEW j \in 1..n, i # j PROVE order[i] # order[j]
  <2>1. i < j \/ j < i  BY <1>1, <1>4
  <2>2. order[i] \in set /\ order[j] \in set  BY <1>3
  <2> QED  BY <1>3, <2>1, <2>2, EarlierIsTotal
<1>5. order \in Injection(1..n, set)
  BY <1>3, <1>4, Fun_IsInj
<1>6. Cardinality(1..n) = Cardinality(set)
  BY <1>1, FS_Interval DEF n
<1>7. order \in Surjection(1..n, set)
  BY <1>5, <1>6, FS_Injection
<1>8. \A r \in set : \E i \in 1..n : order[i] = r
  BY <1>7 DEF Surjection
<1> QED  BY <1>1, <1>3, <1>4, <1>8 DEF order, n

-----------------------------------------------------------------------------
(* What a decision appends.                                                *)

\* The records of a typed log.
LEMMA ActiveRecords ==
  ASSUME TypeOK
  PROVE  /\ Folded \in States /\ Active \in SUBSET Record /\ IsFiniteSet(Active)
         /\ Folded.seen \in SUBSET Nat /\ IsFiniteSet(Folded.seen) /\ now \in Nat
<1>1. Folded \in States  BY FoldIsState DEF TypeOK, Folded
<1>2. now \in Nat  BY HorizonAssumption DEF TypeOK
<1> QED  BY <1>1, <1>2 DEF Active, States

\* What a decision selects is due: a one-shot alone or every fixed rate.
LEMMA SelectedIsDue ==
  ASSUME TypeOK, Distinct(Active)
  PROVE  /\ Selected \subseteq Active /\ IsFiniteSet(Selected) /\ Distinct(Selected)
         /\ \A r \in Selected : r.due <= now
         /\ Due # {} => Selected # {}
<1>1. /\ Active \in SUBSET Record /\ IsFiniteSet(Active)  BY ActiveRecords
<1>2. Due \subseteq Active /\ \A r \in Due : r.due <= now  BY DEF Due
<1> DEFINE oneShots == {r \in Due : r.every = 0}
<1>3. CASE oneShots = {}
  <2>1. Selected = Due  BY <1>3 DEF Selected
  <2>2. IsFiniteSet(Due)  BY <1>1, <1>2, FS_Subset
  <2> QED  BY <1>2, <2>1, <2>2 DEF Distinct
<1>4. CASE oneShots # {}
  <2>1. oneShots \subseteq Active /\ oneShots \in SUBSET Record /\ Distinct(oneShots)
    BY <1>1, <1>2 DEF Distinct
  <2>2. Selected = {Head(InOrder(oneShots))}  BY <1>4 DEF Selected
  <2> HIDE DEF oneShots
  <2>3. IsFiniteSet(oneShots)  BY <1>1, <2>1, FS_Subset
  <2>4. /\ Cardinality(oneShots) \in Nat /\ Cardinality(oneShots) # 0
        /\ InOrder(oneShots) \in [1..Cardinality(oneShots) -> oneShots]
    BY <1>4, <2>1, <2>3, InOrderEnumerates, FS_EmptySet
  <2>5. Head(InOrder(oneShots)) \in oneShots
    <3>1. PICK n \in Nat \ {0} : n = Cardinality(oneShots)  BY <2>4
    <3>2. PICK order \in [1..n -> oneShots] : order = InOrder(oneShots)  BY <2>4, <3>1
    <3>3. order \in Seq(oneShots) /\ Len(order) = n /\ order # <<>>  BY <3>1, <3>2
    <3>4. Head(order) = order[1]  BY <3>3
    <3>5. order[1] \in oneShots  BY <3>1, <3>2
    <3> QED  BY <3>2, <3>4, <3>5
  <2>6. PICK r : r = Head(InOrder(oneShots)) /\ Selected = {r} /\ r \in oneShots
    BY <2>2, <2>5
  <2>7. r \in Due  BY <2>6 DEF oneShots
  <2>8. IsFiniteSet({r})  BY FS_Singleton
  <2> QED  BY <1>2, <2>6, <2>7, <2>8 DEF Distinct
<1> QED  BY <1>3, <1>4

\* The log with the reminder of a decision and the first j of its dispatches.
Written(j) ==
  log \o <<Reminder(Occurrences(Selected))>> \o SubSeq(Dispatches(Selected), 1, j)

\* The reminder and the dispatches of a decision are events.
LEMMA DecisionIsEvents ==
  ASSUME TypeOK, Distinct(Active)
  PROVE  /\ Cardinality(Selected) \in Nat
         /\ Reminder(Occurrences(Selected)) \in Event
         /\ Dispatches(Selected) \in Seq(Event)
         /\ Len(Dispatches(Selected)) = Cardinality(Selected)
         /\ \A i \in 1..Cardinality(Selected) :
              /\ InOrder(Selected)[i] \in Selected
              /\ Dispatches(Selected)[i]
                   = Change("dispatch", InOrder(Selected)[i].id, 0, 0, now)
<1>1. /\ Selected \in SUBSET Record /\ IsFiniteSet(Selected) /\ Distinct(Selected) /\ now \in Nat
  BY ActiveRecords, SelectedIsDue
<1> DEFINE n == Cardinality(Selected)
           order == InOrder(Selected)
<1>2. n \in Nat /\ order \in [1..n -> Selected]
  BY <1>1, InOrderEnumerates
<1>3. Occurrences(Selected) \in SUBSET (Nat \X Int)
  <2>1. \A r \in Selected : r.id \in Nat /\ Latest(r, now) \in Int
    BY <1>1, LatestIsInstant DEF Record
  <2>2. \A r \in Selected : <<r.id, Latest(r, now)>> \in Nat \X Int
    BY <2>1
  <2> QED  BY <2>2 DEF Occurrences
<1>4. Reminder(Occurrences(Selected)) \in Event
  BY <1>3 DEF Reminder, Event
<1> DEFINE D == Dispatches(Selected)
<1>5. D = [i \in 1..n |-> Change("dispatch", order[i].id, 0, 0, now)]
  BY DEF Dispatches
<1> HIDE DEF D, order, n
<1>6. ASSUME NEW i \in 1..n
      PROVE  order[i] \in Selected /\ Change("dispatch", order[i].id, 0, 0, now) \in Event
  <2>1. order[i] \in Selected  BY <1>2
  <2>2. order[i].id \in Nat  BY <1>1, <2>1 DEF Record
  <2> QED  BY <1>1, <2>1, <2>2 DEF Change, Event
<1>7. D \in [1..n -> Event]  BY <1>5, <1>6
<1>8. D \in Seq(Event) /\ Len(D) = n
  BY <1>2, <1>7
<1> QED  BY <1>2, <1>4, <1>5, <1>6, <1>8 DEF D, order, n

\* A decision writes its events one after the other.
LEMMA WrittenAppends ==
  ASSUME TypeOK, Distinct(Active)
  PROVE  /\ Written(0) = Append(log, Reminder(Occurrences(Selected)))
         /\ \A j \in 1..Cardinality(Selected) :
              Written(j) = Append(Written(j - 1), Dispatches(Selected)[j])
         /\ \A j \in 0..Cardinality(Selected) :
              Written(j) \in Seq(Event) /\ Len(Written(j)) = Len(log) + 1 + j
<1> DEFINE n == Cardinality(Selected)
           D == Dispatches(Selected)
           R == Reminder(Occurrences(Selected))
<1>1. log \in Seq(Event) /\ n \in Nat /\ R \in Event /\ D \in Seq(Event) /\ Len(D) = n
  BY DecisionIsEvents DEF TypeOK
<1>2. \A j \in 0..n : Written(j) = log \o <<R>> \o SubSeq(D, 1, j)
  BY DEF Written
<1> HIDE DEF n, D, R
<1>3. PICK head \in Seq(Event) : head = log \o <<R>> /\ Len(head) = Len(log) + 1
  <2>1. <<R>> \in Seq(Event) /\ Len(<<R>>) = 1  BY <1>1
  <2>2. log \o <<R>> \in Seq(Event) /\ Len(log \o <<R>>) = Len(log) + 1
    BY <1>1, <2>1, ConcatProperties
  <2> QED  BY <2>2
<1>4. ASSUME NEW j \in 0..n
      PROVE  /\ SubSeq(D, 1, j) \in Seq(Event) /\ Len(SubSeq(D, 1, j)) = j
             /\ \A i \in 1..j : SubSeq(D, 1, j)[i] = D[i]
  BY <1>1
<1>5. ASSUME NEW j \in 0..n
      PROVE  /\ Written(j) \in Seq(Event) /\ Len(Written(j)) = Len(log) + 1 + j
             /\ \A i \in 1..(Len(log) + 1 + j) :
                  Written(j)[i] = IF i <= Len(log) + 1 THEN head[i] ELSE D[i - (Len(log) + 1)]
  <2> DEFINE tail == SubSeq(D, 1, j)
  <2>1. tail \in Seq(Event) /\ Len(tail) = j /\ \A i \in 1..j : tail[i] = D[i]
    BY <1>4
  <2>2. Written(j) = head \o tail  BY <1>2, <1>3
  <2> HIDE DEF tail
  <2>3. /\ head \o tail \in Seq(Event) /\ Len(head \o tail) = Len(head) + Len(tail)
        /\ \A i \in 1..(Len(head) + Len(tail)) :
             (head \o tail)[i] = IF i <= Len(head) THEN head[i] ELSE tail[i - Len(head)]
    BY <2>1, ConcatProperties
  <2>4. Len(log) \in Nat  BY <1>1
  <2>5. ASSUME NEW i \in 1..(Len(log) + 1 + j)
        PROVE  Written(j)[i] = IF i <= Len(log) + 1 THEN head[i] ELSE D[i - (Len(log) + 1)]
    <3>1. i \in 1..(Len(head) + Len(tail))  BY <1>3, <2>1, <2>4
    <3>2. ~(i <= Len(log) + 1) => i - (Len(log) + 1) \in 1..j  BY <2>4
    <3> QED  BY <1>3, <2>1, <2>2, <2>3, <3>1, <3>2
  <2> QED  BY <1>3, <2>1, <2>2, <2>3, <2>5
<1>6. Written(0) = Append(log, R)
  <2>1. SubSeq(D, 1, 0) = <<>>  BY <1>1
  <2>2. Written(0) = head \o <<>>  BY <1>1, <1>2, <1>3, <2>1
  <2>3. head \o <<>> = head  BY ConcatEmptySeq
  <2>4. log \o <<R>> = Append(log, R)  BY <1>1, AppendIsConcat
  <2> QED  BY <1>3, <2>2, <2>3, <2>4
<1>7. ASSUME NEW j \in 1..n PROVE Written(j) = Append(Written(j - 1), D[j])
  <2>1. j \in 0..n /\ j - 1 \in 0..n /\ Len(log) \in Nat  BY <1>1
  <2> DEFINE shorter == Written(j - 1)
             longer == Written(j)
             m == Len(log) + j
  <2>2. /\ shorter \in Seq(Event) /\ Len(shorter) = m
        /\ \A i \in 1..m :
             shorter[i] = IF i <= Len(log) + 1 THEN head[i] ELSE D[i - (Len(log) + 1)]
    <3>1. Len(log) + 1 + (j - 1) = m  BY <2>1
    <3> QED  BY <1>5, <2>1, <3>1
  <2>3. /\ longer \in Seq(Event) /\ Len(longer) = m + 1
        /\ \A i \in 1..(m + 1) :
             longer[i] = IF i <= Len(log) + 1 THEN head[i] ELSE D[i - (Len(log) + 1)]
    <3>1. Len(log) + 1 + j = m + 1  BY <2>1
    <3> QED  BY <1>5, <2>1, <3>1
  <2>4. D[j] \in Event  BY <1>1
  <2>5. longer[m + 1] = D[j]
    <3>1. ~(m + 1 <= Len(log) + 1) /\ (m + 1) - (Len(log) + 1) = j /\ m + 1 \in 1..(m + 1)
      BY <2>1
    <3> QED  BY <2>3, <3>1
  <2> HIDE DEF shorter, longer
  <2>6. m \in Nat  BY <2>1
  <2> HIDE DEF m
  <2>7. /\ Append(shorter, D[j]) \in Seq(Event) /\ Len(Append(shorter, D[j])) = m + 1
        /\ \A i \in 1..m : Append(shorter, D[j])[i] = shorter[i]
        /\ Append(shorter, D[j])[m + 1] = D[j]
    BY <2>2, <2>4, AppendProperties
  <2>8. ASSUME NEW i \in 1..(m + 1) PROVE longer[i] = Append(shorter, D[j])[i]
    <3>1. i = m + 1 \/ i \in 1..m  BY <2>6
    <3> QED  BY <2>2, <2>3, <2>5, <2>6, <2>7, <3>1
  <2>9. longer = Append(shorter, D[j])
    BY <2>3, <2>7, <2>8, SeqEqual
  <2> QED  BY <2>9 DEF longer, shorter
<1> QED  BY <1>5, <1>6, <1>7 DEF n, D, R

-----------------------------------------------------------------------------
(* Logs the strict fold accepts, also cut by a crash.                      *)

\* A state of the fold that no event has spoilt: the records are told apart by
\* their ids, and the ids in use are the first ones, so the next one is free.
Sound(st) ==
  /\ st.legal = TRUE
  /\ Distinct(st.active)
  /\ \A r \in st.active : r.id \in st.seen
  /\ \E k \in Nat : st.seen = 1..k

\* Every dispatch of a log comes after the reminder of its occurrence.
ComesFirst(events) ==
  \A i \in DOMAIN events : events[i].op = "dispatch" =>
      \A r \in Fold(SubSeq(events, 1, i - 1)).active : r.id = events[i].id =>
          \E j \in 1..(i - 1) : <<r.id, Latest(r, events[i].at)>> \in events[j].items

\* What holds of the log and of whatever a crash leaves of it.
Durably(events) ==
  /\ events \in Seq(Event)
  /\ \A n \in 0..Len(events) : Sound(Fold(SubSeq(events, 1, n)))
  /\ ComesFirst(events)

\* A whole log is its own longest prefix.
LEMMA WholePrefix ==
  ASSUME NEW S, NEW events \in Seq(S)
  PROVE  SubSeq(events, 1, Len(events)) = events
<1>1. /\ SubSeq(events, 1, Len(events)) \in Seq(S)
      /\ Len(SubSeq(events, 1, Len(events))) = Len(events)
      /\ \A i \in 1..Len(events) : SubSeq(events, 1, Len(events))[i] = events[i]
  OBVIOUS
<1> QED  BY <1>1, SeqEqual

\* A prefix of a prefix is a prefix.
LEMMA PrefixOfPrefix ==
  ASSUME NEW S, NEW events \in Seq(S), NEW d \in 0..Len(events), NEW n \in 0..d
  PROVE  SubSeq(SubSeq(events, 1, d), 1, n) = SubSeq(events, 1, n)
<1> DEFINE cut == SubSeq(events, 1, d)
<1>1. cut \in Seq(S) /\ Len(cut) = d /\ \A i \in 1..d : cut[i] = events[i]
  OBVIOUS
<1> HIDE DEF cut
<1>2. /\ SubSeq(cut, 1, n) \in Seq(S) /\ Len(SubSeq(cut, 1, n)) = n
      /\ \A i \in 1..n : SubSeq(cut, 1, n)[i] = cut[i]
  BY <1>1
<1>3. /\ SubSeq(events, 1, n) \in Seq(S) /\ Len(SubSeq(events, 1, n)) = n
      /\ \A i \in 1..n : SubSeq(events, 1, n)[i] = events[i]
  OBVIOUS
<1>4. \A i \in 1..n : SubSeq(cut, 1, n)[i] = SubSeq(events, 1, n)[i]
  BY <1>1, <1>2, <1>3
<1>5. SubSeq(cut, 1, n) = SubSeq(events, 1, n)
  BY <1>2, <1>3, <1>4, SeqEqual
<1> QED  BY <1>5 DEF cut

\* An append does not touch the prefixes there were.
LEMMA PrefixOfAppend ==
  ASSUME NEW S, NEW events \in Seq(S), NEW e \in S, NEW n \in 0..Len(events)
  PROVE  SubSeq(Append(events, e), 1, n) = SubSeq(events, 1, n)
<1> DEFINE longer == Append(events, e)
<1>1. /\ longer \in Seq(S) /\ Len(longer) = Len(events) + 1
      /\ \A i \in 1..Len(events) : longer[i] = events[i]
  BY AppendProperties
<1> HIDE DEF longer
<1>2. /\ SubSeq(longer, 1, n) \in Seq(S) /\ Len(SubSeq(longer, 1, n)) = n
      /\ \A i \in 1..n : SubSeq(longer, 1, n)[i] = longer[i]
  BY <1>1
<1>3. /\ SubSeq(events, 1, n) \in Seq(S) /\ Len(SubSeq(events, 1, n)) = n
      /\ \A i \in 1..n : SubSeq(events, 1, n)[i] = events[i]
  OBVIOUS
<1>4. \A i \in 1..n : SubSeq(longer, 1, n)[i] = SubSeq(events, 1, n)[i]
  BY <1>1, <1>2, <1>3
<1>5. SubSeq(longer, 1, n) = SubSeq(events, 1, n)
  BY <1>2, <1>3, <1>4, SeqEqual
<1> QED  BY <1>5 DEF longer

\* A log without events.
LEMMA DurablyEmpty == Durably(<<>>)
<1>1. <<>> \in Seq(Event) /\ Len(<<>>) = 0 /\ DOMAIN <<>> = {}
  OBVIOUS
<1>2. Fold(SubSeq(<<>>, 1, 0)) = Unfolded
  <2>1. SubSeq(<<>>, 1, 0) = <<>>  BY <1>1, WholePrefix
  <2> QED  BY <2>1, FoldEmpty
<1>3. Sound(Unfolded)
  <2>1. {} = 1..0  OBVIOUS
  <2> QED  BY <2>1 DEF Sound, Unfolded, Distinct
<1>4. \A n \in 0..Len(<<>>) : n = 0  BY <1>1
<1>5. ComesFirst(<<>>)  BY <1>1 DEF ComesFirst
<1>6. \A n \in 0..Len(<<>>) : Sound(Fold(SubSeq(<<>>, 1, n)))
  BY <1>2, <1>3, <1>4
<1> QED  BY <1>1, <1>5, <1>6 DEF Durably

\* A log that a crash has cut.
LEMMA DurablyCut ==
  ASSUME NEW events, Durably(events), NEW d \in 0..Len(events)
  PROVE  Durably(SubSeq(events, 1, d))
<1> DEFINE cut == SubSeq(events, 1, d)
<1>0. events \in Seq(Event)  BY DEF Durably
<1>1. cut \in Seq(Event) /\ Len(cut) = d /\ \A i \in 1..d : cut[i] = events[i]
  BY <1>0
<1>2. \A n \in 0..d : SubSeq(cut, 1, n) = SubSeq(events, 1, n)
  BY <1>0, PrefixOfPrefix
<1> HIDE DEF cut
<1>3. \A n \in 0..d : Sound(Fold(SubSeq(cut, 1, n)))
  <2>1. \A n \in 0..d : n \in 0..Len(events)  BY <1>0
  <2> QED  BY <1>2, <2>1 DEF Durably
<1>4. ComesFirst(cut)
  <2> SUFFICES ASSUME NEW i \in DOMAIN cut, cut[i].op = "dispatch",
                      NEW r \in Fold(SubSeq(cut, 1, i - 1)).active, r.id = cut[i].id
               PROVE  \E j \in 1..(i - 1) : <<r.id, Latest(r, cut[i].at)>> \in cut[j].items
    BY DEF ComesFirst
  <2>1. i \in 1..d /\ i - 1 \in 0..d /\ i \in DOMAIN events /\ cut[i] = events[i]
    BY <1>0, <1>1
  <2>2. r \in Fold(SubSeq(events, 1, i - 1)).active  BY <1>2, <2>1
  <2>3. PICK j \in 1..(i - 1) : <<r.id, Latest(r, events[i].at)>> \in events[j].items
    BY <2>1, <2>2 DEF Durably, ComesFirst
  <2>4. j \in 1..d  BY <2>1
  <2> QED  BY <1>1, <2>1, <2>3, <2>4
<1> QED  BY <1>1, <1>3, <1>4 DEF Durably, cut

\* A log with one more event that the fold accepts, and that comes after its
\* reminder if it is a dispatch.
LEMMA DurablyAppend ==
  ASSUME NEW events, Durably(events), NEW e \in Event, Sound(Folds(Fold(events), e)),
         e.op = "dispatch" => \A r \in Fold(events).active : r.id = e.id =>
             \E j \in DOMAIN events : <<r.id, Latest(r, e.at)>> \in events[j].items
  PROVE  Durably(Append(events, e))
<1> DEFINE longer == Append(events, e)
           n == Len(events)
<1>0. events \in Seq(Event)  BY DEF Durably
<1>1. /\ n \in Nat /\ longer \in Seq(Event) /\ Len(longer) = n + 1
      /\ \A i \in 1..n : longer[i] = events[i]
      /\ longer[n + 1] = e /\ DOMAIN longer = 1..(n + 1) /\ DOMAIN events = 1..n
  BY <1>0, AppendProperties
<1>2. \A k \in 0..n : SubSeq(longer, 1, k) = SubSeq(events, 1, k)
  BY <1>0, PrefixOfAppend
<1>3. Fold(longer) = Folds(Fold(events), e)
  BY <1>0, FoldAppend
<1>4. SubSeq(longer, 1, n + 1) = longer
  BY <1>1, WholePrefix
<1>5. SubSeq(events, 1, n) = events
  BY <1>0, WholePrefix
<1>6. \A k \in 0..n : Sound(Fold(SubSeq(events, 1, k)))
  BY DEF Durably
<1> HIDE DEF longer, n
<1>7. ASSUME NEW k \in 0..(n + 1) PROVE Sound(Fold(SubSeq(longer, 1, k)))
  <2>1. CASE k = n + 1  BY <1>3, <1>4, <2>1
  <2>2. CASE k # n + 1
    <3>1. k \in 0..n  BY <1>1, <2>2
    <3> QED  BY <1>2, <1>6, <3>1
  <2> QED  BY <2>1, <2>2
<1>8. ComesFirst(longer)
  <2> SUFFICES ASSUME NEW i \in 1..(n + 1), longer[i].op = "dispatch",
                      NEW r \in Fold(SubSeq(longer, 1, i - 1)).active, r.id = longer[i].id
               PROVE  \E j \in 1..(i - 1) : <<r.id, Latest(r, longer[i].at)>> \in longer[j].items
    BY <1>1 DEF ComesFirst
  <2>1. i - 1 \in 0..n  BY <1>1
  <2>2. r \in Fold(SubSeq(events, 1, i - 1)).active  BY <1>2, <2>1
  <2>3. CASE i = n + 1
    <3>1. i - 1 = n /\ longer[i] = e  BY <1>1, <2>3
    <3>2. r \in Fold(events).active  BY <1>5, <2>2, <3>1
    <3>3. PICK j \in 1..n : <<r.id, Latest(r, e.at)>> \in events[j].items
      BY <1>1, <3>1, <3>2
    <3> QED  BY <1>1, <3>1, <3>3
  <2>4. CASE i # n + 1
    <3>1. i \in 1..n /\ longer[i] = events[i]  BY <1>1, <2>4
    <3>2. PICK j \in 1..(i - 1) : <<r.id, Latest(r, events[i].at)>> \in events[j].items
      BY <1>1, <2>2, <3>1 DEF Durably, ComesFirst
    <3>3. j \in 1..n  BY <1>1, <3>1
    <3> QED  BY <1>1, <3>1, <3>2, <3>3
  <2> QED  BY <2>3, <2>4
<1> QED  BY <1>1, <1>7, <1>8 DEF Durably, longer

-----------------------------------------------------------------------------
(* The events of the program.                                              *)

\* The state of a log that nothing has spoilt.
LEMMA SoundState ==
  ASSUME TypeOK, Durably(log)
  PROVE  /\ Sound(Folded)
         /\ Folded = [active |-> Active, seen |-> Folded.seen, legal |-> TRUE]
         /\ Distinct(Active) /\ \A r \in Active : r.id \in Folded.seen
<1>1. Len(log) \in 0..Len(log) /\ SubSeq(log, 1, Len(log)) = log
  BY WholePrefix DEF Durably
<1>2. Sound(Folded)
  BY <1>1 DEF Durably, Folded
<1>3. Folded \in States  BY ActiveRecords
<1> QED  BY <1>2, <1>3 DEF Sound, States, Active

\* A reminder spoils nothing.
LEMMA RemindKeeps ==
  ASSUME NEW st, NEW items
  PROVE  Folds(st, Reminder(items)) = st
BY DEF Folds, Reminder

\* A new reminder takes the next free id (allocateScheduleId).
LEMMA CreateKeeps ==
  ASSUME TypeOK, Durably(log), NEW due, NEW every
  PROVE  /\ Sound(Folds(Folded, Change("create", NextId, due, every, 0)))
         /\ NextId \in Nat /\ NextId \notin Folded.seen
         /\ Folds(Folded, Change("create", NextId, due, every, 0)).active
              = Active \cup {[id |-> NextId, due |-> due, every |-> every]}
         /\ Folds(Folded, Change("create", NextId, due, every, 0)).seen
              = Folded.seen \cup {NextId}
<1>1. /\ Distinct(Active) /\ \A r \in Active : r.id \in Folded.seen
      /\ Folded.legal = TRUE
  BY SoundState DEF Sound
<1>2. PICK k \in Nat : Folded.seen = 1..k  BY SoundState DEF Sound
<1>3. NextId = k + 1
  <2>1. Cardinality(1..k) = k
    <3>1. Cardinality(1..k) = IF 1 > k THEN 0 ELSE k - 1 + 1  BY FS_Interval
    <3> QED  BY <3>1
  <2> QED  BY <1>2, <2>1 DEF NextId
<1>4. k + 1 \notin 1..k /\ 1..k \cup {k + 1} = 1..(k + 1)  OBVIOUS
<1> DEFINE new == [id |-> NextId, due |-> due, every |-> every]
           st == Folds(Folded, Change("create", NextId, due, every, 0))
<1>5. st = [active |-> Active \cup {new}, seen |-> Folded.seen \cup {NextId},
            legal |-> Folded.legal /\ NextId \notin Folded.seen]
  BY DEF Folds, Change, Active
<1>6. new.id = NextId  OBVIOUS
<1> HIDE DEF new, st
<1>7. st.active = Active \cup {new} /\ st.seen = Folded.seen \cup {NextId}
  BY <1>5
<1>8. st.legal = TRUE
  <2>1. Folded.legal /\ NextId \notin Folded.seen  BY <1>1, <1>2, <1>3, <1>4
  <2>2. st.legal = (Folded.legal /\ NextId \notin Folded.seen)  BY <1>5
  <2> QED  BY <2>1, <2>2
<1>9. Distinct(st.active)
  <2>1. \A r \in Active : r.id # new.id  BY <1>1, <1>2, <1>3, <1>4, <1>6
  <2> QED  BY <1>1, <1>7, <2>1 DEF Distinct
<1>10. \A r \in st.active : r.id \in st.seen  BY <1>1, <1>6, <1>7
<1>11. st.seen = 1..(k + 1) /\ k + 1 \in Nat  BY <1>2, <1>3, <1>4, <1>7
<1>12. \E n \in Nat : st.seen = 1..n  BY <1>11
<1>13. Sound(st)  BY <1>8, <1>9, <1>10, <1>12 DEF Sound
<1>14. NextId \in Nat /\ NextId \notin Folded.seen  BY <1>2, <1>3, <1>4
<1> QED  BY <1>7, <1>13, <1>14 DEF st, new

\* An active reminder can be deleted.
LEMMA DeleteKeeps ==
  ASSUME TypeOK, Durably(log), NEW id, \E r \in Active : r.id = id, NEW due, NEW every, NEW at
  PROVE  /\ Sound(Folds(Folded, Change("delete", id, due, every, at)))
         /\ Folds(Folded, Change("delete", id, due, every, at)).active \subseteq Active
         /\ Folds(Folded, Change("delete", id, due, every, at)).seen = Folded.seen
<1>1. /\ Distinct(Active) /\ \A r \in Active : r.id \in Folded.seen
      /\ Folded.legal = TRUE /\ \E k \in Nat : Folded.seen = 1..k
      /\ Folded = [active |-> Active, seen |-> Folded.seen, legal |-> TRUE]
  BY SoundState DEF Sound
<1> DEFINE st == Folds(Folded, Change("delete", id, due, every, at))
           mine == {r \in Active : r.id = id}
<1>2. mine # {}  OBVIOUS
<1>3. st = [Folded EXCEPT !.active = @ \ mine, !.legal = @ /\ mine # {}]
  BY DEF Folds, Change, Active
<1> HIDE DEF st, mine
<1>4. st.active = Active \ mine /\ st.seen = Folded.seen
  BY <1>1, <1>3
<1>5. st.legal = TRUE
  <2>1. st.legal = (Folded.legal /\ mine # {})  BY <1>1, <1>3
  <2> QED  BY <1>1, <1>2, <2>1
<1>6. Sound(st)  BY <1>1, <1>4, <1>5 DEF Sound, Distinct
<1> QED  BY <1>4, <1>6 DEF st

\* A dispatch leaves one record at most, with a later target.
LEMMA DispatchedIsOne ==
  ASSUME NEW r, NEW at, NEW s \in Dispatched(r, at), NEW t \in Dispatched(r, at)
  PROVE  s = t
BY DEF Dispatched

\* A due reminder is dispatched: it leaves, or moves on.
LEMMA DispatchKeeps ==
  ASSUME NEW st \in States, Sound(st), NEW r \in st.active, NEW at \in Nat, r.due <= at
  PROVE  /\ Sound(Folds(st, Change("dispatch", r.id, 0, 0, at)))
         /\ Folds(st, Change("dispatch", r.id, 0, 0, at)).active
              = (st.active \ {r}) \cup Dispatched(r, at)
         /\ Folds(st, Change("dispatch", r.id, 0, 0, at)).seen = st.seen
<1> DEFINE mine == {s \in st.active : s.id = r.id}
           after == Folds(st, Change("dispatch", r.id, 0, 0, at))
<1>1. mine = {r}  BY DEF Sound, Distinct
<1>2. UNION {Dispatched(s, at) : s \in mine} = Dispatched(r, at)
  BY <1>1
<1>3. after = [st EXCEPT !.active = (@ \ mine) \cup UNION {Dispatched(s, at) : s \in mine},
                         !.legal = @ /\ mine # {} /\ \A s \in mine : s.due <= at]
  BY DEF Folds, Change
<1>4. (mine # {} /\ \A s \in mine : s.due <= at) /\ st.legal = TRUE  BY <1>1 DEF Sound
<1>5. r \in Record  BY DEF States
<1> HIDE DEF mine, after
<1>6. after.active = (st.active \ {r}) \cup Dispatched(r, at) /\ after.seen = st.seen
  BY <1>1, <1>2, <1>3 DEF States
<1>7. after.legal = TRUE
  <2>1. after.legal = (st.legal /\ mine # {} /\ \A s \in mine : s.due <= at)
    BY <1>3 DEF States
  <2> QED  BY <1>4, <2>1
<1>8. \A s \in Dispatched(r, at) : s.id = r.id  BY <1>5, DispatchedIsRecord
<1>9. \A s \in after.active : s.id \in after.seen  BY <1>6, <1>8 DEF Sound
<1>10. Distinct(after.active)
  <2> SUFFICES ASSUME NEW s \in after.active, NEW t \in after.active, s.id = t.id
               PROVE  s = t
    BY DEF Distinct
  <2>1. CASE s \in Dispatched(r, at) /\ t \in Dispatched(r, at)  BY <2>1, DispatchedIsOne
  <2>2. CASE s \in st.active \ {r} /\ t \in st.active \ {r}  BY <2>2 DEF Sound, Distinct
  <2>3. \A u \in st.active \ {r} : u.id # r.id  BY DEF Sound, Distinct
  <2> QED  BY <1>6, <1>8, <2>1, <2>2, <2>3
<1>11. Sound(after)  BY <1>6, <1>7, <1>9, <1>10 DEF Sound
<1> QED  BY <1>6, <1>11 DEF after

\* What a decision writes comes after the log that was there.
LEMMA WrittenKeeps ==
  ASSUME TypeOK, Distinct(Active), NEW j \in 0..Cardinality(Selected)
  PROVE  /\ \A i \in 1..Len(log) : Written(j)[i] = log[i]
         /\ Written(j)[Len(log) + 1] = Reminder(Occurrences(Selected))
<1> DEFINE D == Dispatches(Selected)
           R == Reminder(Occurrences(Selected))
           n == Cardinality(Selected)
<1>1. log \in Seq(Event) /\ n \in Nat /\ R \in Event /\ D \in Seq(Event) /\ Len(D) = n
  BY DecisionIsEvents DEF TypeOK
<1>2. j \in 0..n /\ Written(j) = log \o <<R>> \o SubSeq(D, 1, j)  BY DEF Written
<1> HIDE DEF n, D, R
<1>3. SubSeq(D, 1, j) \in Seq(Event)  BY <1>1, <1>2
<1>4. <<R>> \in Seq(Event) /\ Len(<<R>>) = 1 /\ <<R>>[1] = R  BY <1>1
<1> DEFINE head == log \o <<R>>
<1>5. /\ head \in Seq(Event) /\ Len(head) = Len(log) + 1
      /\ \A i \in 1..(Len(log) + 1) :
           head[i] = IF i <= Len(log) THEN log[i] ELSE <<R>>[i - Len(log)]
  BY <1>1, <1>4, ConcatProperties
<1> HIDE DEF head
<1>6. \A i \in 1..Len(head) : (head \o SubSeq(D, 1, j))[i] = head[i]
  <2>1. \A i \in 1..(Len(head) + Len(SubSeq(D, 1, j))) : (head \o SubSeq(D, 1, j))[i]
          = IF i <= Len(head) THEN head[i] ELSE SubSeq(D, 1, j)[i - Len(head)]
    BY <1>3, <1>5, ConcatProperties
  <2>2. Len(SubSeq(D, 1, j)) \in Nat /\ Len(head) \in Nat  BY <1>3, <1>5
  <2> QED  BY <2>1, <2>2
<1>7. Len(log) \in Nat  BY <1>1
<1>8. \A i \in 1..Len(log) : Written(j)[i] = log[i]
  BY <1>2, <1>5, <1>6, <1>7 DEF head
<1>9. Written(j)[Len(log) + 1] = R
  <2>1. Len(log) + 1 \in 1..(Len(log) + 1) /\ ~(Len(log) + 1 <= Len(log))
        /\ (Len(log) + 1) - Len(log) = 1
    BY <1>7
  <2>2. head[Len(log) + 1] = R  BY <1>4, <1>5, <2>1
  <2> QED  BY <1>2, <1>5, <1>6, <2>1, <2>2 DEF head
<1> QED  BY <1>8, <1>9 DEF R

\* What a decision leaves: each dispatched reminder is gone or moved on, each
\* other one is as it was, and the log is sound wherever a failure stops it.
LEMMA DecisionKeeps ==
  ASSUME TypeOK, Durably(log), NEW k \in 0..Cardinality(Selected)
  PROVE  /\ Durably(Written(k))
         /\ Fold(Written(k)).seen = Folded.seen
         /\ \A r \in Active : (\A i \in 1..k : r # InOrder(Selected)[i])
                                => r \in Fold(Written(k)).active
         /\ \A s \in Fold(Written(k)).active :
              \/ s \in Active /\ \A i \in 1..k : s # InOrder(Selected)[i]
              \/ \E i \in 1..k : s \in Dispatched(InOrder(Selected)[i], now)
<1> DEFINE n == Cardinality(Selected)
           order == InOrder(Selected)
           D == Dispatches(Selected)
           R == Reminder(Occurrences(Selected))
           Left(j) == /\ \A r \in Active : (\A i \in 1..j : r # order[i])
                                              => r \in Fold(Written(j)).active
                      /\ \A s \in Fold(Written(j)).active :
                           \/ s \in Active /\ \A i \in 1..j : s # order[i]
                           \/ \E i \in 1..j : s \in Dispatched(order[i], now)
           G == {j \in 0..n : /\ Durably(Written(j)) /\ Fold(Written(j)).seen = Folded.seen
                              /\ Left(j)}
<1>1. /\ Distinct(Active) /\ Active \in SUBSET Record /\ now \in Nat /\ Sound(Folded)
      /\ Folded \in States
  BY SoundState, ActiveRecords
<1>2. /\ n \in Nat /\ R \in Event
      /\ \A i \in 1..n : order[i] \in Selected /\ D[i] = Change("dispatch", order[i].id, 0, 0, now)
      /\ D \in Seq(Event) /\ Len(D) = n
  BY <1>1, DecisionIsEvents
<1>3. /\ Selected \subseteq Active /\ \A r \in Selected : r.due <= now
      /\ \A i, j \in 1..n : i # j => order[i] # order[j]
  <2>1. Selected \in SUBSET Record /\ Distinct(Selected) /\ IsFiniteSet(Selected)
    BY <1>1, SelectedIsDue
  <2> QED  BY <1>1, <2>1, SelectedIsDue, InOrderEnumerates
<1>4. /\ Written(0) = Append(log, R)
      /\ \A j \in 1..n : Written(j) = Append(Written(j - 1), D[j])
      /\ \A j \in 0..n : Written(j) \in Seq(Event) /\ Len(Written(j)) = Len(log) + 1 + j
  BY <1>1, WrittenAppends
<1>5. \A j \in 0..n : Written(j)[Len(log) + 1] = R
  BY <1>1, WrittenKeeps
<1>6. \A i \in 1..n : <<order[i].id, Latest(order[i], now)>> \in R.items
  BY <1>2 DEF Reminder, Occurrences
<1>7. R.op = "remind" /\ Folds(Folded, R) = Folded  BY RemindKeeps DEF Reminder
<1>8. log \in Seq(Event) /\ Len(log) \in Nat  BY DEF Durably
<1> HIDE DEF n, order, D, R
<1>9. Fold(Written(0)) = Folded
  BY <1>2, <1>4, <1>7, <1>8, FoldAppend DEF Folded
<1>10. 0 \in G
  <2>1. Durably(Written(0))
    BY <1>1, <1>2, <1>4, <1>7, DurablyAppend DEF Folded
  <2>2. Left(0)  BY <1>9 DEF Active
  <2>3. 0 \in 0..n  BY <1>2
  <2> QED  BY <1>9, <2>1, <2>2, <2>3
<1>11. ASSUME NEW j \in 1..n, j - 1 \in G PROVE j \in G
  <2>1. j \in 0..n /\ j - 1 \in 0..n  BY <1>2
  <2>2. PICK st : st = Fold(Written(j - 1))  OBVIOUS
  <2>3. Durably(Written(j - 1)) /\ st.seen = Folded.seen /\ Left(j - 1)
    BY <1>11, <2>2
  <2>4. PICK r \in Active : r = order[j] /\ r.due <= now
    BY <1>2, <1>3
  <2>5. r \in st.active
    <3>1. \A i \in 1..(j - 1) : r # order[i]  BY <1>2, <1>3, <2>4
    <3> QED  BY <2>2, <2>3, <2>4, <3>1
  <2>6. st \in States  BY <1>4, <2>1, <2>2, FoldIsState
  <2>7. Sound(st)
    <3>1. Len(Written(j - 1)) \in 0..Len(Written(j - 1))  BY <1>4, <1>8, <2>1
    <3>2. SubSeq(Written(j - 1), 1, Len(Written(j - 1))) = Written(j - 1)
      BY <1>4, <2>1, WholePrefix
    <3> QED  BY <2>2, <2>3, <3>1, <3>2 DEF Durably
  <2>8. /\ Sound(Folds(st, D[j])) /\ Folds(st, D[j]).seen = st.seen
        /\ Folds(st, D[j]).active = (st.active \ {r}) \cup Dispatched(r, now)
    BY <1>1, <1>2, <2>4, <2>5, <2>6, <2>7, DispatchKeeps
  <2>9. Fold(Written(j)) = Folds(st, D[j]) /\ D[j] \in Event
    <3>1. D[j] \in Event  BY <1>2
    <3> QED  BY <1>4, <2>1, <2>2, <3>1, FoldAppend
  <2>10. Durably(Written(j))
    <3>1. Len(log) + 1 \in DOMAIN Written(j - 1)  BY <1>4, <1>8, <2>1
    <3>2. \A s \in st.active : s.id = D[j].id =>
             \E i \in DOMAIN Written(j - 1) : <<s.id, Latest(s, D[j].at)>> \in Written(j - 1)[i].items
      <4> SUFFICES ASSUME NEW s \in st.active, s.id = D[j].id
                   PROVE  <<s.id, Latest(s, D[j].at)>> \in R.items
        BY <1>5, <2>1, <3>1
      <4>1. D[j].id = r.id /\ D[j].at = now  BY <1>2, <2>4 DEF Change
      <4>2. s = r  BY <2>5, <2>7, <4>1 DEF Sound, Distinct
      <4> QED  BY <1>6, <2>4, <4>1, <4>2
    <3> HIDE DEF Left
    <3>3. Durably(Append(Written(j - 1), D[j]))
      BY <2>2, <2>3, <2>8, <2>9, <3>2, DurablyAppend
    <3> QED  BY <1>4, <3>3
  <2>11. Left(j)
    <3>1. \A i \in 1..j : i = j \/ i \in 1..(j - 1)  OBVIOUS
    <3>2. \A i \in 1..(j - 1) : i \in 1..j  OBVIOUS
    <3>3. ASSUME NEW s \in Active, \A i \in 1..j : s # order[i]
          PROVE  s \in Fold(Written(j)).active
      <4>1. s \in st.active  BY <2>2, <2>3, <3>2, <3>3
      <4>2. s # r  BY <2>4, <3>3
      <4> QED  BY <2>8, <2>9, <4>1, <4>2
    <3>4. ASSUME NEW s \in Fold(Written(j)).active
          PROVE  \/ s \in Active /\ \A i \in 1..j : s # order[i]
                 \/ \E i \in 1..j : s \in Dispatched(order[i], now)
      <4>1. CASE s \in Dispatched(r, now)  BY <2>4, <4>1
      <4>2. CASE s \in st.active /\ s # r
        <5>1. \/ s \in Active /\ \A i \in 1..(j - 1) : s # order[i]
              \/ \E i \in 1..(j - 1) : s \in Dispatched(order[i], now)
          BY <2>2, <2>3, <4>2
        <5> QED  BY <2>4, <3>1, <3>2, <4>2, <5>1
      <4> QED  BY <2>8, <2>9, <3>4, <4>1, <4>2
    <3> QED  BY <3>3, <3>4
  <2> HIDE DEF Left
  <2> QED  BY <2>1, <2>2, <2>3, <2>8, <2>9, <2>10, <2>11
<1>12. k \in G
  <2>1. k \in 0..n  BY DEF n
  <2> HIDE DEF G
  <2> QED  BY <1>2, <1>10, <1>11, <2>1, UpTo
<1> QED  BY <1>12 DEF order

-----------------------------------------------------------------------------
(* The inductive invariants.                                               *)

\* The queue lets one of the runtime and the calls past its head at a time
\* (runScheduleTransaction).
Serial ==
  /\ \A c \in Calls : call[c].at \in {"preflight", "barrier"} => Holds(c)
  /\ drive \in {"preflight", "maintenance", "barrier"} => Holds(Runtime)

\* The log does not change between the question and the answer of a first
\* flush, and never gets shorter than a flush was asked for.
Goals ==
  \A c \in Calls :
     /\ call[c].at = "preflight" => call[c].goal = Len(log)
     /\ call[c].at = "barrier" => call[c].goal <= Len(log)

LogInv == TypeOK /\ Durably(log) /\ Serial /\ Goals

\* Where the runtime can be when it has faulted, and what a failed maintenance
\* or a failed start leaves.
Driven ==
  /\ faulted => ~accepted /\ drive \in {"maintenance", "loop", "over", "none"}
  /\ drive = "maintenance" /\ ~accepted => faulted \/ stalled
  /\ drive = "rejected" => ~accepted
  /\ drive \in {"preflight", "maintenance", "rejected"} => timer = 0
  /\ stopping \/ faulted => timer = 0
  /\ drive = "none" /\ ~stopping /\ ~faulted => ~requested \/ stalled

\* What wakes the runtime for its records.
Woken ==
  \/ idleWait
  \/ /\ timer > 0
     /\ jumps = 0 => \A r \in Active : timer - 1 <= Later(r.due, now) - now

\* From its last decision on the runtime is woken, or knows of a request.
Wakes ==
  /\ drive \in {"loop", "over", "none"}
  /\ ~requested /\ ~stopping /\ ~faulted /\ ~stalled /\ Active # {}
  => Woken

WakeInv == Driven /\ Wakes

\* An occurrence that was reminded of is behind its reminder.
Behind ==
  crashes = 0 /\ ~faulted =>
     \A i \in DOMAIN log : \A o \in log[i].items :
        /\ o[1] \in Folded.seen
        /\ \A r \in Active : r.id = o[1] => o[2] < r.due

RepeatInv == NoRepeats /\ Behind

-----------------------------------------------------------------------------
(* Steps.                                                                  *)

\* Whole intervals that have passed.
LEMMA Intervals ==
  ASSUME NEW a \in Nat, NEW e \in Nat \ {0}
  PROVE  a \div e \in Nat /\ (a \div e) * e <= a /\ a < (a \div e) * e + e
<1>1. PICK q \in Int : q = a \div e  OBVIOUS
<1>2. a % e \in 0..(e - 1) /\ a = (e * q) + (a % e)  BY <1>1
<1>3. e * q = q * e  BY <1>1
<1>4. q * e <= a /\ a < q * e + e  BY <1>2, <1>3
<1>5. q >= 0
  <2>1. CASE q <= -1
    <3>1. q * e <= -e  BY <2>1
    <3> QED  BY <1>4, <3>1
  <2> QED  BY <2>1
<1> QED  BY <1>1, <1>4, <1>5

\* The occurrence of a due record is the last one that is not in the future
\* (resolveEveryOccurrence).
LEMMA LatestIsLast ==
  ASSUME NEW r \in Record, NEW at \in Nat, r.due <= at
  PROVE  /\ Latest(r, at) \in Int /\ r.due <= Latest(r, at) /\ Latest(r, at) <= at
         /\ r.every # 0 => at < Latest(r, at) + r.every
<1>1. r.due \in Int /\ r.every \in Nat  BY DEF Record
<1>2. CASE r.every = 0  BY <1>1, <1>2 DEF Latest
<1>3. CASE r.every # 0
  <2>1. PICK a \in Nat : a = at - r.due  BY <1>1
  <2>2. PICK e \in Nat \ {0} : e = r.every  BY <1>1, <1>3
  <2>3. PICK q \in Nat : q = a \div e /\ q * e <= a /\ a < q * e + e
    BY Intervals
  <2>4. Latest(r, at) = r.due + q * e
    BY <1>3, <2>1, <2>2, <2>3 DEF Latest
  <2>5. q * e \in Nat  OBVIOUS
  <2>6. PICK p \in Nat : p = q * e  BY <2>5
  <2> QED  BY <1>1, <2>1, <2>2, <2>3, <2>4, <2>6
<1> QED  BY <1>2, <1>3

Modes    == {"none", "queued", "preflight", "maintenance", "barrier", "loop", "over", "rejected"}
Waiters  == Calls \cup {Runtime}

\* A run that starts takes its place at the end of the queue; one that cannot
\* leaves the queue alone and the runtime stalled.
LEMMA Starts ==
  ASSUME TypeOK, NEW queue \in Seq(Waiters), Start(queue)
  PROVE  /\ tails' \in Seq(Waiters) /\ requested' \in BOOLEAN /\ stalled' \in BOOLEAN
         /\ timer' = 0 /\ timer' \in 0..(MaxDelay + 1)
         /\ stalled => stalled'
         /\ \/ drive' = "queued" /\ tails' = Append(queue, Runtime)
            \/ drive' = "none" /\ tails' = queue /\ requested' = TRUE /\ stalled' = TRUE
<1>1. stalled \in BOOLEAN /\ Runtime \in Waiters  BY DEF TypeOK, Waiters
<1>2. 0 \in 0..(MaxDelay + 1)  BY HorizonAssumption
<1>3. Append(queue, Runtime) \in Seq(Waiters)  BY <1>1, AppendProperties
<1> QED  BY <1>1, <1>2, <1>3 DEF Start

\* The runtime is asked to drive (requestDrive): it notes the request, or takes
\* its place at the end of the queue, or fails to; when it stops or has faulted
\* it does neither.
LEMMA Requests ==
  ASSUME TypeOK, NEW queue \in Seq(Waiters), RequestDrive(queue)
  PROVE  /\ tails' \in Seq(Waiters)
         /\ tails' = queue \/ (tails' = Append(queue, Runtime) /\ drive = "none")
         /\ drive' \in Modes /\ requested' \in BOOLEAN /\ timer' \in 0..(MaxDelay + 1)
         /\ stalled' \in BOOLEAN
         /\ stalled => stalled'
         /\ drive' = drive \/ (drive = "none" /\ drive' = "queued")
         /\ stopping \/ faulted =>
              timer' = timer /\ requested' = requested /\ drive' = drive /\ stalled' = stalled
         /\ ~stopping /\ ~faulted =>
              /\ timer' = 0
              /\ drive' = "queued" \/ (requested' = TRUE /\ (drive' # "none" \/ stalled'))
<1>1. /\ requested \in BOOLEAN /\ timer \in 0..(MaxDelay + 1) /\ drive \in Modes
      /\ stalled \in BOOLEAN
  BY DEF TypeOK, Modes
<1>2. 0 \in 0..(MaxDelay + 1) /\ "queued" \in Modes  BY HorizonAssumption DEF Modes
<1>3. CASE stopping \/ faulted
  BY <1>1, <1>3 DEF RequestDrive
<1>4. CASE ~stopping /\ ~faulted /\ drive # "none"
  BY <1>1, <1>2, <1>4 DEF RequestDrive
<1>5. CASE ~stopping /\ ~faulted /\ drive = "none"
  <2>1. Start(queue)  BY <1>5 DEF RequestDrive
  <2> QED  BY <1>1, <1>2, <1>5, <2>1, Starts
<1> QED  BY <1>3, <1>4, <1>5

\* Who holds the head of the queue keeps it while others join.
LEMMA JoinsQueue ==
  ASSUME NEW queue \in Seq(Waiters), NEW x \in Waiters
  PROVE  /\ Append(queue, x) \in Seq(Waiters)
         /\ queue # <<>> => Append(queue, x) # <<>> /\ Head(Append(queue, x)) = Head(queue)
<1>1. /\ Append(queue, x) \in Seq(Waiters) /\ Len(Append(queue, x)) = Len(queue) + 1
      /\ \A i \in 1..Len(queue) : Append(queue, x)[i] = queue[i]
  BY AppendProperties
<1>2. CASE queue # <<>>
  <2>1. Len(queue) > 0  BY <1>2, EmptySeq
  <2>2. Head(queue) = queue[1] /\ Append(queue, x)[1] = queue[1]  BY <1>1, <2>1
  <2>3. Len(Append(queue, x)) # 0  BY <1>1, <2>1
  <2>4. Append(queue, x) # <<>>  BY <1>1, <2>3, EmptySeq
  <2>5. Head(Append(queue, x)) = Append(queue, x)[1]  BY <1>1, <2>4
  <2> QED  BY <1>1, <2>2, <2>4, <2>5
<1> QED  BY <1>1, <1>2

\* The queue after its head has left.
LEMMA LeavesQueue ==
  ASSUME TypeOK, tails # <<>>
  PROVE  Tail(tails) \in Seq(Waiters)
BY DEF TypeOK, Waiters

\* The answer of a call.
LEMMA AnswerIsCall ==
  ASSUME TypeOK, NEW c \in Calls, NEW seen \in Nat,
         NEW answer \in {"ok", "refused", "cancelled", "uncertain"}, Answers(c, answer, seen)
  PROVE  /\ call' \in [Calls -> Call]
         /\ call'[c].at = "done" /\ call'[c].answer = answer /\ call'[c].seen = seen
         /\ \A d \in Calls : d # c => call'[d] = call[d]
<1> DEFINE new == [Idle EXCEPT !.at = "done", !.answer = answer, !.seen = seen]
<1>1. new \in Call /\ new.at = "done" /\ new.answer = answer /\ new.seen = seen
  BY DEF Call, Idle, NoRule
<1>2. call' = [call EXCEPT ![c] = new] /\ call \in [Calls -> Call]
  BY DEF Answers, TypeOK
<1> HIDE DEF new
<1>3. call' \in [Calls -> Call] /\ call'[c] = new /\ \A d \in Calls : d # c => call'[d] = call[d]
  BY <1>1, <1>2
<1> QED  BY <1>1, <1>3

\* A flush makes durable what it was asked for, and loses nothing.
LEMMA Flushes ==
  ASSUME TypeOK, NEW events \in 0..Len(log), FlushTo(events)
  PROVE  durable' \in 0..Len(log) /\ durable <= durable' /\ events <= durable'
<1>1. Len(log) \in Nat  BY DEF TypeOK
<1> QED  BY <1>1 DEF FlushTo, Later, TypeOK

\* What a decision does to the log.
LEMMA RemindsWrites ==
  ASSUME TypeOK, Durably(log), NEW n \in 0..Cardinality(Selected), Reminds(n)
  PROVE  /\ log' = Written(n) /\ Durably(log') /\ log' \in Seq(Event)
         /\ Len(log') = Len(log) + 1 + n
<1>1. log' = Written(n)  BY DEF Reminds, Written
<1>2. Distinct(Active)  BY SoundState
<1>3. Written(n) \in Seq(Event) /\ Len(Written(n)) = Len(log) + 1 + n
  BY <1>2, WrittenAppends
<1>4. Durably(Written(n))  BY DecisionKeeps
<1> QED  BY <1>1, <1>3, <1>4

\* What a tool appends: a new reminder with the next id, or the deletion of an
\* active one.
LEMMA CallAppends ==
  ASSUME TypeOK, Durably(log), NEW c \in Calls, NEW e \in Appends(c)
  PROVE  /\ e \in Event /\ e.items = {}
         /\ Sound(Folds(Folded, e))
         /\ \/ /\ e.op = "create" /\ e.id \notin Folded.seen
               /\ Folds(Folded, e).seen = Folded.seen \cup {e.id}
               /\ Folds(Folded, e).active
                    = Active \cup {[id |-> e.id, due |-> e.due, every |-> e.every]}
            \/ /\ e.op = "delete" /\ Folds(Folded, e).seen = Folded.seen
               /\ Folds(Folded, e).active \subseteq Active
<1>1. call[c] \in Call /\ now \in Nat  BY ActiveRecords DEF TypeOK
<1>2. call[c].id \in Nat /\ call[c].rule \in Rules \cup {NoRule}  BY <1>1 DEF Call
<1>3. call[c].rule.after \in Nat /\ call[c].rule.every \in Nat
  BY <1>2, RulesAssumption DEF NoRule
<1>4. CASE call[c].op = "create" /\ now + call[c].rule.after <= Horizon
  <2>1. e = Change("create", NextId, now + call[c].rule.after, call[c].rule.every, 0)
    BY <1>4 DEF Appends
  <2>2. NextId \in Nat /\ now + call[c].rule.after \in Nat
    <3>1. Folded.seen \in SUBSET Nat /\ IsFiniteSet(Folded.seen)  BY ActiveRecords
    <3>2. Cardinality(Folded.seen) \in Nat  BY <3>1, FS_CardinalityType
    <3> QED  BY <1>1, <1>3, <3>2 DEF NextId
  <2>3. e \in Event /\ e.items = {} /\ e.op = "create" /\ e.id = NextId
        /\ e.due = now + call[c].rule.after /\ e.every = call[c].rule.every
    BY <1>3, <2>1, <2>2 DEF Change, Event
  <2> DEFINE due == now + call[c].rule.after
             every == call[c].rule.every
  <2>4. e = Change("create", NextId, due, every, 0)  BY <2>1
  <2>5. e.id = NextId /\ e.due = due /\ e.every = every  BY <2>3
  <2> HIDE DEF due, every
  <2>6. /\ Sound(Folds(Folded, e)) /\ NextId \notin Folded.seen
        /\ Folds(Folded, e).active = Active \cup {[id |-> NextId, due |-> due, every |-> every]}
        /\ Folds(Folded, e).seen = Folded.seen \cup {NextId}
    BY <2>4, CreateKeeps, Zenon
  <2> QED  BY <2>3, <2>5, <2>6, Zenon
<1>5. CASE call[c].op = "delete" /\ \E r \in Active : r.id = call[c].id
  <2>1. e = Change("delete", call[c].id, 0, 0, 0)
    BY <1>5 DEF Appends
  <2>2. e \in Event /\ e.items = {} /\ e.op = "delete"
    BY <1>2, <2>1 DEF Change, Event
  <2> QED  BY <1>5, <2>1, <2>2, DeleteKeeps
<1> QED  BY <1>4, <1>5 DEF Appends

\* What a tool does to the log.
LEMMA CallWritesLog ==
  ASSUME TypeOK, Durably(log), NEW c \in Calls, NEW e \in Appends(c), log' = Append(log, e)
  PROVE  Durably(log') /\ log' \in Seq(Event) /\ Len(log') = Len(log) + 1
<1>1. e \in Event /\ e.op # "dispatch" /\ Sound(Folds(Folded, e))  BY CallAppends
<1>2. Durably(Append(log, e))  BY <1>1, DurablyAppend DEF Folded
<1>3. log \in Seq(Event)  BY DEF TypeOK
<1> QED  BY <1>1, <1>2, <1>3, AppendProperties

\* What a crash leaves of the log.
LEMMA CrashCuts ==
  ASSUME TypeOK, Durably(log), Crash
  PROVE  /\ Durably(log') /\ log' \in Seq(Event) /\ Len(log') = durable'
         /\ durable' \in Nat /\ durable <= durable'
<1>1. log \in Seq(Event) /\ durable \in 0..Len(log) /\ Len(log) \in Nat  BY DEF TypeOK
<1>2. PICK d \in 0..Len(log) : d = durable' /\ durable <= d
  BY <1>1 DEF Crash
<1>3. log' = SubSeq(log, 1, d)  BY <1>2 DEF Crash
<1>4. Durably(SubSeq(log, 1, d))  BY DurablyCut
<1>5. SubSeq(log, 1, d) \in Seq(Event) /\ Len(SubSeq(log, 1, d)) = d  BY <1>1
<1>6. Durably(log')  BY <1>3, <1>4
<1>7. log' \in Seq(Event) /\ Len(log') = d  BY <1>3, <1>5
<1> QED  BY <1>1, <1>2, <1>6, <1>7

\* When nothing is due the timer is set for the first target, or for as long as
\* a timer can run (arm).
LEMMA ArmedInTime ==
  ASSUME TypeOK, Due = {}
  PROVE  /\ Armed \in 0..(MaxDelay + 1)
         /\ Active # {} => Armed > 0
         /\ \A r \in Active : now < r.due /\ Armed - 1 <= r.due - now
<1>1. /\ Active \in SUBSET Record /\ now \in Nat /\ MaxDelay \in Nat \ {0}
  BY ActiveRecords, HorizonAssumption
<1>2. \A r \in Active : r.due \in Nat /\ now < r.due
  <2>1. ASSUME NEW r \in Active PROVE r.due \in Nat /\ now < r.due
    <3>1. r.due \in Int /\ ~(r.due <= now)  BY <1>1 DEF Record, Due
    <3> QED  BY <1>1, <3>1
  <2> QED  BY <2>1
<1>3. CASE Active = {}
  BY <1>1, <1>3 DEF Armed
<1>4. CASE Active # {}
  <2> DEFINE targets == {r.due : r \in Active}
  <2>1. targets \in SUBSET Nat /\ targets # {} /\ \A r \in Active : r.due \in targets
    BY <1>2, <1>4
  <2>2. \A t \in targets : now < t  BY <1>2
  <2>3. Armed = Sooner(FirstOf(targets) - now, MaxDelay) + 1
    BY <1>4 DEF Armed
  <2> HIDE DEF targets
  <2>4. \E t \in targets : \A u \in targets : t <= u  BY <2>1, Least
  <2>5. FirstOf(targets) \in targets /\ \A u \in targets : FirstOf(targets) <= u
    BY <2>4 DEF FirstOf
  <2>6. PICK t \in Nat : t = FirstOf(targets) /\ now < t /\ \A u \in targets : t <= u
    BY <2>1, <2>2, <2>5
  <2>7. Armed = Sooner(t - now, MaxDelay) + 1  BY <2>3, <2>6
  <2>8. PICK s \in Nat \ {0} : s = Sooner(t - now, MaxDelay) /\ s <= MaxDelay /\ s <= t - now
    BY <1>1, <2>6 DEF Sooner
  <2>9. ASSUME NEW r \in Active PROVE Armed - 1 <= r.due - now
    <3>1. r.due \in Nat /\ t <= r.due  BY <1>2, <2>1, <2>6
    <3> QED  BY <1>1, <2>6, <2>7, <2>8, <3>1
  <2>10. Armed \in 0..(MaxDelay + 1) /\ Armed > 0  BY <1>1, <2>7, <2>8
  <2> QED  BY <1>2, <2>9, <2>10
<1> QED  BY <1>3, <1>4

\* The steps of the runtime and of its surroundings that leave the log and the
\* calls alone.
Quiet ==
  \/ DriveBegins \/ DriveDecides \/ MaintenanceEnds \/ MaintenanceRejects \/ RunRejects
  \/ DriveConfirms \/ DriveLoops
  \/ TimerFires \/ IdleWaitEnds \/ IdleWaitFails \/ Dispose \/ TurnBegins \/ TurnEnds \/ Tick \/ ClockIsSet
  \/ UNCHANGED vars

\* A quiet step keeps the types, the turns of the queue, and what is durable.
LEMMA QuietKeeps ==
  ASSUME LogInv, Quiet
  PROVE  LogInv' /\ log' = log /\ call' = call /\ durable <= durable'
<1>1. /\ TypeOK /\ Durably(log) /\ Serial /\ Goals  BY DEF LogInv
<1>2. /\ log \in Seq(Event) /\ Len(log) \in Nat /\ tails \in Seq(Waiters) /\ call \in [Calls -> Call]
      /\ durable \in 0..Len(log) /\ goal \in 0..Len(log) /\ now \in 1..Horizon
      /\ timer \in 0..(MaxDelay + 1) /\ agent \in {"idle", "turn", "maintenance"}
      /\ drive \in Modes /\ requested \in BOOLEAN /\ idleWait \in BOOLEAN
      /\ stopping \in BOOLEAN /\ faulted \in BOOLEAN /\ stalled \in BOOLEAN
      /\ accepted \in BOOLEAN /\ turns \in Nat /\ failures \in Nat /\ jumps \in Nat /\ crashes \in Nat
      /\ Runtime \in Waiters
  BY <1>1 DEF TypeOK, Modes, Waiters
<1>3. 0 \in 0..(MaxDelay + 1) /\ 0 \in 0..Len(log) /\ Len(log) \in 0..Len(log)
      /\ 1 \in 0..(MaxDelay + 1)
  BY <1>2, HorizonAssumption
<1>4. ASSUME log' = log, call' = call,
             tails' = tails \/ (tails # <<>> /\ tails' = Tail(tails) /\ Head(tails) = Runtime
                                  /\ drive' = "loop")
               \/ tails' = Append(tails, Runtime),
             drive' \in {"preflight", "maintenance", "barrier"} => Holds(Runtime)
      PROVE  tails' \in Seq(Waiters) /\ Serial'
  <2>1. CASE tails' = tails
    BY <1>1, <1>2, <1>4, <2>1 DEF Serial, Holds
  <2>2. CASE tails # <<>> /\ tails' = Tail(tails) /\ Head(tails) = Runtime /\ drive' = "loop"
    <3>1. tails' \in Seq(Waiters)  BY <1>1, <2>2, LeavesQueue
    <3>2. \A c \in Calls : c # Runtime  BY BoundsAssumption DEF Calls, Runtime
    <3> QED  BY <1>1, <1>4, <2>2, <3>1, <3>2 DEF Serial, Holds
  <2>3. CASE tails' = Append(tails, Runtime)
    <3>1. /\ tails' \in Seq(Waiters)
          /\ tails # <<>> => tails' # <<>> /\ Head(tails') = Head(tails)
      BY <1>2, <2>3, JoinsQueue
    <3> QED  BY <1>1, <1>4, <3>1 DEF Serial, Holds
  <2> QED  BY <1>4, <2>1, <2>2, <2>3
<1>5. ASSUME log' = log, call' = call
      PROVE  Durably(log') /\ Goals'
  <2>1. Durably(log')  BY <1>1, <1>5
  <2>2. Goals'  BY <1>1, <1>5 DEF Goals
  <2> QED  BY <2>1, <2>2
<1>6. CASE DriveBegins
  <2>1. /\ log' = log /\ call' = call /\ durable' = durable /\ now' = now /\ agent' = agent
        /\ turns' = turns /\ failures' = failures /\ jumps' = jumps /\ crashes' = crashes
        /\ requested' = requested /\ idleWait' = idleWait /\ stopping' = stopping
        /\ faulted' = faulted /\ stalled' = FALSE /\ timer' = 0
        /\ drive' \in {"preflight", "loop"} /\ goal' \in 0..Len(log)
        /\ Holds(Runtime)
    BY <1>3, <1>6 DEF DriveBegins, EndsDrive, budget
  <2>2. accepted' \in BOOLEAN  BY <1>2, <1>6 DEF DriveBegins, EndsDrive
  <2>3. tails' = tails \/ (tails' = Tail(tails) /\ drive' = "loop")
    BY <1>6 DEF DriveBegins, EndsDrive
  <2>4. tails' \in Seq(Waiters) /\ Serial'  BY <1>4, <2>1, <2>3 DEF Holds
  <2>5. TypeOK'  BY <1>2, <1>3, <2>1, <2>2, <2>4 DEF TypeOK, Waiters
  <2> QED  BY <1>5, <2>1, <2>4, <2>5, <1>2 DEF LogInv
<1>7. CASE DriveDecides /\ DriveFails
  <2>1. /\ log' = log /\ call' = call /\ durable' = durable /\ now' = now /\ agent' = agent
        /\ timer' = timer /\ turns' = turns /\ jumps' = jumps /\ crashes' = crashes
        /\ requested' = requested /\ idleWait' = idleWait /\ stopping' = stopping
        /\ faulted' = faulted
        /\ goal' = 0 /\ failures' \in Nat /\ drive' = "loop" /\ accepted' = FALSE /\ stalled' = TRUE
        /\ tails' = Tail(tails) /\ Holds(Runtime)
    BY <1>1, <1>2, <1>3, <1>7 DEF DriveDecides, DriveFails, Fails, EndsDrive, Serial
  <2>2. tails' \in Seq(Waiters) /\ Serial'
    BY <1>1, <1>4, <2>1 DEF Serial, Holds
  <2>3. TypeOK'  BY <1>2, <1>3, <2>1, <2>2 DEF TypeOK, Waiters, Modes
  <2> QED  BY <1>2, <1>5, <2>1, <2>2, <2>3 DEF LogInv
<1>8. CASE DriveDecides /\ ~DriveFails /\ ~DecisionFails
  <2>1. /\ log' = log /\ call' = call /\ now' = now /\ agent' = agent /\ turns' = turns
        /\ failures' = failures /\ jumps' = jumps /\ crashes' = crashes
        /\ requested' = requested /\ stopping' = stopping /\ faulted' = faulted
        /\ stalled' = stalled
        /\ FlushTo(goal) /\ goal' = 0 /\ drive' = "loop" /\ accepted' = FALSE
        /\ timer' = timer \/ (Due = {} /\ timer' = Armed)
        /\ tails' = Tail(tails) /\ Holds(Runtime)
    BY <1>1, <1>2, <1>3, <1>8 DEF DriveDecides, EndsDrive, Serial, budget
  <2>2. idleWait' \in BOOLEAN  BY <1>2, <1>8 DEF DriveDecides
  <2>3. durable' \in 0..Len(log) /\ durable <= durable'
    BY <1>1, <1>2, <1>8, Flushes DEF DriveDecides, EndsDrive, Serial, budget
  <2>4. tails' \in Seq(Waiters) /\ Serial'
    BY <1>1, <1>4, <2>1 DEF Serial, Holds
  <2>5. timer' \in 0..(MaxDelay + 1)  BY <1>1, <1>2, <2>1, ArmedInTime
  <2>6. TypeOK'  BY <1>2, <1>3, <2>1, <2>2, <2>3, <2>4, <2>5 DEF TypeOK, Waiters, Modes
  <2> QED  BY <1>2, <1>5, <2>1, <2>3, <2>4, <2>6 DEF LogInv
<1>9. CASE MaintenanceEnds
  <2>1. /\ log' = log /\ call' = call /\ durable' = durable /\ now' = now /\ timer' = timer
        /\ turns' = turns /\ failures' = failures /\ jumps' = jumps /\ crashes' = crashes
        /\ requested' = requested /\ idleWait' = idleWait /\ stopping' = stopping
        /\ faulted' = faulted /\ stalled' = stalled
        /\ agent' \in {"turn", "idle"} /\ goal' \in 0..Len(log) /\ drive' \in {"barrier", "loop"}
        /\ drive = "maintenance"
    BY <1>2, <1>3, <1>9 DEF MaintenanceEnds, EndsDrive, budget
  <2>2. accepted' \in BOOLEAN  BY <1>2, <1>9 DEF MaintenanceEnds, EndsDrive
  <2>3. tails' = tails \/ (tails' = Tail(tails) /\ drive' = "loop")
    BY <1>9 DEF MaintenanceEnds, EndsDrive, budget
  <2>4. tails' \in Seq(Waiters) /\ Serial'
    BY <1>1, <1>4, <2>1, <2>3 DEF Serial, Holds
  <2>5. TypeOK'  BY <1>2, <1>3, <2>1, <2>2, <2>3, <2>4 DEF TypeOK, Waiters, Modes
  <2> QED  BY <1>2, <1>5, <2>1, <2>4, <2>5 DEF LogInv
<1>10. CASE DriveConfirms /\ DriveFails
  <2>1. /\ log' = log /\ call' = call /\ durable' = durable /\ now' = now /\ agent' = agent
        /\ timer' = timer /\ turns' = turns /\ jumps' = jumps /\ crashes' = crashes
        /\ requested' = requested /\ idleWait' = idleWait /\ stopping' = stopping
        /\ faulted' = faulted
        /\ goal' = 0 /\ failures' \in Nat /\ drive' = "loop" /\ accepted' = FALSE /\ stalled' = TRUE
        /\ tails' = Tail(tails) /\ Holds(Runtime)
    BY <1>1, <1>2, <1>3, <1>10 DEF DriveConfirms, DriveFails, Fails, EndsDrive, Serial
  <2>2. tails' \in Seq(Waiters) /\ Serial'
    BY <1>1, <1>4, <2>1 DEF Serial, Holds
  <2>3. TypeOK'  BY <1>2, <1>3, <2>1, <2>2 DEF TypeOK, Waiters, Modes
  <2> QED  BY <1>2, <1>5, <2>1, <2>2, <2>3 DEF LogInv
<1>11. CASE DriveConfirms /\ ~DriveFails
  <2>1. /\ log' = log /\ call' = call /\ now' = now /\ agent' = agent /\ turns' = turns
        /\ failures' = failures /\ jumps' = jumps /\ crashes' = crashes
        /\ idleWait' = idleWait /\ stopping' = stopping /\ faulted' = faulted
        /\ stalled' = stalled
        /\ FlushTo(goal) /\ goal' = 0 /\ drive' = "loop" /\ accepted' = FALSE
        /\ timer' \in 0..(MaxDelay + 1)
        /\ tails' = Tail(tails) /\ Holds(Runtime)
    BY <1>1, <1>2, <1>3, <1>11 DEF DriveConfirms, DriveFails, EndsDrive, Serial, budget
  <2>2. requested' \in BOOLEAN  BY <1>2, <1>11 DEF DriveConfirms, DriveFails
  <2>3. durable' \in 0..Len(log) /\ durable <= durable'
    BY <1>1, <1>2, <1>11, Flushes DEF DriveConfirms, DriveFails, EndsDrive, Serial, budget
  <2>4. tails' \in Seq(Waiters) /\ Serial'
    BY <1>1, <1>4, <2>1 DEF Serial, Holds
  <2>5. TypeOK'  BY <1>2, <1>3, <2>1, <2>2, <2>3, <2>4 DEF TypeOK, Waiters, Modes
  <2> QED  BY <1>2, <1>5, <2>1, <2>4, <2>5, <2>3 DEF LogInv
<1>12. CASE DriveLoops
  <2>1. /\ log' = log /\ call' = call /\ durable' = durable /\ now' = now /\ agent' = agent
        /\ goal' = goal /\ turns' = turns /\ failures' = failures /\ jumps' = jumps
        /\ crashes' = crashes /\ idleWait' = idleWait /\ stopping' = stopping
        /\ faulted' = faulted /\ accepted' = accepted
    BY <1>12 DEF DriveLoops, budget
  <2>2. /\ tails' = tails \/ tails' = Append(tails, Runtime)
        /\ drive' \in {"queued", "over", "none"} /\ requested' \in BOOLEAN
        /\ stalled' \in BOOLEAN /\ timer' \in 0..(MaxDelay + 1)
    <3>1. CASE drive = "over" /\ Again
      <4>1. Start(tails)  BY <1>12, <3>1 DEF DriveLoops
      <4> QED  BY <1>1, <1>2, <4>1, Starts
    <3>2. CASE ~(drive = "over" /\ Again)
      BY <1>2, <1>12, <3>2 DEF DriveLoops
    <3> QED  BY <3>1, <3>2
  <2>4. tails' \in Seq(Waiters) /\ Serial'
    BY <1>1, <1>4, <2>1, <2>2 DEF Serial, Holds
  <2>5. TypeOK'  BY <1>2, <1>3, <2>1, <2>2, <2>4 DEF TypeOK, Waiters, Modes
  <2> QED  BY <1>2, <1>5, <2>1, <2>4, <2>5 DEF LogInv
<1>13. CASE TimerFires
  <2>1. /\ log' = log /\ call' = call /\ durable' = durable /\ now' = now /\ agent' = agent
        /\ goal' = goal /\ turns' = turns /\ failures' = failures /\ jumps' = jumps
        /\ crashes' = crashes /\ idleWait' = idleWait /\ stopping' = stopping
        /\ faulted' = faulted /\ accepted' = accepted
    BY <1>2, <1>3, <1>13 DEF TimerFires, budget
  <2>2. /\ tails' = tails \/ tails' = Append(tails, Runtime)
        /\ drive' \in Modes /\ requested' \in BOOLEAN /\ timer' \in 0..(MaxDelay + 1)
        /\ stalled' \in BOOLEAN
        /\ drive' = drive \/ drive' = "queued"
    BY <1>1, <1>2, <1>13, Requests DEF TimerFires, budget
  <2>3. tails' \in Seq(Waiters) /\ Serial'
    BY <1>1, <1>4, <2>1, <2>2 DEF Serial, Holds
  <2>4. TypeOK'  BY <1>2, <1>3, <2>1, <2>2, <2>3 DEF TypeOK, Waiters, Modes
  <2> QED  BY <1>2, <1>5, <2>1, <2>3, <2>4 DEF LogInv
<1>14. CASE IdleWaitEnds
  <2>1. /\ log' = log /\ call' = call /\ durable' = durable /\ now' = now /\ agent' = agent
        /\ goal' = goal /\ turns' = turns /\ failures' = failures /\ jumps' = jumps
        /\ crashes' = crashes /\ stopping' = stopping /\ faulted' = faulted
        /\ accepted' = accepted /\ idleWait' = FALSE
    BY <1>2, <1>3, <1>14 DEF IdleWaitEnds, budget
  <2>2. /\ tails' = tails \/ tails' = Append(tails, Runtime)
        /\ drive' \in Modes /\ requested' \in BOOLEAN /\ timer' \in 0..(MaxDelay + 1)
        /\ stalled' \in BOOLEAN
        /\ drive' = drive \/ drive' = "queued"
    BY <1>1, <1>2, <1>14, Requests DEF IdleWaitEnds, budget
  <2>3. tails' \in Seq(Waiters) /\ Serial'
    BY <1>1, <1>4, <2>1, <2>2 DEF Serial, Holds
  <2>4. TypeOK'  BY <1>2, <1>3, <2>1, <2>2, <2>3 DEF TypeOK, Waiters, Modes
  <2> QED  BY <1>2, <1>5, <2>1, <2>3, <2>4 DEF LogInv
<1>15. CASE Dispose
  <2>1. /\ log' = log /\ call' = call /\ durable' = durable /\ now' = now /\ agent' = agent
        /\ drive' = drive /\ goal' = goal /\ turns' = turns /\ failures' = failures
        /\ jumps' = jumps /\ crashes' = crashes /\ idleWait' = idleWait
        /\ faulted' = faulted /\ stalled' = stalled /\ accepted' = accepted
        /\ tails' = tails /\ timer' = 0 /\ requested' = FALSE /\ stopping' = TRUE
    BY <1>2, <1>3, <1>15 DEF Dispose, budget
  <2>2. tails' \in Seq(Waiters) /\ Serial'
    BY <1>1, <1>4, <2>1 DEF Serial, Holds
  <2>3. TypeOK'  BY <1>2, <1>3, <2>1, <2>2 DEF TypeOK, Waiters, Modes
  <2> QED  BY <1>2, <1>5, <2>1, <2>2, <2>3 DEF LogInv
<1>16. CASE TurnBegins
  <2>1. /\ log' = log /\ call' = call /\ durable' = durable /\ now' = now /\ timer' = timer
        /\ drive' = drive /\ goal' = goal /\ failures' = failures /\ jumps' = jumps
        /\ crashes' = crashes /\ requested' = requested /\ idleWait' = idleWait
        /\ stopping' = stopping /\ faulted' = faulted /\ stalled' = stalled
        /\ accepted' = accepted
        /\ tails' = tails /\ turns' \in Nat /\ agent' = "turn"
    BY <1>2, <1>3, <1>16 DEF TurnBegins, runtime
  <2>2. tails' \in Seq(Waiters) /\ Serial'
    BY <1>1, <1>4, <2>1 DEF Serial, Holds
  <2>3. TypeOK'  BY <1>2, <1>3, <2>1, <2>2 DEF TypeOK, Waiters, Modes
  <2> QED  BY <1>2, <1>5, <2>1, <2>2, <2>3 DEF LogInv
<1>17. CASE TurnEnds /\ Folded.seen = {}
  <2>1. /\ log' = log /\ call' = call /\ durable' = durable /\ now' = now /\ timer' = timer
        /\ drive' = drive /\ goal' = goal /\ turns' = turns /\ failures' = failures
        /\ jumps' = jumps /\ crashes' = crashes /\ requested' = requested
        /\ idleWait' = idleWait /\ stopping' = stopping /\ faulted' = faulted
        /\ stalled' = stalled /\ accepted' = accepted
        /\ tails' = tails /\ agent' = "idle"
    BY <1>2, <1>3, <1>17 DEF TurnEnds, budget
  <2>2. tails' \in Seq(Waiters) /\ Serial'
    BY <1>1, <1>4, <2>1 DEF Serial, Holds
  <2>3. TypeOK'  BY <1>2, <1>3, <2>1, <2>2 DEF TypeOK, Waiters, Modes
  <2> QED  BY <1>2, <1>5, <2>1, <2>2, <2>3 DEF LogInv
<1>18. CASE TurnEnds /\ Folded.seen # {}
  <2>1. /\ log' = log /\ call' = call /\ durable' = durable /\ now' = now /\ goal' = goal
        /\ turns' = turns /\ failures' = failures /\ jumps' = jumps /\ crashes' = crashes
        /\ idleWait' = idleWait /\ stopping' = stopping /\ faulted' = faulted
        /\ accepted' = accepted /\ agent' = "idle"
    BY <1>2, <1>3, <1>18 DEF TurnEnds, budget
  <2>2. /\ tails' = tails \/ tails' = Append(tails, Runtime)
        /\ drive' \in Modes /\ requested' \in BOOLEAN /\ timer' \in 0..(MaxDelay + 1)
        /\ stalled' \in BOOLEAN
        /\ drive' = drive \/ drive' = "queued"
    BY <1>1, <1>2, <1>18, Requests DEF TurnEnds, budget
  <2>3. tails' \in Seq(Waiters) /\ Serial'
    BY <1>1, <1>4, <2>1, <2>2 DEF Serial, Holds
  <2>4. TypeOK'  BY <1>2, <1>3, <2>1, <2>2, <2>3 DEF TypeOK, Waiters, Modes
  <2> QED  BY <1>2, <1>5, <2>1, <2>3, <2>4 DEF LogInv
<1>19. CASE Tick
  <2>1. /\ log' = log /\ call' = call /\ durable' = durable /\ agent' = agent
        /\ drive' = drive /\ goal' = goal /\ turns' = turns /\ failures' = failures
        /\ jumps' = jumps /\ crashes' = crashes /\ requested' = requested
        /\ idleWait' = idleWait /\ stopping' = stopping /\ faulted' = faulted
        /\ stalled' = stalled /\ accepted' = accepted
        /\ tails' = tails /\ now' \in 1..Horizon /\ timer' \in 0..(MaxDelay + 1)
    BY <1>2, <1>3, <1>19, HorizonAssumption DEF Tick, budget, Sooner
  <2>2. tails' \in Seq(Waiters) /\ Serial'
    BY <1>1, <1>4, <2>1 DEF Serial, Holds
  <2>3. TypeOK'  BY <1>2, <1>3, <2>1, <2>2 DEF TypeOK, Waiters, Modes
  <2> QED  BY <1>2, <1>5, <2>1, <2>2, <2>3 DEF LogInv
<1>20. CASE ClockIsSet
  <2>1. /\ log' = log /\ call' = call /\ durable' = durable /\ agent' = agent
        /\ timer' = timer /\ drive' = drive /\ goal' = goal /\ turns' = turns
        /\ failures' = failures /\ crashes' = crashes /\ requested' = requested
        /\ idleWait' = idleWait /\ stopping' = stopping /\ faulted' = faulted
        /\ stalled' = stalled /\ accepted' = accepted
        /\ tails' = tails /\ now' \in 1..Horizon /\ jumps' \in Nat
    BY <1>2, <1>3, <1>20 DEF ClockIsSet, runtime
  <2>2. tails' \in Seq(Waiters) /\ Serial'
    BY <1>1, <1>4, <2>1 DEF Serial, Holds
  <2>3. TypeOK'  BY <1>2, <1>3, <2>1, <2>2 DEF TypeOK, Waiters, Modes
  <2> QED  BY <1>2, <1>5, <2>1, <2>2, <2>3 DEF LogInv
<1>21. CASE UNCHANGED vars
  <2>1. /\ log' = log /\ call' = call /\ durable' = durable /\ now' = now /\ agent' = agent
        /\ timer' = timer /\ drive' = drive /\ goal' = goal /\ turns' = turns
        /\ failures' = failures /\ jumps' = jumps /\ crashes' = crashes
        /\ requested' = requested /\ idleWait' = idleWait /\ stopping' = stopping
        /\ faulted' = faulted /\ stalled' = stalled /\ accepted' = accepted
        /\ tails' = tails
    BY <1>2, <1>3, <1>21 DEF vars, runtime, budget
  <2>2. tails' \in Seq(Waiters) /\ Serial'
    BY <1>1, <1>4, <2>1 DEF Serial, Holds
  <2>3. TypeOK'  BY <1>2, <1>3, <2>1, <2>2 DEF TypeOK, Waiters, Modes
  <2> QED  BY <1>2, <1>5, <2>1, <2>2, <2>3 DEF LogInv
<1>22. CASE DriveDecides /\ DecisionFails
  <2>1. /\ log' = log /\ call' = call /\ now' = now /\ agent' = agent
        /\ timer' = timer /\ turns' = turns /\ jumps' = jumps /\ crashes' = crashes
        /\ requested' = requested /\ idleWait' = idleWait /\ stopping' = stopping
        /\ faulted' = faulted /\ FlushTo(goal)
        /\ goal' = 0 /\ failures' \in Nat /\ drive' = "loop" /\ accepted' = FALSE /\ stalled' = TRUE
        /\ tails' = Tail(tails) /\ Holds(Runtime)
    BY <1>1, <1>2, <1>3, <1>22 DEF DriveDecides, DecisionFails, Fails, EndsDrive, Serial
  <2>2. durable' \in 0..Len(log) /\ durable <= durable'
    BY <1>1, <1>2, <2>1, Flushes
  <2>3. tails' \in Seq(Waiters) /\ Serial'
    BY <1>1, <1>4, <2>1 DEF Serial, Holds
  <2>4. TypeOK'  BY <1>2, <1>3, <2>1, <2>2, <2>3 DEF TypeOK, Waiters, Modes
  <2> QED  BY <1>2, <1>5, <2>1, <2>2, <2>3, <2>4 DEF LogInv
<1>23. CASE MaintenanceRejects
  <2>1. /\ log' = log /\ call' = call /\ durable' = durable /\ now' = now /\ timer' = timer
        /\ turns' = turns /\ failures' = failures /\ jumps' = jumps /\ crashes' = crashes
        /\ requested' = requested /\ idleWait' = idleWait /\ stopping' = stopping
        /\ faulted' = faulted /\ stalled' = stalled /\ goal' = goal /\ accepted' = accepted
        /\ agent' = "idle" /\ drive' = "rejected" /\ tails' = Tail(tails) /\ Holds(Runtime)
    BY <1>1, <1>23 DEF MaintenanceRejects, Serial, budget
  <2>2. tails' \in Seq(Waiters) /\ Serial'
    <3>1. tails # <<>> /\ Head(tails) = Runtime  BY <2>1 DEF Holds
    <3>2. tails' \in Seq(Waiters)  BY <1>1, <2>1, <3>1, LeavesQueue
    <3>3. \A c \in Calls : c # Runtime  BY BoundsAssumption DEF Calls, Runtime
    <3> QED  BY <1>1, <2>1, <3>1, <3>2, <3>3 DEF Serial, Holds
  <2>3. TypeOK'  BY <1>2, <1>3, <2>1, <2>2 DEF TypeOK, Waiters, Modes
  <2> QED  BY <1>2, <1>5, <2>1, <2>2, <2>3 DEF LogInv
<1>24. CASE RunRejects
  <2>1. /\ log' = log /\ call' = call /\ durable' = durable /\ now' = now /\ agent' = agent
        /\ timer' = timer /\ goal' = goal /\ turns' = turns /\ failures' = failures
        /\ jumps' = jumps /\ crashes' = crashes /\ requested' = requested
        /\ idleWait' = idleWait /\ stopping' = stopping /\ stalled' = stalled
        /\ accepted' = accepted /\ tails' = tails /\ faulted' = TRUE /\ drive' = "none"
    BY <1>24 DEF RunRejects, budget
  <2>2. tails' \in Seq(Waiters) /\ Serial'
    BY <1>1, <1>4, <2>1 DEF Serial, Holds
  <2>3. TypeOK'  BY <1>2, <1>3, <2>1, <2>2 DEF TypeOK, Waiters, Modes
  <2> QED  BY <1>2, <1>5, <2>1, <2>2, <2>3 DEF LogInv
<1>25. CASE IdleWaitFails
  <2>1. /\ log' = log /\ call' = call /\ durable' = durable /\ now' = now /\ agent' = agent
        /\ timer' = timer /\ goal' = goal /\ turns' = turns /\ drive' = drive
        /\ jumps' = jumps /\ crashes' = crashes /\ requested' = requested
        /\ stopping' = stopping /\ faulted' = faulted
        /\ accepted' = accepted /\ tails' = tails /\ idleWait' = FALSE
    BY <1>25 DEF IdleWaitFails
  <2>2. failures' \in Nat /\ stalled' \in BOOLEAN
    BY <1>2, <1>25 DEF IdleWaitFails, Fails
  <2>3. tails' \in Seq(Waiters) /\ Serial'
    BY <1>1, <1>4, <2>1 DEF Serial, Holds
  <2>4. TypeOK'  BY <1>2, <1>3, <2>1, <2>2, <2>3 DEF TypeOK, Waiters, Modes
  <2> QED  BY <1>2, <1>5, <2>1, <2>3, <2>4 DEF LogInv
<1> QED  BY <1>6, <1>7, <1>8, <1>9, <1>10, <1>11, <1>12, <1>13, <1>14, <1>15, <1>16, <1>17, <1>18,
          <1>19, <1>20, <1>21, <1>22, <1>23, <1>24, <1>25 DEF Quiet

\* The steps of the tools: who answers leaves the queue, a flush covers what is
\* answered, and a call that appends does so while nobody else can.
ToolStep ==
  \/ \E c \in Calls : \/ CallerAsks(c) \/ CallBegins(c) \/ CallFails(c) \/ CallReads(c)
                      \/ CallWrites(c) \/ CallConfirms(c)
  \/ TurnAborts

\* A step of the tools keeps the log invariant, and what has been answered is
\* on disk.
LEMMA ToolStepKeeps ==
  ASSUME LogInv, AnswersAreDurable, ToolStep
  PROVE  LogInv' /\ AnswersAreDurable'
<1>1. /\ TypeOK /\ Durably(log) /\ Serial /\ Goals  BY DEF LogInv
<1>2. /\ log \in Seq(Event) /\ Len(log) \in Nat /\ tails \in Seq(Waiters) /\ call \in [Calls -> Call]
      /\ durable \in 0..Len(log) /\ goal \in 0..Len(log) /\ now \in 1..Horizon
      /\ timer \in 0..(MaxDelay + 1) /\ agent \in {"idle", "turn", "maintenance"}
      /\ drive \in Modes /\ requested \in BOOLEAN /\ idleWait \in BOOLEAN
      /\ stopping \in BOOLEAN /\ faulted \in BOOLEAN /\ stalled \in BOOLEAN
      /\ accepted \in BOOLEAN /\ turns \in Nat /\ failures \in Nat /\ jumps \in Nat /\ crashes \in Nat
      /\ Runtime \in Waiters /\ Calls \subseteq Waiters
  BY <1>1 DEF TypeOK, Modes, Waiters
<1>3. \A c \in Calls : c # Runtime  BY BoundsAssumption DEF Calls, Runtime
<1>4. ASSUME NEW c \in Calls, Holds(c),
             tails' = Tail(tails) \/ tails' = Append(Tail(tails), Runtime),
             call'[c].at = "done", \A d \in Calls : d # c => call'[d] = call[d],
             drive' = drive \/ drive' = "queued"
      PROVE  tails' \in Seq(Waiters) /\ Serial'
  <2>1. tails # <<>> /\ Head(tails) = c  BY <1>4 DEF Holds
  <2>2. Tail(tails) \in Seq(Waiters)  BY <1>1, <2>1, LeavesQueue
  <2>3. tails' \in Seq(Waiters)  BY <1>2, <1>4, <2>2, JoinsQueue
  <2>4. \A d \in Calls : call'[d].at \notin {"preflight", "barrier"}
    BY <1>1, <1>4, <2>1 DEF Serial, Holds
  <2>5. drive' \notin {"preflight", "maintenance", "barrier"}
    BY <1>1, <1>3, <1>4, <2>1 DEF Serial, Holds
  <2> QED  BY <2>3, <2>4, <2>5 DEF Serial
<1>5. ASSUME NEW x \in Waiters, tails' = tails \/ tails' = Append(tails, x),
             \A d \in Calls : call'[d].at \in {"preflight", "barrier"} => Holds(d),
             drive' = drive \/ drive' = "queued"
      PROVE  tails' \in Seq(Waiters) /\ Serial'
  <2>1. /\ tails' \in Seq(Waiters)
        /\ tails # <<>> => tails' # <<>> /\ Head(tails') = Head(tails)
    BY <1>2, <1>5, JoinsQueue
  <2> QED  BY <1>1, <1>5, <2>1 DEF Serial, Holds
<1>6. ASSUME NEW c \in Calls, log' = log, durable' \in 0..Len(log), durable <= durable',
             call'[c].at \notin {"preflight", "barrier"},
             call'[c].answer = "ok" => call'[c].seen <= durable',
             \A d \in Calls : d # c => call'[d] = call[d],
             call' \in [Calls -> Call]
      PROVE  Durably(log') /\ Goals' /\ AnswersAreDurable'
  <2>1. Durably(log')  BY <1>1, <1>6
  <2>2. Goals'  BY <1>1, <1>6 DEF Goals
  <2>3. ASSUME NEW d \in Calls, call'[d].answer = "ok" PROVE call'[d].seen <= durable'
    <3>1. CASE d = c  BY <1>6, <2>3, <3>1
    <3>2. CASE d # c
      <4>1. call'[d] = call[d] /\ call[d] \in Call  BY <1>2, <1>6, <3>2
      <4>2. call[d].seen <= durable /\ call[d].seen \in Nat
        BY <2>3, <4>1 DEF AnswersAreDurable, Call
      <4> QED  BY <1>2, <1>6, <4>1, <4>2
    <3> QED  BY <3>1, <3>2
  <2>4. AnswersAreDurable'  BY <2>3 DEF AnswersAreDurable
  <2> QED  BY <2>1, <2>2, <2>4
<1>7. ASSUME NEW c \in Calls, CallerAsks(c)
      PROVE  LogInv' /\ AnswersAreDurable'
  <2>1. PICK op \in {"create", "delete", "list"}, rule \in Rules \cup {NoRule}, id \in Nat :
          Asks(c, op, rule, id)
    <3>1. Folded.seen \in SUBSET Nat /\ 0 \in Nat  BY <1>1, ActiveRecords
    <3> QED  BY <1>7, <3>1 DEF CallerAsks
  <2> DEFINE new == [Idle EXCEPT !.at = "queued", !.op = op, !.rule = rule, !.id = id]
  <2>2. new \in Call /\ new.at = "queued" /\ new.answer = "none"
    BY <2>1 DEF Call, Idle
  <2>3. call' = [call EXCEPT ![c] = new] /\ tails' = Append(tails, c)
        /\ UNCHANGED <<log, durable, now, agent, runtime, budget>>
    BY <2>1 DEF Asks
  <2> HIDE DEF new
  <2>4. /\ call' \in [Calls -> Call] /\ call'[c].at = "queued" /\ call'[c].answer = "none"
        /\ \A d \in Calls : d # c => call'[d] = call[d]
    BY <1>2, <2>2, <2>3
  <2>5. log' = log /\ durable' = durable /\ drive' = drive
    BY <2>3 DEF runtime
  <2>6. tails' \in Seq(Waiters) /\ Serial'
    <3>1. \A d \in Calls : call'[d].at \in {"preflight", "barrier"} => Holds(d)
      BY <1>1, <2>4 DEF Serial
    <3> QED  BY <1>2, <1>5, <2>3, <2>5, <3>1
  <2>7. Durably(log') /\ Goals' /\ AnswersAreDurable'
    BY <1>2, <1>6, <2>4, <2>5
  <2>8. TypeOK'  BY <1>1, <2>3, <2>4, <2>6 DEF TypeOK, Waiters, runtime, budget
  <2> QED  BY <2>6, <2>7, <2>8 DEF LogInv
<1>8. CASE TurnAborts
  <2>1. call' = [c \in Calls |-> [call[c] EXCEPT !.cancelled = @ \/ InProgress(c)]]
        /\ UNCHANGED <<log, durable, now, agent, tails, runtime, budget>>
    BY <1>8 DEF TurnAborts
  <2>2. ASSUME NEW c \in Calls
        PROVE  /\ call'[c] \in Call /\ call'[c].at = call[c].at /\ call'[c].answer = call[c].answer
               /\ call'[c].goal = call[c].goal /\ call'[c].seen = call[c].seen
    <3>1. call[c] \in Call /\ InProgress(c) \in BOOLEAN  BY <1>2 DEF InProgress
    <3>2. (call[c].cancelled \/ InProgress(c)) \in BOOLEAN  OBVIOUS
    <3>3. call'[c] = [call[c] EXCEPT !.cancelled = call[c].cancelled \/ InProgress(c)]
      BY <2>1, <3>1 DEF Call
    <3> QED  BY <3>1, <3>2, <3>3 DEF Call
  <2>3. call' \in [Calls -> Call]  BY <2>1, <2>2
  <2>4. log' = log /\ durable' = durable /\ drive' = drive /\ tails' = tails
    BY <2>1 DEF runtime
  <2>5. tails' \in Seq(Waiters) /\ Serial'
    BY <1>1, <1>2, <2>2, <2>4 DEF Serial, Holds
  <2>6. Durably(log')  BY <1>1, <2>4
  <2>7. Goals'  BY <1>1, <2>2, <2>4 DEF Goals
  <2>8. AnswersAreDurable'  BY <2>2, <2>4 DEF AnswersAreDurable
  <2>9. TypeOK'  BY <1>1, <2>1, <2>3, <2>5 DEF TypeOK, Waiters, runtime, budget
  <2> QED  BY <2>5, <2>6, <2>7, <2>8, <2>9 DEF LogInv
<1>9. ASSUME NEW c \in Calls, CallBegins(c)
      PROVE  LogInv' /\ AnswersAreDurable'
  <2>1. call[c].at = "queued" /\ Holds(c) /\ UNCHANGED <<log, durable, now, agent, runtime, budget>>
        /\ log' = log /\ durable' = durable /\ drive' = drive
    BY <1>9 DEF CallBegins, runtime
  <2>2. CASE call[c].cancelled
    <3>1. Answers(c, "cancelled", 0) /\ tails' = Tail(tails)
      BY <1>9, <2>2 DEF CallBegins
    <3>2. /\ call' \in [Calls -> Call] /\ call'[c].at = "done" /\ call'[c].answer = "cancelled"
          /\ \A d \in Calls : d # c => call'[d] = call[d]
      BY <1>1, <3>1, AnswerIsCall
    <3>3. tails' \in Seq(Waiters) /\ Serial'  BY <1>4, <2>1, <3>1, <3>2
    <3>4. Durably(log') /\ Goals' /\ AnswersAreDurable'  BY <1>2, <1>6, <2>1, <3>2
    <3>5. TypeOK'  BY <1>1, <2>1, <3>2, <3>3 DEF TypeOK, Waiters, runtime, budget
    <3> QED  BY <3>3, <3>4, <3>5 DEF LogInv
  <2>3. CASE ~call[c].cancelled
    <3>1. call' = [call EXCEPT ![c].at = "preflight", ![c].goal = Len(log)] /\ tails' = tails
      BY <1>9, <2>3 DEF CallBegins
    <3>2. call[c] \in Call  BY <1>2
    <3>3. /\ call' \in [Calls -> Call] /\ call'[c].at = "preflight" /\ call'[c].goal = Len(log)
          /\ call'[c].answer = call[c].answer /\ call'[c].seen = call[c].seen
          /\ \A d \in Calls : d # c => call'[d] = call[d]
      BY <1>2, <3>1, <3>2 DEF Call
    <3>4. tails' \in Seq(Waiters) /\ Serial'
      <4>1. \A d \in Calls : call'[d].at \in {"preflight", "barrier"} => Holds(d)
        BY <1>1, <2>1, <3>3 DEF Serial
      <4> QED  BY <1>2, <1>5, <2>1, <3>1, <4>1
    <3>5. Durably(log')  BY <1>1, <2>1
    <3>6. Goals'  BY <1>1, <1>2, <2>1, <3>3 DEF Goals
    <3>7. AnswersAreDurable'
      <4>1. \A d \in Calls : call'[d].answer = call[d].answer /\ call'[d].seen = call[d].seen
        BY <3>3
      <4> QED  BY <2>1, <4>1 DEF AnswersAreDurable
    <3>8. TypeOK'  BY <1>1, <2>1, <3>3, <3>4 DEF TypeOK, Waiters, runtime, budget
    <3> QED  BY <3>4, <3>5, <3>6, <3>7, <3>8 DEF LogInv
  <2> QED  BY <2>2, <2>3
<1>10. ASSUME NEW c \in Calls, CallFails(c)
       PROVE  LogInv' /\ AnswersAreDurable'
  <2>1. /\ call[c].at \in {"preflight", "barrier"} /\ Answers(c, "uncertain", 0)
        /\ tails' = Tail(tails) /\ log' = log /\ durable' = durable /\ drive' = drive
    BY <1>10 DEF CallFails
  <2>2. Holds(c)  BY <1>1, <2>1 DEF Serial
  <2>3. /\ call' \in [Calls -> Call] /\ call'[c].at = "done" /\ call'[c].answer = "uncertain"
        /\ \A d \in Calls : d # c => call'[d] = call[d]
    BY <1>1, <2>1, AnswerIsCall
  <2>4. tails' \in Seq(Waiters) /\ Serial'  BY <1>4, <2>1, <2>2, <2>3
  <2>5. Durably(log') /\ Goals' /\ AnswersAreDurable'  BY <1>2, <1>6, <2>1, <2>3
  <2>6. stalled' \in BOOLEAN  BY <1>2, <1>10 DEF CallFails
  <2>7. failures' \in Nat  BY <1>2, <1>10 DEF CallFails, Fails
  <2>8. TypeOK'  BY <1>1, <1>2, <1>10, <2>1, <2>3, <2>4, <2>6, <2>7 DEF TypeOK, CallFails, Waiters
  <2> QED  BY <2>4, <2>5, <2>8 DEF LogInv
<1>11. ASSUME NEW c \in Calls, NEW answer \in {"ok", "refused"}, NEW seen \in Nat,
              call[c].at \in {"preflight", "barrier"}, FlushTo(call[c].goal),
              RequestDrive(Tail(tails)), Answers(c, answer, seen), answer = "ok" => seen <= call[c].goal,
              failures' \in Nat,
              UNCHANGED <<log, now, agent, goal, accepted, idleWait, stopping, faulted,
                          turns, jumps, crashes>>
       PROVE  LogInv' /\ AnswersAreDurable'
  <2>1. Holds(c) /\ tails # <<>>  BY <1>1, <1>11 DEF Serial, Holds
  <2>2. call[c].goal \in 0..Len(log)
    <3>1. call[c].goal \in Nat  BY <1>2 DEF Call
    <3> QED  BY <1>1, <1>2, <1>11, <3>1 DEF Goals
  <2>3. durable' \in 0..Len(log) /\ durable <= durable' /\ call[c].goal <= durable'
    BY <1>1, <1>11, <2>2, Flushes
  <2>4. /\ call' \in [Calls -> Call] /\ call'[c].at = "done" /\ call'[c].answer = answer
        /\ call'[c].seen = seen /\ \A d \in Calls : d # c => call'[d] = call[d]
    BY <1>1, <1>11, AnswerIsCall
  <2>5. Tail(tails) \in Seq(Waiters)  BY <1>1, <2>1, LeavesQueue
  <2>6. /\ tails' = Tail(tails) \/ tails' = Append(Tail(tails), Runtime)
        /\ drive' \in Modes /\ requested' \in BOOLEAN /\ timer' \in 0..(MaxDelay + 1)
        /\ stalled' \in BOOLEAN
        /\ drive' = drive \/ drive' = "queued"
    BY <1>1, <1>11, <2>5, Requests
  <2>7. tails' \in Seq(Waiters) /\ Serial'  BY <1>4, <2>1, <2>4, <2>6
  <2>8. call'[c].answer = "ok" => call'[c].seen <= durable'
    BY <1>2, <1>11, <2>2, <2>3, <2>4
  <2>9. Durably(log') /\ Goals' /\ AnswersAreDurable'
    BY <1>6, <1>11, <2>3, <2>4, <2>8
  <2>10. TypeOK'
    BY <1>2, <1>11, <2>3, <2>4, <2>6, <2>7 DEF TypeOK, Waiters, Modes
  <2> QED  BY <2>7, <2>9, <2>10 DEF LogInv
<1>12. ASSUME NEW c \in Calls, CallReads(c)
       PROVE  LogInv' /\ AnswersAreDurable'
  <2>1. /\ call[c].at = "preflight" /\ FlushTo(call[c].goal) /\ RequestDrive(Tail(tails))
        /\ UNCHANGED <<log, now, agent, goal, accepted, idleWait, stopping, faulted,
                       turns, failures, jumps, crashes>>
    BY <1>12 DEF CallReads, budget
  <2>2. Answers(c, "refused", 0) \/ Answers(c, "ok", Len(log))
    BY <1>12 DEF CallReads
  <2>3. Len(log) <= call[c].goal  BY <1>1, <1>2, <2>1 DEF Goals
  <2> QED  BY <1>2, <1>11, <2>1, <2>2, <2>3
<1>13. ASSUME NEW c \in Calls, CallConfirms(c)
       PROVE  LogInv' /\ AnswersAreDurable'
  <2>1. /\ call[c].at = "barrier" /\ FlushTo(call[c].goal) /\ RequestDrive(Tail(tails))
        /\ Answers(c, "ok", call[c].goal)
        /\ UNCHANGED <<log, now, agent, goal, accepted, idleWait, stopping, faulted,
                       turns, failures, jumps, crashes>>
    BY <1>13 DEF CallConfirms, budget
  <2>2. call[c].goal \in Nat /\ call[c].goal <= call[c].goal  BY <1>2 DEF Call
  <2> QED  BY <1>2, <1>11, <2>1, <2>2
<1>14. ASSUME NEW c \in Calls, CallWrites(c)
       PROVE  LogInv' /\ AnswersAreDurable'
  <2>1. /\ call[c].at = "preflight" /\ FlushTo(call[c].goal)
        /\ UNCHANGED <<now, agent, goal, accepted, idleWait, stopping, faulted,
                       turns, jumps, crashes>>
    BY <1>14 DEF CallWrites
  <2>2. PICK e \in Appends(c) :
          \/ /\ log' = Append(log, e) /\ RequestDrive(tails)
             /\ call' = [call EXCEPT ![c].at = "barrier", ![c].goal = Len(log) + 1]
             /\ UNCHANGED failures
          \/ Fails /\ Answers(c, "refused", 0) /\ RequestDrive(Tail(tails)) /\ UNCHANGED log
    BY <1>14 DEF CallWrites
  <2>3. CASE Fails /\ Answers(c, "refused", 0) /\ RequestDrive(Tail(tails)) /\ UNCHANGED log
    <3>1. failures' \in Nat  BY <1>2, <2>3 DEF Fails
    <3> QED  BY <1>11, <2>1, <2>3, <3>1
  <2>4. CASE /\ log' = Append(log, e) /\ RequestDrive(tails)
             /\ call' = [call EXCEPT ![c].at = "barrier", ![c].goal = Len(log) + 1]
             /\ UNCHANGED failures
    <3>1. Durably(log') /\ log' \in Seq(Event) /\ Len(log') = Len(log) + 1
      BY <1>1, <2>4, CallWritesLog
    <3>2. call[c] \in Call /\ call[c].goal = Len(log) /\ Holds(c)
      BY <1>1, <1>2, <2>1 DEF Goals, Serial
    <3>3. durable' \in 0..Len(log) /\ durable <= durable'
      BY <1>1, <1>2, <2>1, <3>2, Flushes
    <3>4. /\ call' \in [Calls -> Call] /\ call'[c].at = "barrier" /\ call'[c].goal = Len(log) + 1
          /\ call'[c].answer = call[c].answer /\ call'[c].seen = call[c].seen
          /\ \A d \in Calls : d # c => call'[d] = call[d]
      <4> DEFINE new == [call[c] EXCEPT !.at = "barrier", !.goal = Len(log) + 1]
      <4>1. Len(log) + 1 \in Nat  BY <1>2
      <4>2. /\ new \in Call /\ new.at = "barrier" /\ new.goal = Len(log) + 1
            /\ new.answer = call[c].answer /\ new.seen = call[c].seen
        BY <3>2, <4>1 DEF Call
      <4>3. call' = [call EXCEPT ![c] = new]  BY <2>4
      <4>4. call \in [Calls -> Call]  BY <1>2
      <4> HIDE DEF new
      <4> QED  BY <4>2, <4>3, <4>4
    <3>5. /\ tails' = tails \/ tails' = Append(tails, Runtime)
          /\ drive' \in Modes /\ requested' \in BOOLEAN /\ timer' \in 0..(MaxDelay + 1)
          /\ stalled' \in BOOLEAN
          /\ drive' = drive \/ drive' = "queued"
      BY <1>1, <1>2, <2>4, Requests
    <3>6. tails' \in Seq(Waiters) /\ Serial'
      <4>1. \A d \in Calls : call'[d].at \in {"preflight", "barrier"} => Holds(d)
        BY <1>1, <3>2, <3>4 DEF Serial
      <4> QED  BY <1>2, <1>5, <3>5, <4>1
    <3>7. Goals'
      <4>1. ASSUME NEW d \in Calls, d # c
            PROVE  call'[d] = call[d] /\ call[d].at \notin {"preflight", "barrier"}
        BY <1>1, <3>2, <3>4, <4>1 DEF Serial, Holds
      <4> QED  BY <1>2, <3>1, <3>4, <4>1 DEF Goals
    <3>8. AnswersAreDurable'
      <4>1. ASSUME NEW d \in Calls, call'[d].answer = "ok" PROVE call'[d].seen <= durable'
        <5>1. call'[d].answer = call[d].answer /\ call'[d].seen = call[d].seen /\ call[d] \in Call
          BY <1>2, <3>4
        <5>2. call[d].seen \in Nat /\ call[d].seen <= durable
          BY <4>1, <5>1 DEF AnswersAreDurable, Call
        <5> QED  BY <1>2, <3>3, <5>1, <5>2
      <4> QED  BY <4>1 DEF AnswersAreDurable
    <3>9. durable' \in 0..Len(log') /\ goal \in 0..Len(log')  BY <1>2, <3>1, <3>3
    <3>10. TypeOK'
      BY <1>2, <2>1, <2>4, <3>1, <3>4, <3>5, <3>6, <3>9 DEF TypeOK, Waiters, Modes
    <3> QED  BY <3>1, <3>6, <3>7, <3>8, <3>10 DEF LogInv
  <2> QED  BY <2>2, <2>3, <2>4
<1> QED  BY <1>7, <1>8, <1>9, <1>10, <1>12, <1>13, <1>14 DEF ToolStep

\* A decision to remind keeps the log invariant, wherever it fails: no call can
\* be between its flushes, for the runtime holds the queue.
LEMMA RemindsKeep ==
  ASSUME LogInv, AnswersAreDurable, DriveReminds
  PROVE  LogInv' /\ AnswersAreDurable'
<1>1. /\ TypeOK /\ Durably(log) /\ Serial /\ Goals  BY DEF LogInv
<1>2. /\ log \in Seq(Event) /\ Len(log) \in Nat /\ tails \in Seq(Waiters) /\ call \in [Calls -> Call]
      /\ durable \in 0..Len(log) /\ goal \in 0..Len(log)
      /\ faulted \in BOOLEAN /\ stalled \in BOOLEAN /\ accepted \in BOOLEAN
      /\ turns \in Nat /\ failures \in Nat /\ jumps \in Nat /\ crashes \in Nat
  BY <1>1 DEF TypeOK, Waiters
<1>3. /\ drive = "preflight" /\ FlushTo(goal) /\ goal' = 0 /\ agent' = "maintenance"
      /\ drive' = "maintenance"
      /\ UNCHANGED <<now, tails, requested, timer, idleWait, stopping, call,
                     turns, jumps, crashes>>
  BY DEF DriveReminds
<1>4. /\ log' \in Seq(Event) /\ Durably(log') /\ Len(log') \in Nat /\ Len(log) <= Len(log')
  <2>1. CASE \E n \in 0..Cardinality(Selected) : Reminds(n)
    <3>1. PICK n \in 0..Cardinality(Selected) : Reminds(n)  BY <2>1
    <3>2. Durably(log') /\ log' \in Seq(Event) /\ Len(log') = Len(log) + 1 + n
      BY <1>1, <3>1, RemindsWrites
    <3>3. Cardinality(Selected) \in Nat  BY <1>1, SoundState, DecisionIsEvents
    <3> QED  BY <1>2, <3>2, <3>3
  <2>2. CASE log' = log
    <3>1. Durably(log')  BY <1>1, <2>2
    <3> QED  BY <1>2, <2>2, <3>1
  <2>3. Cardinality(Selected) \in Nat  BY <1>1, SoundState, DecisionIsEvents
  <2>4. Cardinality(Selected) \in 0..Cardinality(Selected)
        /\ \A n \in 0..(Cardinality(Selected) - 1) : n \in 0..Cardinality(Selected)
    BY <2>3
  <2> QED  BY <2>1, <2>2, <2>4 DEF DriveReminds
<1>5. durable' \in 0..Len(log) /\ durable <= durable'
  BY <1>1, <1>2, <1>3, Flushes
<1>6. durable' \in 0..Len(log') /\ 0 \in 0..Len(log')  BY <1>2, <1>4, <1>5
<1>7. failures' \in Nat  BY <1>2 DEF DriveReminds, Fails
<1>8. accepted' \in BOOLEAN /\ faulted' \in BOOLEAN /\ stalled' \in BOOLEAN
  BY <1>2 DEF DriveReminds
<1>9. TypeOK'
  BY <1>1, <1>3, <1>4, <1>6, <1>7, <1>8 DEF TypeOK
<1>10. \A c \in Calls : call[c].at \notin {"preflight", "barrier"}
  <2>1. \A c \in Calls : c # Runtime  BY BoundsAssumption DEF Calls, Runtime
  <2> QED  BY <1>1, <1>3, <2>1 DEF Serial, Holds
<1>11. Serial' /\ Goals'
  BY <1>1, <1>3, <1>10 DEF Serial, Goals, Holds
<1>12. AnswersAreDurable'
  <2>1. ASSUME NEW c \in Calls, call[c].answer = "ok" PROVE call[c].seen <= durable'
    <3>1. call[c].seen \in Nat /\ call[c].seen <= durable
      BY <1>2, <2>1 DEF AnswersAreDurable, Call
    <3> QED  BY <1>2, <1>5, <3>1
  <2> QED  BY <1>3, <2>1 DEF AnswersAreDurable
<1> QED  BY <1>4, <1>9, <1>11, <1>12 DEF LogInv

\* A crash keeps what was answered, and leaves a sound log.
LEMMA CrashKeeps ==
  ASSUME LogInv, AnswersAreDurable, Crash
  PROVE  LogInv' /\ AnswersAreDurable'
<1>1. /\ TypeOK /\ Durably(log) /\ Serial /\ Goals  BY DEF LogInv
<1>2. /\ call \in [Calls -> Call] /\ Len(log) \in Nat /\ durable \in 0..Len(log)
      /\ now \in 1..Horizon /\ crashes \in Nat
      /\ {turns, failures, jumps} \subseteq Nat
      /\ <<>> \in Seq(Waiters)
  BY <1>1 DEF TypeOK
<1>3. /\ Durably(log') /\ log' \in Seq(Event) /\ Len(log') = durable'
      /\ durable' \in Nat /\ durable <= durable'
  BY <1>1, CrashCuts
<1>4. /\ agent' = "idle" /\ Start(<<>>) /\ goal' = 0 /\ accepted' = FALSE
      /\ idleWait' = FALSE /\ stopping' = FALSE /\ faulted' = FALSE
      /\ crashes' \in Nat
      /\ UNCHANGED <<now, turns, failures, jumps>>
  BY <1>2 DEF Crash
<1>5. ASSUME NEW c \in Calls
      PROVE  /\ call'[c] \in Call /\ call'[c].at \in {"none", "done"}
             /\ call'[c].answer = "ok" => call'[c] = call[c]
  <2>1. call'[c] = IF InProgress(c) THEN [Idle EXCEPT !.at = "done", !.answer = "lost"] ELSE call[c]
    BY DEF Crash
  <2>2. CASE InProgress(c)
    <3> DEFINE lost == [Idle EXCEPT !.at = "done", !.answer = "lost"]
    <3>1. lost \in Call /\ lost.at = "done" /\ lost.answer = "lost"
      BY DEF Idle, Call, NoRule
    <3>2. call'[c] = lost  BY <2>1, <2>2
    <3> HIDE DEF lost
    <3> QED  BY <3>1, <3>2
  <2>3. CASE ~InProgress(c)
    BY <1>2, <2>1, <2>3 DEF InProgress
  <2> QED  BY <2>2, <2>3
<1>6. call' \in [Calls -> Call]
  <2>1. call' = [c \in Calls |->
          IF InProgress(c) THEN [Idle EXCEPT !.at = "done", !.answer = "lost"] ELSE call[c]]
    BY DEF Crash
  <2> QED  BY <1>5, <2>1
<1>7. /\ tails' \in Seq(Waiters) /\ requested' \in BOOLEAN /\ stalled' \in BOOLEAN
      /\ timer' = 0 /\ drive' \in {"queued", "none"}
  BY <1>1, <1>2, <1>4, Starts
<1>8. durable' \in 0..Len(log') /\ 0 \in 0..Len(log') /\ 0 \in 0..(MaxDelay + 1)
  BY <1>3, HorizonAssumption
<1>9. TypeOK'
  BY <1>2, <1>3, <1>4, <1>6, <1>7, <1>8 DEF TypeOK, Waiters
<1>10. Serial' /\ Goals'  BY <1>5, <1>7 DEF Serial, Goals
<1>11. AnswersAreDurable'
  <2>1. ASSUME NEW c \in Calls, call'[c].answer = "ok" PROVE call'[c].seen <= durable'
    <3>1. call'[c] = call[c] /\ call[c].seen \in Nat  BY <1>2, <1>5, <2>1 DEF Call
    <3>2. call[c].seen <= durable  BY <2>1, <3>1 DEF AnswersAreDurable
    <3> QED  BY <1>2, <1>3, <3>1, <3>2
  <2> QED  BY <2>1 DEF AnswersAreDurable
<1> QED  BY <1>3, <1>9, <1>10, <1>11 DEF LogInv

\* A program that has just started.
LEMMA InitKeeps ==
  ASSUME Init
  PROVE  LogInv /\ AnswersAreDurable
<1>1. log = <<>> /\ Len(log) = 0 /\ log \in Seq(Event)  BY DEF Init
<1>2. Durably(log)  BY <1>1, DurablyEmpty
<1>3. Idle \in Call  BY DEF Idle, Call
<1>4. call \in [Calls -> Call] /\ \A c \in Calls : call[c].at = "none" /\ call[c].answer = "none"
  BY <1>3 DEF Init, Idle
<1>5. <<Runtime>> \in Seq(Calls \cup {Runtime}) /\ <<>> \in Seq(Calls \cup {Runtime})
  <2>1. Runtime \in Calls \cup {Runtime}  OBVIOUS
  <2> QED  BY <2>1
<1>6. /\ durable = 0 /\ goal = 0 /\ now = 1 /\ timer = 0 /\ agent = "idle"
      /\ drive \in {"queued", "none"}
      /\ tails = <<Runtime>> \/ tails = <<>>
      /\ turns = 0 /\ failures = 0 /\ jumps = 0 /\ crashes = 0
  BY DEF Init
<1>7. durable \in 0..Len(log) /\ goal \in 0..Len(log) /\ now \in 1..Horizon
      /\ timer \in 0..(MaxDelay + 1)
  BY <1>1, <1>6, HorizonAssumption
<1>8. TypeOK
  <2>1. log \in Seq(Event) /\ tails \in Seq(Calls \cup {Runtime})  BY <1>1, <1>5, <1>6
  <2>2. {requested, idleWait, stopping, faulted, stalled, accepted} \subseteq BOOLEAN
    <3>1. /\ requested \in BOOLEAN /\ idleWait \in BOOLEAN /\ stopping \in BOOLEAN
          /\ faulted \in BOOLEAN /\ stalled \in BOOLEAN /\ accepted \in BOOLEAN
      BY Zenon DEF Init
    <3> QED  BY <3>1
  <2>3. {turns, failures, jumps, crashes} \subseteq Nat  BY <1>6
  <2>4. /\ agent \in {"idle", "turn", "maintenance"}
        /\ drive \in {"none", "queued", "preflight", "maintenance", "barrier", "loop", "over",
                      "rejected"}
    BY <1>6
  <2> QED  BY <1>4, <1>7, <2>1, <2>2, <2>3, <2>4 DEF TypeOK
<1>9. Serial /\ Goals  BY <1>4, <1>6 DEF Serial, Goals
<1>10. AnswersAreDurable  BY <1>4 DEF AnswersAreDurable
<1> QED  BY <1>2, <1>8, <1>9, <1>10 DEF LogInv

\* Every step is one of a tool, a decision to remind, a crash, or quiet.
LEMMA Steps ==
  ASSUME [Next]_vars
  PROVE  ToolStep \/ DriveReminds \/ Crash \/ Quiet
BY DEF Next, Internal, ToolStep, Quiet

\* Every step keeps the log invariant, and what tools have answered durable.
LEMMA LogStep ==
  ASSUME LogInv, AnswersAreDurable, [Next]_vars
  PROVE  LogInv' /\ AnswersAreDurable'
<1>1. CASE ToolStep  BY <1>1, ToolStepKeeps
<1>2. CASE DriveReminds  BY <1>2, RemindsKeep
<1>3. CASE Crash  BY <1>3, CrashKeeps
<1>4. CASE Quiet
  <2>1. LogInv' /\ call' = call /\ durable <= durable' /\ log' = log
    BY <1>4, QuietKeeps
  <2>2. AnswersAreDurable'
    <3>1. ASSUME NEW c \in Calls, call[c].answer = "ok" PROVE call[c].seen <= durable'
      <4>1. call[c].seen \in Nat /\ call[c].seen <= durable /\ durable \in Nat
        BY <3>1 DEF AnswersAreDurable, LogInv, TypeOK, Call
      <4>2. durable' \in Nat  BY <2>1 DEF LogInv, TypeOK
      <4> QED  BY <2>1, <4>1, <4>2
    <3> QED  BY <2>1, <3>1 DEF AnswersAreDurable
  <2> QED  BY <2>1, <2>2
<1> QED  BY <1>1, <1>2, <1>3, <1>4, Steps

\* The log has the same records while it is the same.
LEMMA SameLog ==
  ASSUME log' = log
  PROVE  Folded' = Folded /\ Active' = Active
<1>1. Folded' = Folded  BY DEF Folded
<1> QED  BY <1>1 DEF Active

\* A program that has just started has asked for its first drive, or stalled.
LEMMA InitWakes ==
  ASSUME Init
  PROVE  WakeInv
<1>1. /\ timer = 0 /\ faulted = FALSE /\ stopping = FALSE
      /\ drive = "queued" \/ (drive = "none" /\ stalled = TRUE)
  BY DEF Init
<1> QED  BY <1>1 DEF WakeInv, Driven, Wakes

\* No step leaves the runtime at rest without what wakes it for its records.
LEMMA WakeStep ==
  ASSUME LogInv, WakeInv, [Next]_vars
  PROVE  WakeInv'
<1>1. TypeOK /\ Driven /\ Wakes /\ tails \in Seq(Waiters)
  BY DEF LogInv, WakeInv, TypeOK, Waiters
<1>2. /\ timer \in 0..(MaxDelay + 1) /\ now \in 1..Horizon /\ Horizon \in Nat
      /\ MaxDelay \in Nat /\ jumps \in Nat /\ \A r \in Active : r.due \in Int
      /\ drive \in Modes
  BY <1>1, HorizonAssumption, ActiveRecords DEF TypeOK, Record, Modes
<1>3. ASSUME NEW queue \in Seq(Waiters), RequestDrive(queue),
             UNCHANGED <<accepted, stopping, faulted>>
      PROVE  WakeInv'
  <2>1. CASE stopping \/ faulted
    <3>1. timer' = timer /\ requested' = requested /\ drive' = drive /\ stalled' = stalled
      BY <1>1, <1>3, <2>1, Requests
    <3> QED  BY <1>1, <1>3, <2>1, <3>1 DEF WakeInv, Driven, Wakes
  <2>2. CASE ~stopping /\ ~faulted
    <3>1. /\ timer' = 0
          /\ drive' = "queued" \/ (requested' = TRUE /\ (drive' # "none" \/ stalled'))
      BY <1>1, <1>3, <2>2, Requests
    <3>2. /\ drive' = drive \/ (drive = "none" /\ drive' = "queued")
          /\ stalled => stalled'
      BY <1>1, <1>3, Requests
    <3> QED  BY <1>1, <1>3, <2>2, <3>1, <3>2 DEF WakeInv, Driven, Wakes
  <2> QED  BY <2>1, <2>2
<1>4. ASSUME log' = log, stalled => stalled',
             UNCHANGED <<now, jumps, drive, accepted, requested, timer, idleWait, stopping, faulted>>
      PROVE  WakeInv'
  <2>1. Active' = Active  BY <1>4, SameLog
  <2> QED  BY <1>1, <1>4, <2>1 DEF WakeInv, Driven, Wakes, Woken
<1>5. CASE ToolStep
  <2>1. ASSUME NEW c \in Calls, CallReads(c) \/ CallWrites(c) \/ CallConfirms(c)
        PROVE  WakeInv'
    <3>1. Holds(c)  BY <2>1 DEF LogInv, Serial, CallReads, CallWrites, CallConfirms
    <3>2. Tail(tails) \in Seq(Waiters)  BY <1>1, <3>1, LeavesQueue DEF Holds
    <3>3. RequestDrive(tails) \/ RequestDrive(Tail(tails))
      BY <2>1 DEF CallReads, CallWrites, CallConfirms
    <3>4. UNCHANGED <<accepted, stopping, faulted>>
      BY <2>1 DEF CallReads, CallWrites, CallConfirms
    <3> QED  BY <1>1, <1>3, <3>2, <3>3, <3>4
  <2>2. ASSUME NEW c \in Calls, CallerAsks(c) \/ CallBegins(c) \/ CallFails(c)
        PROVE  WakeInv'
    <3>1. CASE CallerAsks(c)
      BY <1>4, <3>1 DEF CallerAsks, Asks, runtime, budget
    <3>2. CASE CallBegins(c)
      BY <1>4, <3>2 DEF CallBegins, runtime, budget
    <3>3. CASE CallFails(c)
      BY <1>4, <3>3 DEF CallFails
    <3> QED  BY <2>2, <3>1, <3>2, <3>3
  <2>3. CASE TurnAborts
    BY <1>4, <2>3 DEF TurnAborts, runtime, budget
  <2> QED  BY <1>5, <2>1, <2>2, <2>3 DEF ToolStep
<1>6. CASE DriveReminds
  <2>1. drive = "preflight" /\ drive' = "maintenance" /\ UNCHANGED <<timer, stopping>>
    BY <1>6 DEF DriveReminds
  <2>2. ~faulted /\ timer = 0 /\ ~stopping
    BY <1>1, <1>6, <2>1 DEF Driven, DriveReminds
  <2>3. faulted' => ~accepted'  BY <1>6, <2>2 DEF DriveReminds
  <2>4. ~accepted' => faulted' \/ stalled'  BY <1>6 DEF DriveReminds
  <2> QED  BY <2>1, <2>2, <2>3, <2>4 DEF WakeInv, Driven, Wakes
<1>7. CASE Crash
  <2>1. <<>> \in Seq(Waiters) /\ Start(<<>>) /\ faulted' = FALSE /\ stopping' = FALSE
    BY <1>7 DEF Crash
  <2>2. timer' = 0 /\ (drive' = "queued" \/ (drive' = "none" /\ stalled' = TRUE))
    BY <1>1, <2>1, Starts
  <2> QED  BY <2>1, <2>2 DEF WakeInv, Driven, Wakes
<1>8. CASE DriveBegins
  <2>1. drive = "queued" /\ timer' = 0 /\ UNCHANGED <<stopping, faulted>>
        /\ (drive' = "preflight" \/ (stopping /\ drive' = "loop"))
    BY <1>8 DEF DriveBegins, EndsDrive
  <2> QED  BY <1>1, <2>1 DEF WakeInv, Driven, Wakes
<1>9. CASE (DriveDecides \/ DriveConfirms) /\ DriveFails
  <2>1. drive \in {"preflight", "barrier"} /\ drive' = "loop" /\ stalled' = TRUE
        /\ UNCHANGED <<timer, stopping, faulted>>
    BY <1>9 DEF DriveDecides, DriveConfirms, DriveFails, EndsDrive
  <2> QED  BY <1>1, <2>1 DEF WakeInv, Driven, Wakes
<1>10. CASE DriveDecides /\ ~DriveFails /\ ~DecisionFails
  <2>1. /\ drive = "preflight" /\ drive' = "loop"
        /\ UNCHANGED <<log, now, requested, stopping, faulted, stalled, jumps>>
        /\ timer' = IF ~stopping /\ Due = {} THEN Armed ELSE timer
        /\ idleWait' = (idleWait \/ (~stopping /\ Due # {}))
    BY <1>10 DEF DriveDecides, EndsDrive, budget
  <2>2. Active' = Active /\ now' = now  BY <2>1, SameLog
  <2>3. ~faulted' /\ (stopping' => timer' = 0)  BY <1>1, <2>1 DEF Driven
  <2>4. ASSUME ~stopping, Active # {} PROVE Woken'
    <3>1. CASE Due # {}
      <4>1. idleWait'  BY <2>1, <2>4, <3>1
      <4> QED  BY <4>1 DEF Woken
    <3>2. CASE Due = {}
      <4>1. /\ timer' = Armed /\ Armed > 0
            /\ \A r \in Active : now < r.due /\ Armed - 1 <= r.due - now
        BY <1>1, <2>1, <2>4, <3>2, ArmedInTime
      <4>2. \A r \in Active : Later(r.due, now) = r.due  BY <1>2, <4>1 DEF Later
      <4> QED  BY <2>2, <4>1, <4>2 DEF Woken
    <3> QED  BY <3>1, <3>2
  <2> QED  BY <2>1, <2>2, <2>3, <2>4 DEF WakeInv, Driven, Wakes
<1>11. CASE MaintenanceEnds
  <2>1. /\ drive = "maintenance" /\ UNCHANGED <<timer, requested, stopping, faulted, stalled>>
        /\ \/ accepted /\ drive' = "barrier" /\ UNCHANGED accepted
           \/ ~accepted /\ drive' = "loop" /\ accepted' = FALSE
    BY <1>11 DEF MaintenanceEnds, EndsDrive
  <2> QED  BY <1>1, <2>1 DEF WakeInv, Driven, Wakes
<1>12. CASE DriveConfirms /\ ~DriveFails
  <2>1. /\ drive = "barrier" /\ drive' = "loop" /\ UNCHANGED <<stopping, faulted>>
        /\ requested' = (requested \/ ~stopping) /\ timer' = IF stopping THEN timer ELSE 0
    BY <1>12 DEF DriveConfirms, EndsDrive
  <2> QED  BY <1>1, <2>1 DEF WakeInv, Driven, Wakes
<1>13. CASE DriveLoops /\ Again
  <2>1. ~stopping' /\ ~faulted'  BY <1>13 DEF DriveLoops, Again
  <2>2. CASE drive = "loop"
    <3>1. drive' = "queued"  BY <1>13, <2>2 DEF DriveLoops
    <3> QED  BY <2>1, <3>1 DEF WakeInv, Driven, Wakes
  <2>3. CASE drive = "over"
    <3>1. Start(tails)  BY <1>13, <2>3 DEF DriveLoops
    <3>2. timer' = 0 /\ (drive' = "queued" \/ (drive' = "none" /\ stalled' = TRUE))
      BY <1>1, <3>1, Starts
    <3> QED  BY <2>1, <3>2 DEF WakeInv, Driven, Wakes
  <2> QED  BY <1>13, <2>2, <2>3 DEF DriveLoops
<1>14. CASE DriveLoops /\ ~Again
  <2>1. /\ drive \in {"loop", "over"} /\ drive' \in {"over", "none"}
        /\ UNCHANGED <<log, now, jumps, accepted, requested, timer, idleWait, stopping, faulted, stalled>>
        /\ ~stopping /\ ~faulted => ~requested
    BY <1>14 DEF DriveLoops, Again, budget
  <2>2. Active' = Active  BY <2>1, SameLog
  <2> QED  BY <1>1, <2>1, <2>2 DEF WakeInv, Driven, Wakes, Woken
<1>15. CASE TimerFires
  BY <1>1, <1>3, <1>15 DEF TimerFires
<1>16. CASE IdleWaitEnds
  BY <1>1, <1>3, <1>16 DEF IdleWaitEnds
<1>17. CASE Dispose
  <2>1. /\ stopping' = TRUE /\ requested' = FALSE /\ timer' = 0
        /\ UNCHANGED <<drive, accepted, faulted, stalled>>
    BY <1>17 DEF Dispose
  <2> QED  BY <1>1, <2>1 DEF WakeInv, Driven, Wakes
<1>18. CASE TurnBegins
  BY <1>4, <1>18 DEF TurnBegins, runtime
<1>19. CASE TurnEnds
  <2>1. CASE Folded.seen = {}
    BY <1>4, <1>19, <2>1 DEF TurnEnds, budget
  <2>2. CASE Folded.seen # {}
    BY <1>1, <1>3, <1>19, <2>2 DEF TurnEnds
  <2> QED  BY <2>1, <2>2
<1>20. CASE Tick
  <2>1. /\ now' = Sooner(now + 1, Horizon) /\ timer' = IF timer > 1 THEN timer - 1 ELSE timer
        /\ UNCHANGED <<log, drive, accepted, requested, idleWait, stopping, faulted, stalled, jumps>>
    BY <1>20 DEF Tick, budget
  <2>2. Active' = Active  BY <2>1, SameLog
  <2>3. now' \in Nat /\ (now' = now \/ now' = now + 1)  BY <1>2, <2>1 DEF Sooner
  <2>4. timer = 0 => timer' = 0  BY <1>2, <2>1
  <2>5. Driven'  BY <1>1, <2>1, <2>4 DEF Driven
  <2>6. ASSUME Woken PROVE Woken'
    <3>1. CASE idleWait  BY <2>1, <3>1 DEF Woken
    <3>2. CASE ~idleWait
      <4>1. timer > 0 /\ (jumps = 0 => \A r \in Active : timer - 1 <= Later(r.due, now) - now)
        BY <2>6, <3>2 DEF Woken
      <4>2. timer' > 0  BY <1>2, <2>1, <4>1
      <4>3. ASSUME NEW r \in Active, timer - 1 <= Later(r.due, now) - now
            PROVE  timer' - 1 <= Later(r.due, now') - now'
        BY <1>2, <2>1, <2>3, <4>1, <4>3 DEF Later
      <4> QED  BY <2>1, <2>2, <4>1, <4>2, <4>3 DEF Woken
    <3> QED  BY <3>1, <3>2
  <2>7. Wakes'  BY <1>1, <2>1, <2>2, <2>6 DEF Wakes
  <2> QED  BY <2>5, <2>7 DEF WakeInv
<1>21. CASE ClockIsSet
  <2>1. /\ jumps' = jumps + 1
        /\ UNCHANGED <<log, drive, accepted, requested, timer, idleWait, stopping, faulted, stalled>>
    BY <1>21 DEF ClockIsSet, runtime
  <2>2. Active' = Active /\ jumps' # 0  BY <1>2, <2>1, SameLog
  <2> QED  BY <1>1, <2>1, <2>2 DEF WakeInv, Driven, Wakes, Woken
<1>22. CASE UNCHANGED vars
  BY <1>4, <1>22 DEF vars, runtime, budget
<1>23. CASE DriveDecides /\ DecisionFails
  <2>1. drive = "preflight" /\ drive' = "loop" /\ stalled' = TRUE /\ ~stopping
        /\ UNCHANGED <<timer, stopping, faulted>>
    BY <1>23 DEF DriveDecides, DecisionFails, EndsDrive
  <2> QED  BY <1>1, <2>1 DEF WakeInv, Driven, Wakes
<1>24. CASE MaintenanceRejects
  <2>1. /\ drive = "maintenance" /\ drive' = "rejected" /\ ~accepted /\ ~faulted
        /\ UNCHANGED <<timer, accepted, stopping, faulted>>
    BY <1>24 DEF MaintenanceRejects
  <2> QED  BY <1>1, <2>1 DEF WakeInv, Driven, Wakes
<1>25. CASE RunRejects
  <2>1. /\ drive = "rejected" /\ drive' = "none" /\ faulted' = TRUE
        /\ UNCHANGED <<timer, accepted, stopping>>
    BY <1>25 DEF RunRejects
  <2> QED  BY <1>1, <2>1 DEF WakeInv, Driven, Wakes
<1>26. CASE IdleWaitFails
  <2>1. /\ stalled' = (stalled \/ drive \in {"loop", "over", "none"})
        /\ UNCHANGED <<drive, accepted, requested, timer, stopping, faulted>>
    BY <1>26 DEF IdleWaitFails
  <2> QED  BY <1>1, <2>1 DEF WakeInv, Driven, Wakes
<1>27. Quiet => WakeInv'
  BY <1>8, <1>9, <1>10, <1>11, <1>12, <1>13, <1>14, <1>15, <1>16, <1>17, <1>18, <1>19,
     <1>20, <1>21, <1>22, <1>23, <1>24, <1>25, <1>26 DEF Quiet
<1> QED  BY <1>5, <1>6, <1>7, <1>27, Steps

\* What the tools do to the log: nothing, or one event with an answer to come.
LEMMA ToolStepWrites ==
  ASSUME ToolStep
  PROVE  /\ log' = log \/ \E c \in Calls : \E e \in Appends(c) : log' = Append(log, e)
         /\ UNCHANGED <<faulted, crashes>>
<1>1. CASE \E c \in Calls : CallWrites(c)
  BY <1>1 DEF CallWrites
<1>2. CASE \E c \in Calls : CallerAsks(c)
  BY <1>2 DEF CallerAsks, Asks, runtime, budget
<1>3. CASE \E c \in Calls : CallBegins(c) \/ CallFails(c) \/ CallReads(c) \/ CallConfirms(c)
  BY <1>3 DEF CallBegins, CallFails, CallReads, CallConfirms, runtime, budget
<1>4. CASE TurnAborts
  BY <1>4 DEF TurnAborts, runtime, budget
<1> QED  BY <1>1, <1>2, <1>3, <1>4 DEF ToolStep

\* Quiet steps write nothing, do not crash and leave a runtime faulted.
LEMMA QuietWrites ==
  ASSUME Quiet
  PROVE  UNCHANGED <<log, crashes>> /\ (faulted => faulted')
<1>1. CASE DriveBegins \/ DriveDecides \/ MaintenanceEnds \/ DriveConfirms
  BY <1>1 DEF DriveBegins, DriveDecides, DriveFails, DecisionFails, MaintenanceEnds, DriveConfirms, budget
<1>2. CASE DriveLoops \/ TimerFires \/ IdleWaitEnds \/ Dispose
  BY <1>2 DEF DriveLoops, TimerFires, IdleWaitEnds, Dispose, budget
<1>4. CASE MaintenanceRejects \/ RunRejects \/ IdleWaitFails
  BY <1>4 DEF MaintenanceRejects, RunRejects, IdleWaitFails, budget
<1>3. CASE TurnBegins \/ TurnEnds \/ Tick \/ ClockIsSet \/ UNCHANGED vars
  BY <1>3 DEF TurnBegins, TurnEnds, Tick, ClockIsSet, vars, runtime, budget
<1> QED  BY <1>1, <1>2, <1>3, <1>4 DEF Quiet

\* Each occurrence a decision reminds of is one of a due record, and the last
\* before the moment.
LEMMA OccurrencesAreDue ==
  ASSUME TypeOK, Durably(log), NEW o \in Occurrences(Selected)
  PROVE  \E r \in Selected : /\ r \in Active /\ o = <<r.id, Latest(r, now)>>
                             /\ r.id \in Nat /\ r.due \in Int /\ r.every \in Nat
                             /\ Latest(r, now) \in Int
                             /\ r.due <= Latest(r, now) /\ Latest(r, now) <= now
                             /\ r.every # 0 => now < Latest(r, now) + r.every
<1>1. /\ Active \in SUBSET Record /\ Distinct(Active) /\ now \in Nat
  BY ActiveRecords, SoundState
<1>2. PICK r \in Selected : o = <<r.id, Latest(r, now)>>  BY DEF Occurrences
<1>3. r \in Active /\ r \in Record /\ r.due <= now  BY <1>1, SelectedIsDue
<1>4. r.id \in Nat /\ r.due \in Int /\ r.every \in Nat  BY <1>3 DEF Record
<1> QED  BY <1>1, <1>2, <1>3, <1>4, LatestIsLast

\* What a step appends to the log, and what a failure of it does.
LEMMA RemindsOutcome ==
  ASSUME TypeOK, Durably(log), DriveReminds
  PROVE  /\ crashes' = crashes
         /\ \/ log' = log /\ faulted' = faulted
            \/ \E n \in 0..Cardinality(Selected) :
                  Reminds(n) /\ (faulted' \/ (n = Cardinality(Selected) /\ faulted' = faulted))
<1>1. Cardinality(Selected) \in Nat  BY SoundState, DecisionIsEvents
<1>2. /\ Cardinality(Selected) \in 0..Cardinality(Selected)
      /\ \A n \in 0..(Cardinality(Selected) - 1) : n \in 0..Cardinality(Selected)
  BY <1>1
<1> QED  BY <1>2 DEF DriveReminds

\* Reminders are queued for the last occurrences before the moment.
LEMMA DueStep ==
  ASSUME LogInv, Next, Len(log') > Len(log), log'[Len(log) + 1].op = "remind",
         NEW o \in log'[Len(log) + 1].items
  PROVE  \E r \in Active : /\ r.id = o[1] /\ r.due <= o[2] /\ o[2] <= now
                           /\ r.every > 0 => now < o[2] + r.every
<1>1. TypeOK /\ Durably(log) /\ log \in Seq(Event) /\ Len(log) \in Nat
  BY DEF LogInv, TypeOK
<1>2. ~Quiet
  BY <1>1, QuietWrites
<1>3. ~Crash
  <2>1. SUFFICES ASSUME Crash PROVE FALSE  OBVIOUS
  <2>2. durable' \in durable..Len(log) /\ Len(log') = durable'
    BY <1>1, <2>1, CrashCuts DEF Crash
  <2>3. durable \in 0..Len(log)  BY <1>1 DEF TypeOK
  <2> QED  BY <1>1, <2>2, <2>3
<1>4. ~ToolStep
  <2>1. SUFFICES ASSUME ToolStep PROVE FALSE  OBVIOUS
  <2>2. PICK c \in Calls : \E e \in Appends(c) : log' = Append(log, e)
    BY <1>1, <2>1, ToolStepWrites
  <2>3. PICK e \in Appends(c) : log' = Append(log, e)  BY <2>2
  <2>4. e.op # "remind" /\ e \in Event  BY <1>1, CallAppends
  <2>5. log'[Len(log) + 1] = e  BY <1>1, <2>3, <2>4, AppendProperties
  <2> QED  BY <2>4, <2>5
<1>5. DriveReminds
  <2>1. [Next]_vars  OBVIOUS
  <2> QED  BY <1>2, <1>3, <1>4, <2>1, Steps
<1>6. PICK n \in 0..Cardinality(Selected) : Reminds(n)
  BY <1>1, <1>5, RemindsOutcome
<1>7. log' = Written(n)  BY <1>1, <1>6, RemindsWrites
<1>8. Written(n)[Len(log) + 1] = Reminder(Occurrences(Selected))
  BY <1>1, SoundState, WrittenKeeps
<1>9. o \in Occurrences(Selected)  BY <1>7, <1>8 DEF Reminder
<1>10. PICK r \in Selected : /\ r \in Active /\ o = <<r.id, Latest(r, now)>>
                             /\ r.due <= Latest(r, now) /\ Latest(r, now) <= now
                             /\ r.every # 0 => now < Latest(r, now) + r.every
  BY <1>1, <1>9, OccurrencesAreDue
<1>11. o[1] = r.id /\ o[2] = Latest(r, now)  BY <1>10
<1> QED  BY <1>10, <1>11

\* Dispatches remind of nothing.
LEMMA WrittenItems ==
  ASSUME TypeOK, Distinct(Active), NEW j \in 0..Cardinality(Selected),
         NEW i \in 1..(Len(log) + 1 + j), i > Len(log) + 1
  PROVE  Written(j)[i].items = {}
<1> DEFINE n == Cardinality(Selected)
           G == {k \in 0..n : \A m \in 1..(Len(log) + 1 + k) :
                    m > Len(log) + 1 => Written(k)[m].items = {}}
<1>1. /\ n \in Nat /\ Len(log) \in Nat
      /\ \A k \in 1..n : Written(k) = Append(Written(k - 1), Dispatches(Selected)[k])
      /\ \A k \in 0..n : Written(k) \in Seq(Event) /\ Len(Written(k)) = Len(log) + 1 + k
      /\ \A k \in 1..n : Dispatches(Selected)[k] \in Event /\ Dispatches(Selected)[k].items = {}
  <2>1. n \in Nat /\ Len(log) \in Nat  BY DecisionIsEvents DEF TypeOK
  <2>2. ASSUME NEW k \in 1..n
        PROVE  Dispatches(Selected)[k] \in Event /\ Dispatches(Selected)[k].items = {}
    <3>1. /\ Dispatches(Selected) \in Seq(Event) /\ Len(Dispatches(Selected)) = n
          /\ Dispatches(Selected)[k] = Change("dispatch", InOrder(Selected)[k].id, 0, 0, now)
      BY DecisionIsEvents
    <3>2. Dispatches(Selected)[k] \in Event  BY <3>1
    <3> QED  BY <3>1, <3>2 DEF Change
  <2> QED  BY <2>1, <2>2, WrittenAppends
<1> HIDE DEF n
<1>2. 0 \in G  BY <1>1
<1>3. ASSUME NEW k \in 1..n, k - 1 \in G PROVE k \in G
  <2>1. k \in Nat /\ k \in 0..n /\ k - 1 \in 0..n /\ k \in 1..n  BY <1>1
  <2>2. PICK l \in Nat : l = Len(log) + k /\ Len(log) + 1 + (k - 1) = l
                         /\ Len(log) + 1 + k = l + 1
    BY <1>1, <2>1
  <2> DEFINE shorter == Written(k - 1)
             e == Dispatches(Selected)[k]
  <2>3. shorter \in Seq(Event) /\ Len(shorter) = l /\ e \in Event /\ e.items = {}
    BY <1>1, <2>1, <2>2
  <2>4. \A m \in 1..l : m > Len(log) + 1 => shorter[m].items = {}
    BY <1>3, <2>2
  <2>5. Written(k) = Append(shorter, e)  BY <1>1, <2>1
  <2> HIDE DEF shorter, e
  <2>6. /\ \A m \in 1..l : Written(k)[m] = shorter[m]
        /\ Written(k)[l + 1] = e
    BY <2>3, <2>5, AppendProperties
  <2>7. \A m \in 1..(l + 1) : m = l + 1 \/ m \in 1..l  BY <2>2
  <2>8. \A m \in 1..(l + 1) : m > Len(log) + 1 => Written(k)[m].items = {}
    BY <2>3, <2>4, <2>6, <2>7
  <2> QED  BY <2>1, <2>2, <2>8
<1>4. j \in G
  <2>1. j \in 0..n  BY DEF n
  <2> HIDE DEF G
  <2> QED  BY <1>1, <1>2, <1>3, <2>1, UpTo
<1> QED  BY <1>4

\* No occurrence is reminded of twice before the first crash: what was reminded
\* of is behind its record, also for as long as the record is not yet
\* dispatched, and a decision that fails in between is the last.
LEMMA RepeatStep ==
  ASSUME LogInv, Driven, RepeatInv, [Next]_vars
  PROVE  RepeatInv'
<1>1. /\ TypeOK /\ Durably(log) /\ log \in Seq(Event) /\ Len(log) \in Nat /\ crashes \in Nat
      /\ NoRepeats /\ Behind /\ DOMAIN log = 1..Len(log)
  BY DEF LogInv, TypeOK, RepeatInv
<1>2. \A i \in 1..Len(log) : \A o \in log[i].items : o[1] \in Nat /\ o[2] \in Int
  <2>1. ASSUME NEW i \in 1..Len(log), NEW o \in log[i].items PROVE o \in Nat \X Int
    <3>1. log[i] \in Event  BY <1>1
    <3>2. log[i].items \in SUBSET (Nat \X Int)  BY <3>1 DEF Event
    <3> QED  BY <3>2
  <2> QED  BY <2>1
<1>3. /\ Distinct(Active) /\ Active \in SUBSET Record /\ now \in Nat
      /\ \A r \in Active : r.id \in Folded.seen
  BY <1>1, SoundState, ActiveRecords
<1>4. ASSUME UNCHANGED <<log, crashes>>, faulted => faulted'
      PROVE  RepeatInv'
  <2>1. Folded' = Folded /\ Active' = Active  BY <1>4, SameLog
  <2> QED  BY <1>1, <1>4, <2>1 DEF RepeatInv, NoRepeats, Behind
<1>5. CASE Quiet  BY <1>4, <1>5, QuietWrites
<1>6. CASE Crash
  <2>1. crashes' > 0  BY <1>1, <1>6 DEF Crash
  <2> QED  BY <2>1 DEF RepeatInv, NoRepeats, Behind
<1>7. CASE ToolStep
  <2>1. CASE log' = log  BY <1>4, <1>7, <2>1, ToolStepWrites
  <2>2. ASSUME NEW c \in Calls, NEW e \in Appends(c), log' = Append(log, e)
        PROVE  RepeatInv'
    <3>1. /\ e \in Event /\ e.items = {}
          /\ \/ /\ e.op = "create" /\ e.id \notin Folded.seen
                /\ Folds(Folded, e).seen = Folded.seen \cup {e.id}
                /\ Folds(Folded, e).active
                     = Active \cup {[id |-> e.id, due |-> e.due, every |-> e.every]}
             \/ /\ e.op = "delete" /\ Folds(Folded, e).seen = Folded.seen
                /\ Folds(Folded, e).active \subseteq Active
      BY <1>1, CallAppends
    <3>2. Folded' = Folds(Folded, e) /\ Active' = Folds(Folded, e).active
      <4>1. Fold(Append(log, e)) = Folds(Fold(log), e)  BY <1>1, <3>1, FoldAppend
      <4>2. Folded' = Fold(log')  BY DEF Folded
      <4>3. Folded' = Folds(Folded, e)  BY <2>2, <4>1, <4>2 DEF Folded
      <4> QED  BY <4>3 DEF Active
    <3>3. /\ DOMAIN log' = 1..(Len(log) + 1) /\ log'[Len(log) + 1] = e
          /\ \A i \in 1..Len(log) : log'[i] = log[i]
      BY <1>1, <2>2, <3>1, AppendProperties
    <3>4. ASSUME NEW i \in DOMAIN log', log'[i].items # {}
          PROVE  i \in 1..Len(log) /\ log'[i] = log[i]
      <4>1. i # Len(log) + 1  BY <3>1, <3>3, <3>4
      <4> QED  BY <1>1, <3>3, <4>1
    <3>5. faulted' = faulted /\ crashes' = crashes  BY <1>7, ToolStepWrites
    <3>6. NoRepeats'
      <4> SUFFICES ASSUME NEW i \in DOMAIN log', NEW j \in DOMAIN log', i < j,
                          log'[i].items \cap log'[j].items # {}
                   PROVE  crashes' > 0
        BY DEF NoRepeats
      <4>1. log'[i].items # {} /\ log'[j].items # {}  OBVIOUS
      <4> QED  BY <1>1, <3>4, <3>5, <4>1 DEF NoRepeats
    <3>7. Behind'
      <4> SUFFICES ASSUME crashes' = 0, ~faulted', NEW i \in DOMAIN log', NEW o \in log'[i].items
                   PROVE  /\ o[1] \in Folded'.seen
                          /\ \A r \in Active' : r.id = o[1] => o[2] < r.due
        BY DEF Behind
      <4>1. i \in 1..Len(log) /\ o \in log[i].items  BY <3>4
      <4>2. o[1] \in Folded.seen /\ \A r \in Active : r.id = o[1] => o[2] < r.due
        BY <1>1, <3>5, <4>1 DEF Behind
      <4> QED  BY <3>1, <3>2, <4>2
    <3> QED  BY <3>6, <3>7 DEF RepeatInv
  <2> QED  BY <1>7, <2>1, <2>2, ToolStepWrites
<1>8. CASE DriveReminds
  <2>1. CASE log' = log /\ faulted' = faulted
    BY <1>1, <1>4, <1>8, <2>1, RemindsOutcome
  <2>2. ASSUME NEW n \in 0..Cardinality(Selected), Reminds(n),
               faulted' \/ (n = Cardinality(Selected) /\ faulted' = faulted)
        PROVE  RepeatInv'
    <3>1. crashes' = crashes /\ ~faulted
      <4>1. drive = "preflight"  BY <1>8 DEF DriveReminds
      <4> QED  BY <1>1, <1>8, <4>1, RemindsOutcome DEF Driven
    <3>2. n \in Nat /\ Cardinality(Selected) \in Nat  BY <1>1, <1>3, DecisionIsEvents
    <3>3. /\ log' = Written(n) /\ log' \in Seq(Event) /\ Len(log') = Len(log) + 1 + n
      BY <1>1, <2>2, RemindsWrites
    <3>4. /\ DOMAIN log' = 1..(Len(log) + 1 + n)
          /\ \A i \in 1..Len(log) : log'[i] = log[i]
          /\ log'[Len(log) + 1].items = Occurrences(Selected)
          /\ \A i \in 1..(Len(log) + 1 + n) : i > Len(log) + 1 => log'[i].items = {}
      <4>1. DOMAIN log' = 1..(Len(log) + 1 + n)  BY <3>3
      <4>2. /\ \A i \in 1..Len(log) : Written(n)[i] = log[i]
            /\ Written(n)[Len(log) + 1] = Reminder(Occurrences(Selected))
        BY <1>1, <1>3, WrittenKeeps, Zenon
      <4>3. \A i \in 1..(Len(log) + 1 + n) : i > Len(log) + 1 => Written(n)[i].items = {}
        BY <1>1, <1>3, WrittenItems, Zenon
      <4>4. Reminder(Occurrences(Selected)).items = Occurrences(Selected)  BY DEF Reminder
      <4>5. log' = Written(n)  BY <3>3
      <4> QED  BY <4>1, <4>2, <4>3, <4>4, <4>5
    <3>5. ASSUME NEW i \in DOMAIN log', log'[i].items # {}
          PROVE  (i \in 1..Len(log) /\ log'[i] = log[i]) \/ i = Len(log) + 1
      BY <1>1, <3>2, <3>4, <3>5
    <3>6. ASSUME crashes = 0, NEW i \in 1..Len(log), NEW o \in log[i].items
          PROVE  /\ o[1] \in Folded.seen
                 /\ \A r \in Active : r.id = o[1] => o[2] < r.due
      BY <1>1, <3>1, <3>6 DEF Behind
    <3>7. NoRepeats'
      <4> SUFFICES ASSUME NEW i \in DOMAIN log', NEW j \in DOMAIN log', i < j, crashes = 0,
                          NEW o \in log'[i].items, o \in log'[j].items
                   PROVE  FALSE
        BY <1>1, <3>1 DEF NoRepeats
      <4>1. CASE j \in 1..Len(log) /\ log'[j] = log[j]
        <5>1. i \in 1..Len(log) /\ log'[i] = log[i]  BY <1>1, <3>4, <4>1
        <5> QED  BY <1>1, <4>1, <5>1 DEF NoRepeats
      <4>2. CASE j = Len(log) + 1
        <5>1. i \in 1..Len(log) /\ o \in log[i].items  BY <1>1, <3>4, <4>2
        <5>2. PICK r \in Selected : /\ r \in Active /\ o = <<r.id, Latest(r, now)>>
                                    /\ r.due <= Latest(r, now)
                                    /\ r.due \in Int /\ Latest(r, now) \in Int
          BY <1>1, <3>4, <4>2, OccurrencesAreDue
        <5>3. r.id = o[1] /\ o[2] = Latest(r, now)  BY <5>2
        <5>4. o[2] < r.due  BY <3>6, <5>1, <5>2, <5>3
        <5> QED  BY <5>2, <5>3, <5>4
      <4> QED  BY <3>5, <4>1, <4>2
    <3>8. Behind'
      <4> SUFFICES ASSUME crashes' = 0, ~faulted', NEW i \in DOMAIN log', NEW o \in log'[i].items
                   PROVE  /\ o[1] \in Folded'.seen
                          /\ \A r \in Active' : r.id = o[1] => o[2] < r.due
        BY DEF Behind
      <4>1. n = Cardinality(Selected) /\ crashes = 0  BY <2>2, <3>1
      <4>2. /\ Folded'.seen = Folded.seen
            /\ \A s \in Active' :
                 \/ s \in Active /\ \A k \in 1..n : s # InOrder(Selected)[k]
                 \/ \E k \in 1..n : s \in Dispatched(InOrder(Selected)[k], now)
        <5>1. Folded' = Fold(Written(n))  BY <3>3 DEF Folded
        <5>2. Active' = Fold(Written(n)).active  BY <5>1 DEF Active
        <5> QED  BY <1>1, <5>1, <5>2, DecisionKeeps
      <4>3. /\ \A k \in 1..n : InOrder(Selected)[k] \in Selected
            /\ \A r \in Selected : \E k \in 1..n : InOrder(Selected)[k] = r
            /\ \A r \in Selected : r \in Active /\ r \in Record /\ r.due <= now
        <5>1. Selected \in SUBSET Record /\ Distinct(Selected) /\ IsFiniteSet(Selected)
              /\ Selected \subseteq Active /\ \A r \in Selected : r.due <= now
          BY <1>1, <1>3, SelectedIsDue
        <5> QED  BY <4>1, <5>1, InOrderEnumerates
      <4>4. ASSUME NEW s \in Active', \E k \in 1..n : s \in Dispatched(InOrder(Selected)[k], now)
            PROVE  \E r \in Selected : /\ s.id = r.id /\ Latest(r, now) \in Int
                                       /\ Latest(r, now) < s.due /\ r.due <= Latest(r, now)
                                       /\ r.due \in Int /\ s.due \in Int
        <5>1. PICK k \in 1..n : s \in Dispatched(InOrder(Selected)[k], now)  BY <4>4
        <5>2. PICK r \in Selected : r = InOrder(Selected)[k]  BY <4>3
        <5>3. r \in Record /\ r.due <= now  BY <4>3
        <5>4. s.id = r.id /\ s.due = Latest(r, now) + r.every /\ r.every # 0
          BY <1>3, <5>1, <5>2, <5>3, DispatchedIsRecord
        <5>5. Latest(r, now) \in Int /\ r.due <= Latest(r, now)
          BY <1>3, <5>3, LatestIsLast
        <5>6. r.due \in Int /\ r.every \in Nat  BY <5>3 DEF Record
        <5> QED  BY <5>4, <5>5, <5>6
      <4>5. CASE i \in 1..Len(log) /\ log'[i] = log[i]
        <5>1. /\ o[1] \in Folded.seen /\ o[2] \in Int
              /\ \A r \in Active : r.id = o[1] => o[2] < r.due
          BY <1>2, <3>6, <4>1, <4>5
        <5>2. ASSUME NEW s \in Active', s.id = o[1] PROVE o[2] < s.due
          <6>1. CASE s \in Active  BY <5>1, <5>2, <6>1
          <6>2. CASE \E k \in 1..n : s \in Dispatched(InOrder(Selected)[k], now)
            <7>1. PICK r \in Selected : /\ s.id = r.id /\ Latest(r, now) \in Int
                                        /\ Latest(r, now) < s.due /\ r.due <= Latest(r, now)
                                        /\ r.due \in Int /\ s.due \in Int
              BY <4>4, <6>2
            <7>2. o[2] < r.due  BY <4>3, <5>1, <5>2, <7>1
            <7> QED  BY <5>1, <7>1, <7>2
          <6> QED  BY <4>2, <6>1, <6>2
        <5> QED  BY <4>2, <5>1, <5>2
      <4>6. CASE i = Len(log) + 1
        <5>1. PICK r \in Selected : r \in Active /\ o = <<r.id, Latest(r, now)>>
          BY <1>1, <3>4, <4>6, OccurrencesAreDue
        <5>2. o[1] = r.id /\ o[2] = Latest(r, now)  BY <5>1
        <5>3. o[1] \in Folded'.seen  BY <1>3, <4>2, <5>1, <5>2
        <5>4. ASSUME NEW s \in Active', s.id = o[1] PROVE o[2] < s.due
          <6>1. CASE s \in Active /\ \A k \in 1..n : s # InOrder(Selected)[k]
            <7>1. s = r  BY <1>3, <5>1, <5>2, <5>4, <6>1 DEF Distinct
            <7> QED  BY <4>3, <6>1, <7>1
          <6>2. CASE \E k \in 1..n : s \in Dispatched(InOrder(Selected)[k], now)
            <7>1. PICK t \in Selected : s.id = t.id /\ Latest(t, now) < s.due
              BY <4>4, <6>2
            <7>2. t = r  BY <1>3, <4>3, <5>1, <5>2, <5>4, <7>1 DEF Distinct
            <7> QED  BY <5>2, <7>1, <7>2
          <6> QED  BY <4>2, <6>1, <6>2
        <5> QED  BY <5>3, <5>4
      <4> QED  BY <3>5, <4>5, <4>6
    <3> QED  BY <3>7, <3>8 DEF RepeatInv
  <2> QED  BY <1>1, <1>8, <2>1, <2>2, RemindsOutcome
<1> QED  BY <1>5, <1>6, <1>7, <1>8, Steps

-----------------------------------------------------------------------------
(* Theorems.                                                               *)

\* Every variable keeps its type, and no step reaches a log that the strict
\* fold refuses or that a crash would cut into one.
THEOREM TypesHold == Spec => []TypeOK
<1>1. Init => LogInv /\ AnswersAreDurable  BY InitKeeps
<1>2. LogInv /\ AnswersAreDurable /\ [Next]_vars => LogInv' /\ AnswersAreDurable'
  BY LogStep
<1>3. LogInv => TypeOK  BY DEF LogInv
<1> QED  BY <1>1, <1>2, <1>3, PTL DEF Spec

\* Whatever a tool has answered is on disk, so that no crash takes it back:
\* the second barrier, the first for answers that only read, and the queue that
\* keeps everybody else from the log in between.
THEOREM AnswersStayDurable == Spec => []AnswersAreDurable
<1>1. Init => LogInv /\ AnswersAreDurable  BY InitKeeps
<1>2. LogInv /\ AnswersAreDurable /\ [Next]_vars => LogInv' /\ AnswersAreDurable'
  BY LogStep
<1> QED  BY <1>1, <1>2, PTL DEF Spec

\* A runtime at rest has what wakes it for its records, in time unless the
\* clock was set; and one that is disposed of or has faulted has no timer.
THEOREM WakesStayArmed == Spec => []WakeIsArmed
<1>1. Init => LogInv /\ AnswersAreDurable  BY InitKeeps
<1>2. Init => WakeInv  BY InitWakes
<1>3. LogInv /\ AnswersAreDurable /\ [Next]_vars => LogInv' /\ AnswersAreDurable'
  BY LogStep
<1>4. LogInv /\ WakeInv /\ [Next]_vars => WakeInv'
  BY WakeStep
<1>5. LogInv /\ WakeInv => WakeIsArmed
  BY DEF LogInv, WakeInv, Driven, Wakes, Woken, WakeIsArmed, AtRest
<1> QED  BY <1>1, <1>2, <1>3, <1>4, <1>5, PTL DEF Spec

\* A reminder is of occurrences that are due when it is queued, the last ones
\* of their rules.
THEOREM RemindersStayDue == Spec => RemindersAreDue
<1>1. Init => LogInv /\ AnswersAreDurable  BY InitKeeps
<1>2. LogInv /\ AnswersAreDurable /\ [Next]_vars => LogInv' /\ AnswersAreDurable'
  BY LogStep
<1>3. LogInv /\ [Next]_vars =>
        [Len(log') > Len(log) /\ log'[Len(log) + 1].op = "remind" =>
           \A o \in log'[Len(log) + 1].items : \E r \in Active :
              /\ r.id = o[1] /\ r.due <= o[2] /\ o[2] <= now
              /\ r.every > 0 => now < o[2] + r.every]_vars
  BY DueStep
<1> QED  BY <1>1, <1>2, <1>3, PTL DEF Spec, RemindersAreDue

\* No reminder is lost, doubled or made up: the log is one the strict fold
\* accepts, every dispatch comes after the reminder of its occurrence in every
\* prefix that a crash may leave, and nothing is reminded of twice without a
\* crash.
THEOREM RemindersStayExact == Spec => []RemindersAreExact
<1>1. Init => LogInv /\ AnswersAreDurable  BY InitKeeps
<1>2. Init => WakeInv  BY InitWakes
<1>3. Init => RepeatInv
  <2>1. DOMAIN <<>> = {}  OBVIOUS
  <2> QED  BY <2>1 DEF Init, RepeatInv, NoRepeats, Behind
<1>4. LogInv /\ AnswersAreDurable /\ [Next]_vars => LogInv' /\ AnswersAreDurable'
  BY LogStep
<1>5. LogInv /\ WakeInv /\ [Next]_vars => WakeInv'
  BY WakeStep
<1>6. LogInv /\ WakeInv /\ RepeatInv /\ [Next]_vars => RepeatInv'
  BY RepeatStep DEF WakeInv
<1>7. LogInv /\ RepeatInv => RemindersAreExact
  <2> SUFFICES ASSUME LogInv, RepeatInv PROVE RemindersAreExact  OBVIOUS
  <2>1. TypeOK /\ Durably(log)  BY DEF LogInv
  <2>2. LogIsStrict  BY <2>1, SoundState DEF Sound, LogIsStrict
  <2>3. RemindersComeFirst  BY <2>1 DEF Durably, ComesFirst, RemindersComeFirst
  <2> QED  BY <2>2, <2>3 DEF RepeatInv, RemindersAreExact
<1> QED  BY <1>1, <1>2, <1>3, <1>4, <1>5, <1>6, <1>7, PTL DEF Spec
=============================================================================
