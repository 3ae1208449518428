---------------------------- MODULE BudgetProofs ----------------------------
(* The budget verdict of check.py and its audit, for any log of seller calls,  *)
(* any groups and limits and any time: first what the sweep over the sorted    *)
(* points and the windows compute, then that the calls in flight are the ones  *)
(* the log shows, and from both that the verdict is true.                      *)
EXTENDS BudgetEvidence, NumberTheorems, SequenceTheorems

-----------------------------------------------------------------------------
(* The sweep of max_overlap and time_above                                     *)

PointSet == [time : Nat, delta : {1, -1}, of : Nat]
Spans(S, M) == [S -> (0 .. M) \X (0 .. M)]

(* The sorted points are in a line.                                            *)
LEMMA PointOrder ==
  /\ \A p, q \in PointSet : NotAfter(p, q) \/ NotAfter(q, p)
  /\ \A p, q, r \in PointSet : NotAfter(p, q) /\ NotAfter(q, r) => NotAfter(p, r)
  /\ \A p, q \in PointSet : NotAfter(p, q) /\ NotAfter(q, p) => p = q
  <1>1. \A p \in PointSet : /\ p = [time |-> p.time, delta |-> p.delta, of |-> p.of]
                            /\ p.time \in Int /\ p.delta \in Int /\ p.of \in Int
    BY DEF PointSet
  <1>2. \A p, q \in PointSet : NotAfter(p, q) \/ NotAfter(q, p)
    BY <1>1 DEF NotAfter
  <1>3. \A p, q, r \in PointSet : NotAfter(p, q) /\ NotAfter(q, r) => NotAfter(p, r)
    BY <1>1 DEF NotAfter
  <1>4. \A p, q \in PointSet : NotAfter(p, q) /\ NotAfter(q, p) => p.time = q.time /\ p.delta = q.delta /\ p.of = q.of
    BY <1>1 DEF NotAfter
  <1>5. \A p, q \in PointSet : NotAfter(p, q) /\ NotAfter(q, p) => p = q
    BY <1>1, <1>4
  <1> QED BY <1>2, <1>3, <1>5

LEMMA PointsOf ==
  ASSUME NEW M \in Nat, NEW S \in SUBSET Nat, IsFiniteSet(S), NEW I \in Spans(S, M)
  PROVE /\ DOMAIN I = S
        /\ \A k \in S : /\ I[k][1] \in 0 .. M /\ I[k][2] \in 0 .. M
                        /\ StartPoint(I, k) \in Points(I) /\ EndPoint(I, k) \in Points(I)
        /\ Points(I) \subseteq PointSet /\ IsFiniteSet(Points(I))
        /\ \A p \in Points(I) : p.time \in 0 .. M
        /\ \A p \in Points(I) : Current(I, p) \in Int
  <1>1. DOMAIN I = S
    BY DEF Spans
  <1>2. \A k \in S : I[k][1] \in 0 .. M /\ I[k][2] \in 0 .. M
    BY DEF Spans
  <1>3. \A k \in S : StartPoint(I, k) \in Points(I) /\ EndPoint(I, k) \in Points(I)
    BY <1>1 DEF Points
  <1>4. \A k \in S : /\ StartPoint(I, k) \in PointSet /\ StartPoint(I, k).time \in 0 .. M
                     /\ EndPoint(I, k) \in PointSet /\ EndPoint(I, k).time \in 0 .. M
    BY <1>2 DEF StartPoint, EndPoint, PointSet
  <1>5. \A p \in Points(I) : p \in PointSet /\ p.time \in 0 .. M
    BY <1>1, <1>4 DEF Points
  <1>6. IsFiniteSet(Points(I))
    <2> DEFINE f == [k \in S |-> StartPoint(I, k)]
               h == [k \in S |-> EndPoint(I, k)]
    <2>1. f = [k \in S |-> f[k]] /\ h = [k \in S |-> h[k]]
      OBVIOUS
    <2>2. Points(I) = {f[k] : k \in S} \cup {h[k] : k \in S}
      BY <1>1 DEF Points
    <2> HIDE DEF f, h
    <2>3. IsFiniteSet({f[k] : k \in S}) /\ IsFiniteSet({h[k] : k \in S})
      BY <2>1, FiniteValues
    <2> QED BY <2>2, <2>3, FS_Union
  <1>7. ASSUME NEW p \in Points(I) PROVE Current(I, p) \in Int
    <2> DEFINE B == {k \in S : NotAfter(StartPoint(I, k), p)}
               E == {k \in S : NotAfter(EndPoint(I, k), p)}
    <2>1. B \in SUBSET S /\ E \in SUBSET S
      OBVIOUS
    <2>2. Current(I, p) = Cardinality(B) - Cardinality(E)
      BY <1>1 DEF Current
    <2> HIDE DEF B, E
    <2>3. Cardinality(B) \in Nat /\ Cardinality(E) \in Nat
      BY <2>1, FS_Subset, FS_CardinalityType
    <2> QED BY <2>2, <2>3
  <1> QED BY <1>1, <1>2, <1>3, <1>5, <1>6, <1>7

(* Some of the points have a first and a last one among them.                  *)
LEMMA FirstAndLast ==
  ASSUME NEW M \in Nat, NEW S \in SUBSET Nat, IsFiniteSet(S), NEW I \in Spans(S, M),
         NEW Q \in SUBSET Points(I), Q # {}
  PROVE /\ \E p \in Q : \A r \in Q : NotAfter(r, p)
        /\ \E p \in Q : \A r \in Q : NotAfter(p, r)
  <1> DEFINE Before(p) == {r \in Q : NotAfter(r, p)}
             rank == [p \in Q |-> Cardinality(Before(p))]
             R == {rank[p] : p \in Q}
  <1>1. Q \subseteq PointSet /\ IsFiniteSet(Q)
    BY PointsOf, FS_Subset
  <1>2. \A p \in Q : Before(p) \in SUBSET Q /\ IsFiniteSet(Before(p)) /\ rank[p] \in Nat
    BY <1>1, FS_Subset, FS_CardinalityType
  <1>3. ASSUME NEW p \in Q, NEW r \in Q, ~NotAfter(r, p) PROVE rank[p] < rank[r]
    <2>1. NotAfter(p, r) /\ NotAfter(r, r)
      BY <1>1, <1>3, PointOrder
    <2>2. \A q \in Q : NotAfter(q, p) => NotAfter(q, r)
      BY <1>1, <2>1, PointOrder
    <2>3. Before(p) \in SUBSET Before(r) /\ r \in Before(r) /\ r \notin Before(p)
      BY <1>3, <2>1, <2>2
    <2>4. Cardinality(Before(p)) <= Cardinality(Before(r)) /\ Cardinality(Before(p)) # Cardinality(Before(r))
      BY <1>2, <2>3, FS_Subset
    <2>5. rank[p] = Cardinality(Before(p)) /\ rank[r] = Cardinality(Before(r))
      OBVIOUS
    <2>6. rank[p] <= rank[r] /\ rank[p] # rank[r]
      BY <2>4, <2>5
    <2>7. rank[p] \in Nat /\ rank[r] \in Nat
      BY <1>2
    <2> HIDE DEF rank
    <2> QED BY <2>6, <2>7
  <1>4. R \in SUBSET Nat /\ R \in SUBSET Int /\ R # {}
    <2>1. \A p \in Q : rank[p] \in Nat
      BY <1>2
    <2> HIDE DEF rank
    <2> QED BY <2>1
  <1>5. IsFiniteSet(R)
    <2>1. rank = [p \in Q |-> rank[p]]
      OBVIOUS
    <2> HIDE DEF rank
    <2> QED BY <1>1, <2>1, FiniteValues
  <1> HIDE DEF rank
  <1>6. PICK last \in Q : \A r \in Q : rank[last] >= rank[r]
    <2>1. Max(R) \in R /\ \A y \in R : Max(R) >= y
      BY <1>4, <1>5, LargestNumber
    <2> QED BY <2>1
  <1>7. PICK first \in Q : \A r \in Q : rank[first] <= rank[r]
    <2>1. \E x \in R : \A y \in R : x <= y
      BY <1>4, LeastNumber
    <2> QED BY <2>1
  <1>8. \A r \in Q : rank[r] \in Nat
    BY <1>2
  <1>9. \A r \in Q : NotAfter(r, last)
    BY <1>3, <1>6, <1>8
  <1>10. \A r \in Q : NotAfter(first, r)
    BY <1>3, <1>7, <1>8
  <1> QED BY <1>9, <1>10

(* The intervals that hold the millisecond t.                                  *)
Open(I, t) == {k \in DOMAIN I : I[k][1] <= t /\ t < I[k][2]}

(* The peak is the largest value of "current", or 0.                           *)
LEMMA PeakIsLargest ==
  ASSUME NEW M \in Nat, NEW S \in SUBSET Nat, IsFiniteSet(S), NEW I \in Spans(S, M)
  PROVE /\ max_overlap(I) \in Nat
        /\ \A p \in Points(I) : Current(I, p) <= max_overlap(I)
        /\ max_overlap(I) = 0 \/ \E p \in Points(I) : max_overlap(I) = Current(I, p)
  <1> DEFINE P == Points(I)
             f == [p \in P |-> Current(I, p)]
             V == {f[p] : p \in P}
             W == {0} \cup V
  <1>1. IsFiniteSet(P) /\ \A p \in P : f[p] \in Int
    BY PointsOf
  <1>2. f = [p \in P |-> f[p]] /\ \A p \in P : f[p] = Current(I, p)
    OBVIOUS
  <1>3. max_overlap(I) = Max(W)
    BY DEF max_overlap
  <1> HIDE DEF P, f
  <1>4. IsFiniteSet(V)
    BY <1>1, <1>2, FiniteValues
  <1>5. W \in SUBSET Int /\ 0 \in W /\ W # {}
    BY <1>1
  <1>6. IsFiniteSet(W)
    BY <1>4, FS_Union, FS_Singleton
  <1> HIDE DEF W
  <1>7. Max(W) \in W /\ \A y \in W : Max(W) >= y
    BY <1>5, <1>6, LargestNumber
  <1>8. Max(W) \in Int /\ Max(W) >= 0
    BY <1>5, <1>7
  <1>9. \A p \in P : f[p] \in W
    BY DEF W
  <1>10. \A p \in P : f[p] <= Max(W)
    BY <1>1, <1>7, <1>8, <1>9
  <1>11. Max(W) = 0 \/ \E p \in P : Max(W) = f[p]
    BY <1>7 DEF W
  <1>12. Max(W) \in Nat
    BY <1>8
  <1> QED BY <1>2, <1>3, <1>10, <1>11, <1>12 DEF P

(* It is no larger than what is open when some interval begins.                *)
LEMMA PeakAtMost ==
  ASSUME NEW M \in Nat, NEW S \in SUBSET Nat, IsFiniteSet(S), NEW I \in Spans(S, M),
         NEW n \in Nat, \A k \in S : Cardinality(Open(I, I[k][1])) <= n
  PROVE max_overlap(I) <= n
  <1> SUFFICES ASSUME NEW p \in Points(I) PROVE Current(I, p) <= n
    BY PeakIsLargest
  <1> DEFINE B == {k \in S : NotAfter(StartPoint(I, k), p)}
             E == {k \in S : NotAfter(EndPoint(I, k), p)}
  <1>1. DOMAIN I = S /\ \A k \in S : I[k][1] \in 0 .. M /\ I[k][2] \in 0 .. M
    BY PointsOf
  <1>2. Current(I, p) = Cardinality(B) - Cardinality(E)
    BY <1>1 DEF Current
  <1>3. IsFiniteSet(B) /\ IsFiniteSet(E) /\ Cardinality(B) \in Nat /\ Cardinality(E) \in Nat
    BY FS_Subset, FS_CardinalityType
  <1>4. CASE B = {}
    <2>1. Cardinality(B) = 0
      BY <1>4, FS_EmptySet
    <2> HIDE DEF B, E
    <2> QED BY <1>2, <1>3, <2>1
  <1>5. CASE B # {}
    <2>1. PICK z \in B : \A k \in B : I[k][1] <= I[z][1]
      <3> DEFINE f == [k \in B |-> I[k][1]]
                 T == {f[k] : k \in B}
      <3>0. \A k \in B : k \in S
        OBVIOUS
      <3> HIDE DEF B
      <3>1. f = [k \in B |-> f[k]] /\ \A k \in B : f[k] = I[k][1] /\ f[k] \in Int
        <4>1. \A k \in B : I[k][1] \in 0 .. M
          BY <1>1, <3>0, Zenon
        <4>2. \A x \in 0 .. M : x \in Int
          OBVIOUS
        <4>3. \A k \in B : I[k][1] \in Int
          BY <4>1, <4>2, Zenon
        <4> QED BY <4>3
      <3> HIDE DEF f
      <3>2. IsFiniteSet(T) /\ T \in SUBSET Int /\ T # {}
        BY <1>3, <1>5, <3>1, FiniteValues
      <3>3. Max(T) \in T /\ \A y \in T : Max(T) >= y
        BY <3>2, LargestNumber
      <3>4. PICK z \in B : Max(T) = f[z]
        BY <3>3
      <3>5. \A k \in B : f[z] >= f[k]
        BY <3>3, <3>4
      <3> QED BY <3>1, <3>5
    <2> DEFINE t == I[z][1]
               X == {k \in S : I[k][1] <= t}
               Y == {k \in S : I[k][2] <= t}
    <2>2. B \in SUBSET X /\ z \in S
      BY <2>1
    <2>3. Y \in SUBSET E
      <3> SUFFICES ASSUME NEW k \in Y PROVE NotAfter(EndPoint(I, k), p)
        OBVIOUS
      <3>1. NotAfter(EndPoint(I, k), StartPoint(I, z))
        BY <1>1, <2>2 DEF NotAfter, EndPoint, StartPoint
      <3>2. NotAfter(StartPoint(I, z), p)
        BY <2>1
      <3>3. EndPoint(I, k) \in PointSet /\ StartPoint(I, z) \in PointSet /\ p \in PointSet
        BY <2>2, PointsOf
      <3> QED BY <3>1, <3>2, <3>3, PointOrder
    <2>4. X \in SUBSET S /\ Y \in SUBSET S
      OBVIOUS
    <2>5. X \ Y = Open(I, t)
      <3>1. \A k \in S : t < I[k][2] <=> ~(I[k][2] <= t)
        BY <1>1, <2>2
      <3> HIDE DEF t
      <3> QED BY <1>1, <3>1 DEF Open
    <2>6. Cardinality(Open(I, t)) <= n
      BY <2>2
    <2> HIDE DEF B, E, X, Y, t
    <2>7. /\ IsFiniteSet(X) /\ IsFiniteSet(Y) /\ IsFiniteSet(X \ Y)
          /\ Cardinality(X) \in Nat /\ Cardinality(Y) \in Nat /\ Cardinality(X \ Y) \in Nat
      BY <2>4, FS_Subset, FS_CardinalityType
    <2>8. Cardinality(B) <= Cardinality(X) /\ Cardinality(Y) <= Cardinality(E)
      BY <1>3, <2>2, <2>3, <2>7, FS_Subset
    <2>9. Cardinality(X) - Cardinality(Y) <= Cardinality(X \ Y)
      BY <2>7, DifferenceAtLeast
    <2>10. Cardinality(X \ Y) <= n
      BY <2>5, <2>6
    <2> QED BY <1>2, <1>3, <2>7, <2>8, <2>9, <2>10
  <1> QED BY <1>4, <1>5

(* A millisecond held by some intervals, none of which ended before it began:  *)
(* the sweep counts them all at the last point up to there.                    *)
LEMMA CountedAt ==
  ASSUME NEW M \in Nat, NEW S \in SUBSET Nat, IsFiniteSet(S), NEW I \in Spans(S, M),
         NEW t \in Nat, Open(I, t) # {}, \A k \in S : I[k][2] <= t => I[k][1] <= t
  PROVE \E p \in Points(I) : /\ p.time <= t /\ Current(I, p) = Cardinality(Open(I, t))
                             /\ \A r \in Points(I) : NotAfter(r, p) \/ t < r.time
  <1> DEFINE Q == {r \in Points(I) : r.time <= t}
             X == {k \in S : I[k][1] <= t}
             Y == {k \in S : I[k][2] <= t}
  <1>1. DOMAIN I = S /\ \A k \in S : I[k][1] \in 0 .. M /\ I[k][2] \in 0 .. M
    BY PointsOf
  <1>2. Points(I) \subseteq PointSet
    BY PointsOf
  <1>3. PICK z \in S : I[z][1] <= t
    BY <1>1 DEF Open
  <1>4. StartPoint(I, z) \in Q
    BY <1>3, PointsOf DEF StartPoint
  <1>5. PICK p \in Q : \A r \in Q : NotAfter(r, p)
    BY <1>4, FirstAndLast
  <1>6. \A r \in Points(I) : r.time \in Nat
    BY <1>2 DEF PointSet
  <1>7. \A r \in Points(I) : NotAfter(r, p) \/ t < r.time
    BY <1>5, <1>6
  <1>8. \A r \in Points(I) : NotAfter(r, p) => r.time <= t
    BY <1>5, <1>6 DEF NotAfter
  <1>9. {k \in S : NotAfter(StartPoint(I, k), p)} = X
    <2>1. \A k \in S : StartPoint(I, k) \in Points(I) /\ StartPoint(I, k).time = I[k][1]
      BY PointsOf DEF StartPoint
    <2>2. \A k \in S : NotAfter(StartPoint(I, k), p) <=> I[k][1] <= t
      BY <1>1, <1>7, <1>8, <2>1
    <2> QED BY <2>2
  <1>10. {k \in S : NotAfter(EndPoint(I, k), p)} = Y
    <2>1. \A k \in S : EndPoint(I, k) \in Points(I) /\ EndPoint(I, k).time = I[k][2]
      BY PointsOf DEF EndPoint
    <2>2. \A k \in S : NotAfter(EndPoint(I, k), p) <=> I[k][2] <= t
      BY <1>1, <1>7, <1>8, <2>1
    <2> QED BY <2>2
  <1>11. Current(I, p) = Cardinality(X) - Cardinality(Y)
    BY <1>1, <1>9, <1>10 DEF Current
  <1>12. Y \in SUBSET X /\ X \ Y = Open(I, t) /\ X \in SUBSET S
    <2>1. \A k \in S : t < I[k][2] <=> ~(I[k][2] <= t)
      BY <1>1
    <2>2. X \ Y = Open(I, t)
      BY <1>1, <2>1 DEF Open
    <2> QED BY <2>2
  <1>13. Cardinality(X) - Cardinality(Y) = Cardinality(X \ Y)
    BY <1>12, FS_Subset, DifferenceAtLeast
  <1> QED BY <1>5, <1>7, <1>11, <1>12, <1>13

(* Every millisecond with too many intervals is in time_above.                 *)
LEMMA TimeAboveAtLeast ==
  ASSUME NEW M \in Nat, NEW S \in SUBSET Nat, IsFiniteSet(S), NEW I \in Spans(S, M),
         NEW limit \in Nat, NEW T \in SUBSET Nat,
         \A t \in T : Cardinality(Open(I, t)) > limit /\ \A k \in S : I[k][2] <= t => I[k][1] <= t
  PROVE Cardinality(T) <= time_above(I, limit)
  <1> DEFINE P == Points(I)
             N == {x \in P \X P : /\ NotAfter(x[1], x[2]) /\ x[1] # x[2]
                                  /\ \A r \in P : NotAfter(r, x[1]) \/ NotAfter(x[2], r)}
             L == {y \in N : Current(I, y[1]) > limit}
             U == UNION {x[1].time .. x[2].time - 1 : x \in L}
  <1>1. time_above(I, limit) = Cardinality(U)
    BY DEF time_above
  <1>2. DOMAIN I = S /\ \A k \in S : I[k][1] \in 0 .. M /\ I[k][2] \in 0 .. M
    BY PointsOf
  <1>3. \A p \in P : p.time \in 0 .. M
    BY PointsOf
  <1>4. U \in SUBSET (0 .. M)
    <2>1. \A x \in L : x[1] \in P /\ x[2] \in P
      OBVIOUS
    <2> HIDE DEF L, P
    <2>2. ASSUME NEW x \in L, NEW u \in x[1].time .. x[2].time - 1 PROVE u \in 0 .. M
      BY <1>3, <2>1
    <2> QED BY <2>2
  <1>5. IsFiniteSet(U)
    <2>1. 0 \in Int /\ M \in Int
      OBVIOUS
    <2>2. IsFiniteSet(0 .. M)
      BY <2>1, FS_Interval
    <2> HIDE DEF U
    <2> QED BY <1>4, <2>2, FS_Subset
  <1>6. ASSUME NEW t \in T PROVE t \in U
    <2>1. Open(I, t) # {}
      <3>1. Cardinality(Open(I, t)) > limit
        OBVIOUS
      <3> SUFFICES ASSUME Open(I, t) = {} PROVE FALSE
        OBVIOUS
      <3>2. Cardinality(Open(I, t)) = 0
        BY FS_EmptySet
      <3> QED BY <3>1, <3>2
    <2>2. t \in Nat /\ \A k \in S : I[k][2] <= t => I[k][1] <= t
      OBVIOUS
    <2>3. PICK p \in P : /\ p.time <= t /\ Current(I, p) = Cardinality(Open(I, t))
                         /\ \A r \in P : NotAfter(r, p) \/ t < r.time
      BY <2>1, <2>2, CountedAt
    <2> DEFINE Q == {r \in P : t < r.time}
    <2>4. Q # {} /\ Q \in SUBSET P
      <3>1. PICK k \in S : t < I[k][2]
        BY <1>2, <2>1 DEF Open
      <3>2. EndPoint(I, k) \in P /\ EndPoint(I, k).time = I[k][2]
        BY PointsOf DEF EndPoint
      <3>3. EndPoint(I, k) \in Q
        BY <3>1, <3>2
      <3> QED BY <3>3
    <2>5. PICK q \in Q : \A r \in Q : NotAfter(q, r)
      BY <2>4, FirstAndLast
    <2>6. p.time \in Int /\ q.time \in Int /\ t < q.time /\ q \in P
      BY <1>3, <2>3, <2>5
    <2>7. NotAfter(p, q) /\ p # q /\ t \in p.time .. q.time - 1
      BY <2>2, <2>3, <2>6 DEF NotAfter
    <2>8. \A r \in P : NotAfter(r, p) \/ NotAfter(q, r)
      BY <2>3, <2>5
    <2>9. <<p, q>> \in N
      BY <2>3, <2>6, <2>7, <2>8
    <2>10. Current(I, <<p, q>>[1]) > limit
      BY <2>3
    <2> HIDE DEF N, P
    <2>11. <<p, q>> \in L
      BY <2>9, <2>10
    <2> HIDE DEF L
    <2>12. t \in <<p, q>>[1].time .. <<p, q>>[2].time - 1
      BY <2>7
    <2> QED BY <2>11, <2>12
  <1>7. T \in SUBSET U
    BY <1>6
  <1> HIDE DEF P, N, L, U
  <1>8. Cardinality(T) <= Cardinality(U)
    BY <1>5, <1>7, FS_Subset, Zenon
  <1> QED BY <1>1, <1>8

-----------------------------------------------------------------------------
(* The windows of the retry budget                                             *)

InWindow(times, t, window) == {i \in DOMAIN times : times[i] \in t .. t + window - 1}

(* Looking ahead from each retry, back from each, or at every window: the same *)
(* largest number.                                                             *)
LEMMA WindowsAgree ==
  ASSUME NEW M \in Nat, NEW S \in SUBSET Nat, IsFiniteSet(S), NEW times \in [S -> 0 .. M],
         NEW w \in Nat \ {0}
  PROVE /\ max_in_window(times, w) = Max({Cardinality(InWindow(times, t, w)) : t \in 0 .. M})
        /\ AuditRetryPeak(times, w) = Max({Cardinality(InWindow(times, t, w)) : t \in 0 .. M})
  <1> DEFINE follows(j, i) == times[i] < times[j] \/ (times[i] = times[j] /\ i <= j)
             Ahead(i) == {j \in S : follows(j, i) /\ times[j] < times[i] + w}
             Back(v)  == {j \in S : times[v] - w < times[j] /\ times[j] <= times[v]}
             a == [i \in S |-> Cardinality(Ahead(i))]
             b == [i \in S |-> Cardinality(Back(i))]
             c == [t \in 0 .. M |-> Cardinality(InWindow(times, t, w))]
             AS == {0} \cup {a[i] : i \in S}
             BS == {0} \cup {b[i] : i \in S}
             CS == {c[t] : t \in 0 .. M}
  <1>1. DOMAIN times = S /\ \A i \in S : times[i] \in 0 .. M /\ i \in Nat
    OBVIOUS
  <1>2. \A t \in 0 .. M : InWindow(times, t, w) \in SUBSET S
    BY <1>1 DEF InWindow
  <1>3. /\ \A i \in S : IsFiniteSet(Ahead(i)) /\ a[i] \in Nat
        /\ \A i \in S : IsFiniteSet(Back(i)) /\ b[i] \in Nat
    <2>1. \A i \in S : Ahead(i) \in SUBSET S /\ Back(i) \in SUBSET S
      OBVIOUS
    <2>2. \A i \in S : a[i] = Cardinality(Ahead(i)) /\ b[i] = Cardinality(Back(i))
      OBVIOUS
    <2> HIDE DEF a, b, Ahead, Back
    <2> QED BY <2>1, <2>2, FS_Subset, FS_CardinalityType
  <1>4. \A t \in 0 .. M : IsFiniteSet(InWindow(times, t, w)) /\ c[t] \in Nat
    BY <1>2, FS_Subset, FS_CardinalityType
  <1>5. /\ max_in_window(times, w) = Max(AS)
        /\ AuditRetryPeak(times, w) = Max(BS)
        /\ {Cardinality(InWindow(times, t, w)) : t \in 0 .. M} = CS
    <2>1. max_in_window(times, w) = Max(AS)
      BY <1>1 DEF max_in_window
    <2>2. AuditRetryPeak(times, w) = Max(BS)
      BY <1>1 DEF AuditRetryPeak
    <2> QED BY <2>1, <2>2
  <1>6. 0 \in 0 .. M /\ IsFiniteSet(0 .. M)
    <2>1. 0 \in Int /\ M \in Int
      OBVIOUS
    <2> QED BY <2>1, FS_Interval
  <1>7. a = [i \in S |-> a[i]] /\ b = [i \in S |-> b[i]] /\ c = [t \in 0 .. M |-> c[t]]
    OBVIOUS
  (* Ahead of a retry is the window that begins with it.                       *)
  <1>8. \A i \in S : times[i] \in 0 .. M /\ a[i] <= c[times[i]]
    <2> SUFFICES ASSUME NEW i \in S PROVE times[i] \in 0 .. M /\ a[i] <= c[times[i]]
      OBVIOUS
    <2>1. times[i] \in 0 .. M
      BY <1>1
    <2>2. Ahead(i) \in SUBSET InWindow(times, times[i], w)
      <3> SUFFICES ASSUME NEW j \in Ahead(i) PROVE j \in InWindow(times, times[i], w)
        OBVIOUS
      <3>1. j \in S /\ times[j] \in Int /\ times[i] \in Int
        BY <1>1
      <3>2. times[i] <= times[j] /\ times[j] < times[i] + w
        BY <3>1
      <3>3. times[j] \in times[i] .. times[i] + w - 1
        BY <3>1, <3>2
      <3> QED BY <1>1, <3>1, <3>3 DEF InWindow
    <2>3. Cardinality(Ahead(i)) <= Cardinality(InWindow(times, times[i], w))
      BY <1>4, <2>1, <2>2, FS_Subset
    <2> QED BY <2>1, <2>3
  <1>9. \A i \in S : \E t \in 0 .. M : b[i] <= c[t]
    <2> SUFFICES ASSUME NEW i \in S PROVE \E t \in 0 .. M : b[i] <= c[t]
      OBVIOUS
    <2> DEFINE t == IF times[i] - w + 1 < 0 THEN 0 ELSE times[i] - w + 1
    <2>1. t \in 0 .. M /\ t >= times[i] - w + 1 /\ (t = 0 \/ t = times[i] - w + 1)
      BY <1>1
    <2>2. Back(i) \in SUBSET InWindow(times, t, w)
      <3> SUFFICES ASSUME NEW j \in Back(i) PROVE j \in InWindow(times, t, w)
        OBVIOUS
      <3>1. j \in S /\ times[j] \in Nat /\ times[i] \in Nat /\ t \in Nat
        BY <1>1, <2>1
      <3>2. times[i] - w < times[j] /\ times[j] <= times[i]
        OBVIOUS
      <3> HIDE DEF t
      <3>3. times[j] \in t .. t + w - 1
        BY <2>1, <3>1, <3>2
      <3> QED BY <1>1, <3>1, <3>3 DEF InWindow
    <2> HIDE DEF t
    <2>3. Cardinality(Back(i)) <= Cardinality(InWindow(times, t, w))
      BY <1>4, <2>1, <2>2, FS_Subset
    <2> QED BY <2>1, <2>3
  (* The retries of a window are ahead of its first and before its last.       *)
  <1>10. \A t \in 0 .. M : \/ c[t] = 0
                           \/ /\ \E i \in S : c[t] <= a[i]
                              /\ \E i \in S : c[t] <= b[i]
    <2> SUFFICES ASSUME NEW t \in 0 .. M, InWindow(times, t, w) # {}
                 PROVE (\E i \in S : c[t] <= a[i]) /\ (\E i \in S : c[t] <= b[i])
      BY FS_EmptySet
    <2> DEFINE In == InWindow(times, t, w)
               f == [i \in In |-> times[i]]
               H == {f[i] : i \in In}
    <2>1. In \in SUBSET S /\ IsFiniteSet(In)
      BY <1>2, <1>4
    <2>2. f = [i \in In |-> f[i]] /\ \A i \in In : f[i] = times[i] /\ f[i] \in Nat
      <3> HIDE DEF In
      <3>1. \A i \in In : f[i] = times[i] /\ times[i] \in Nat
        BY <1>1, <2>1
      <3> QED BY <3>1
    <2>3. \A i \in In : times[i] \in Nat /\ t <= times[i] /\ times[i] < t + w
      BY <1>1, <2>1 DEF InWindow
    <2> HIDE DEF In, f
    <2>4. H \in SUBSET Nat /\ H \in SUBSET Int /\ H # {} /\ IsFiniteSet(H)
      BY <2>1, <2>2, FiniteValues DEF In
    <2>5. \E i \in S : c[t] <= a[i]
      <3>1. PICK h \in H : \A y \in H : h <= y
        BY <2>4, LeastNumber
      <3> DEFINE K == {i \in In : times[i] = h}
      <3>2. K \in SUBSET Nat /\ K # {}
        BY <1>1, <2>1, <2>2, <3>1
      <3>3. PICK i \in K : \A j \in K : i <= j
        BY <3>2, LeastNumber
      <3>4. ASSUME NEW j \in In PROVE j \in Ahead(i)
        <4>1. i \in In /\ times[i] = h /\ h <= times[j] /\ j \in S /\ i \in S
          BY <2>1, <2>2, <3>1, <3>3
        <4>2. times[j] = h => i <= j
          BY <3>3
        <4>3. times[j] < times[i] + w
          BY <2>3, <4>1
        <4>4. times[i] < times[j] \/ times[i] = times[j]
          BY <2>3, <4>1
        <4> QED BY <4>1, <4>2, <4>3, <4>4
      <3>5. Cardinality(In) <= Cardinality(Ahead(i)) /\ i \in S
        <4>1. In \in SUBSET Ahead(i) /\ i \in S
          BY <2>1, <3>3, <3>4
        <4> HIDE DEF Ahead
        <4> QED BY <1>3, <4>1, FS_Subset
      <3> QED BY <3>5 DEF In
    <2>6. \E i \in S : c[t] <= b[i]
      <3>1. Max(H) \in H /\ \A y \in H : Max(H) >= y
        BY <2>4, LargestNumber
      <3>2. PICK i \in In : f[i] = Max(H)
        BY <3>1
      <3>3. \A j \in In : times[i] >= times[j]
        BY <2>2, <3>1, <3>2
      <3>4. ASSUME NEW j \in In PROVE j \in Back(i)
        BY <2>1, <2>3, <3>2, <3>3
      <3>5. Cardinality(In) <= Cardinality(Back(i)) /\ i \in S
        <4>1. In \in SUBSET Back(i) /\ i \in S
          BY <2>1, <3>2, <3>4
        <4> HIDE DEF Back
        <4> QED BY <1>3, <4>1, FS_Subset
      <3> QED BY <3>5 DEF In
    <2> QED BY <2>5, <2>6
  <1>11. \A i \in S : a[i] \in Nat /\ b[i] \in Nat
    BY <1>3
  <1>12. \A t \in 0 .. M : c[t] \in Nat
    BY <1>4
  <1> HIDE DEF a, b, c
  <1>13. /\ AS \in SUBSET Int /\ BS \in SUBSET Int /\ CS \in SUBSET Int
         /\ AS # {} /\ BS # {} /\ CS # {}
    BY <1>6, <1>11, <1>12
  <1>14. IsFiniteSet(AS) /\ IsFiniteSet(BS) /\ IsFiniteSet(CS)
    <2>1. IsFiniteSet({a[i] : i \in S})
      <3>1. a = [i \in S |-> a[i]]
        BY <1>7
      <3> QED BY <3>1, FiniteValues
    <2>2. IsFiniteSet({b[i] : i \in S})
      <3>1. b = [i \in S |-> b[i]]
        BY <1>7
      <3> QED BY <3>1, FiniteValues
    <2>3. IsFiniteSet({c[t] : t \in 0 .. M})
      <3>1. c = [t \in 0 .. M |-> c[t]]
        BY <1>7
      <3> QED BY <1>6, <3>1, FiniteValues
    <2>4. IsFiniteSet({0})
      BY FS_Singleton
    <2> QED BY <2>1, <2>2, <2>3, <2>4, FS_Union
  <1>15. \A x \in AS : \E y \in CS : x <= y
    <2>1. 0 <= c[0] /\ c[0] \in CS
      BY <1>6, <1>12
    <2> QED BY <1>8, <2>1
  <1>16. \A x \in BS : \E y \in CS : x <= y
    <2>1. 0 <= c[0] /\ c[0] \in CS
      BY <1>6, <1>12
    <2> QED BY <1>9, <2>1
  <1>17. ASSUME NEW y \in CS PROVE (\E x \in AS : y <= x) /\ (\E x \in BS : y <= x)
    <2>1. PICK t \in 0 .. M : y = c[t]
      OBVIOUS
    <2>2. CASE c[t] = 0
      <3>1. 0 \in AS /\ 0 \in BS /\ y <= 0
        BY <2>1, <2>2
      <3> QED BY <3>1
    <2>3. CASE c[t] # 0
      <3>1. PICK i \in S : y <= a[i]
        BY <1>10, <2>1, <2>3
      <3>2. PICK j \in S : y <= b[j]
        BY <1>10, <2>1, <2>3
      <3>3. a[i] \in AS /\ b[j] \in BS
        OBVIOUS
      <3> QED BY <3>1, <3>2, <3>3
    <2> QED BY <2>2, <2>3
  <1> HIDE DEF AS, BS, CS
  <1> QED BY <1>5, <1>13, <1>14, <1>15, <1>16, <1>17, SameLargest

-----------------------------------------------------------------------------
(* The calls that were in flight                                               *)

Call == [event : Operations, start : Nat, end : Nat \cup {Absent}]

BudgetShape ==
  /\ now \in 0 .. MaxTime /\ calls \in Seq(Call)
  /\ \A i \in DOMAIN calls :
       /\ calls[i].start <= now
       /\ calls[i].end # Absent => calls[i].start <= calls[i].end /\ calls[i].end <= now
  /\ \A i, j \in DOMAIN calls : i < j => calls[i].start <= calls[j].start
  /\ most \in [Groups -> Nat] /\ lasting \in [Groups -> Nat] /\ above \in [Groups -> Nat]
  /\ \/ collecting = "no" /\ collectedAt = Absent /\ attemptsFile = Absent
     \/ collecting = "begun" /\ collectedAt \in 0 .. now /\ attemptsFile = Absent
     \/ collecting = "done" /\ collectedAt \in 0 .. now /\ attemptsFile \in {calls, Absent}

(* The calls of a group that are open in the tick from t on, and the time up   *)
(* to which the truth is kept of what lasted.                                  *)
Live(g, t) == {i \in DOMAIN calls : /\ InGroup(calls[i].event, g) /\ calls[i].start <= t
                                    /\ calls[i].end = Absent \/ t < calls[i].end}
Until == IF collecting = "no" THEN now ELSE collectedAt

(* The three truths are the ones the table of calls shows.                     *)
MostInv == \A g \in Groups : \A t \in 0 .. now : Cardinality(Live(g, t)) <= most[g]
LastingInv ==
  \A g \in Groups :
    /\ lasting[g] = 0 \/ \E t \in 0 .. Until - 1 : lasting[g] = Cardinality(Live(g, t))
    /\ above[g] = Cardinality({t \in 0 .. Until - 1 : Cardinality(Live(g, t)) > SellerLimit})

BudgetInv == BudgetShape /\ MostInv /\ LastingInv

LEMMA CallsOf ==
  ASSUME BudgetShape
  PROVE /\ DOMAIN calls = 1 .. Len(calls) /\ Len(calls) \in Nat
        /\ DOMAIN calls \in SUBSET Nat /\ IsFiniteSet(DOMAIN calls)
        /\ \A i \in DOMAIN calls : /\ calls[i] \in Call /\ calls[i].start \in 0 .. now
                                   /\ calls[i].end = Absent \/ calls[i].end \in 0 .. now
        /\ now \in Nat /\ Until \in 0 .. now
        /\ \A g, t : IsFiniteSet(Live(g, t)) /\ Cardinality(Live(g, t)) \in Nat
  <1>1. DOMAIN calls = 1 .. Len(calls) /\ Len(calls) \in Nat /\ \A i \in DOMAIN calls : calls[i] \in Call
    BY DEF BudgetShape
  <1>2. now \in Nat /\ MaxTime \in Nat
    BY EvidenceAssumption DEF BudgetShape
  <1>3. \A i \in DOMAIN calls : calls[i].start \in 0 .. now /\ (calls[i].end = Absent \/ calls[i].end \in 0 .. now)
    BY <1>1, <1>2 DEF BudgetShape, Call
  <1>4. DOMAIN calls \in SUBSET Nat
    BY <1>1
  <1>5. IsFiniteSet(DOMAIN calls)
    <2>1. 1 \in Int /\ Len(calls) \in Int
      BY <1>1
    <2> QED BY <1>1, <2>1, FS_Interval
  <1>6. Until \in 0 .. now
    BY <1>2 DEF Until, BudgetShape
  <1>7. \A g, t : Live(g, t) \in SUBSET DOMAIN calls
    BY DEF Live
  <1> HIDE DEF Live
  <1>8. \A g, t : IsFiniteSet(Live(g, t)) /\ Cardinality(Live(g, t)) \in Nat
    BY <1>5, <1>7, FS_Subset, FS_CardinalityType
  <1> QED BY <1>1, <1>2, <1>3, <1>4, <1>5, <1>6, <1>8

(* What is open now is what is in flight.                                      *)
LEMMA OpenNow ==
  ASSUME BudgetShape
  PROVE \A g : Live(g, now) = InFlight(g)
  <1> SUFFICES ASSUME NEW g, NEW i \in DOMAIN calls
               PROVE (calls[i].start <= now /\ (calls[i].end = Absent \/ now < calls[i].end)) <=>
                     calls[i].end = Absent
    BY DEF Live, InFlight
  <1>1. calls[i].start \in 0 .. now /\ (calls[i].end = Absent \/ calls[i].end \in 0 .. now) /\ now \in Nat
    BY CallsOf
  <1> QED BY <1>1

-----------------------------------------------------------------------------
LEMMA ShapeStep ==
  ASSUME BudgetShape, EvidenceNext
  PROVE BudgetShape'
  <1> USE EvidenceAssumption
  <1>1. now \in Nat /\ MaxTime \in Nat /\ Absent \notin Nat /\ now <= MaxTime
    BY DEF BudgetShape
  <1>2. DOMAIN calls = 1 .. Len(calls) /\ Len(calls) \in Nat
    BY CallsOf
  <1>3. \A i \in DOMAIN calls : /\ calls[i] \in Call /\ calls[i].start \in 0 .. now
                                /\ calls[i].end = Absent \/ calls[i].end \in 0 .. now
    BY CallsOf
  <1>4. ASSUME NEW e \in Operations, StartCall(e) PROVE BudgetShape'
    <2> DEFINE c == [event |-> e, start |-> now, end |-> Absent]
    <2>1. c \in Call /\ c.start = now /\ c.end = Absent
      BY <1>1 DEF Call
    <2>2. calls' = Append(calls, c) /\ calls \in Seq(Call)
      BY <1>4 DEF StartCall, BudgetShape
    <2> HIDE DEF c
    <2>3. /\ calls' \in Seq(Call) /\ DOMAIN calls' = 1 .. Len(calls) + 1
          /\ calls'[Len(calls) + 1] = c
          /\ \A i \in DOMAIN calls : calls'[i] = calls[i]
      BY <1>2, <2>1, <2>2
    <2>4. \A i \in DOMAIN calls' : i \in DOMAIN calls \/ i = Len(calls) + 1
      BY <1>2, <2>3
    <2>5. most' \in [Groups -> Nat]
      <3>1. \A g \in Groups : most[g] \in Nat /\ Max({most[g], Cardinality(InFlight(g)) + 1}) \in Nat
        <4> SUFFICES ASSUME NEW g \in Groups
                     PROVE most[g] \in Nat /\ Max({most[g], Cardinality(InFlight(g)) + 1}) \in Nat
          OBVIOUS
        <4>1. most[g] \in Nat
          BY DEF BudgetShape
        <4>2. Cardinality(InFlight(g)) \in Nat
          BY CallsOf, OpenNow
        <4> DEFINE n == Cardinality(InFlight(g)) + 1
        <4>3. n \in Nat
          BY <4>2
        <4> HIDE DEF n
        <4>4. Max({most[g], n}) \in {most[g], n}
          <5>1. most[g] \in Int /\ n \in Int
            BY <4>1, <4>3
          <5> QED BY <5>1, LargerOfTwo, Zenon
        <4> QED BY <4>1, <4>3, <4>4 DEF n
      <3>2. most' = [g \in Groups |-> IF InGroup(e, g)
                               THEN Max({most[g], Cardinality(InFlight(g)) + 1}) ELSE most[g]]
        BY <1>4 DEF StartCall
      <3> HIDE DEF Max
      <3> QED BY <3>1, <3>2
    <2>6. \A i \in DOMAIN calls' :
            /\ calls'[i].start <= now
            /\ calls'[i].end # Absent => calls'[i].start <= calls'[i].end /\ calls'[i].end <= now
      BY <1>1, <2>1, <2>3, <2>4 DEF BudgetShape
    <2>7. \A i, j \in DOMAIN calls' : i < j => calls'[i].start <= calls'[j].start
      <3> SUFFICES ASSUME NEW i \in DOMAIN calls', NEW j \in DOMAIN calls', i < j
                   PROVE calls'[i].start <= calls'[j].start
        OBVIOUS
      <3>1. CASE j \in DOMAIN calls
        <4>1. i \in DOMAIN calls
          BY <1>2, <2>3, <3>1
        <4> QED BY <2>3, <3>1, <4>1 DEF BudgetShape
      <3>2. CASE j = Len(calls) + 1
        <4>1. calls'[j].start = now
          BY <2>1, <2>3, <3>2
        <4>2. calls'[i].start <= now
          BY <2>6
        <4> QED BY <4>1, <4>2
      <3> QED BY <2>4, <3>1, <3>2
    <2>8. UNCHANGED <<now, collectedAt, attemptsFile, collecting, lasting, above>> /\ collecting # "done"
      BY <1>4 DEF StartCall
    <2> QED BY <2>3, <2>5, <2>6, <2>7, <2>8 DEF BudgetShape
  <1>5. ASSUME NEW i \in DOMAIN calls, EndCall(i) PROVE BudgetShape'
    <2> DEFINE c == [calls[i] EXCEPT !.end = now]
    <2>1. c \in Call /\ c.start = calls[i].start /\ c.end = now /\ now # Absent
      BY <1>1, <1>3 DEF Call
    <2>2. calls' = [calls EXCEPT ![i] = c] /\ calls \in Seq(Call)
      BY <1>5 DEF EndCall, BudgetShape
    <2> HIDE DEF c
    <2>3. /\ calls' \in Seq(Call) /\ DOMAIN calls' = DOMAIN calls /\ calls'[i] = c
          /\ \A j \in DOMAIN calls : j # i => calls'[j] = calls[j]
      BY <1>2, <2>1, <2>2
    <2>4. \A j \in DOMAIN calls : calls'[j].start = calls[j].start
      BY <2>1, <2>3
    <2>5. ASSUME NEW j \in DOMAIN calls
          PROVE /\ calls'[j].start <= now
                /\ calls'[j].end # Absent => calls'[j].start <= calls'[j].end /\ calls'[j].end <= now
      <3>1. CASE j = i
        <4>1. calls'[j].start = calls[i].start /\ calls'[j].end = now /\ calls[i].start <= now
          BY <2>1, <2>3, <3>1 DEF BudgetShape
        <4> QED BY <1>1, <4>1
      <3>2. CASE j # i
        BY <2>3, <3>2 DEF BudgetShape
      <3> QED BY <3>1, <3>2
    <2>6. UNCHANGED <<now, collectedAt, attemptsFile, collecting, most, lasting, above>> /\ collecting # "done"
      BY <1>5 DEF EndCall
    <2>7. \A j, k \in DOMAIN calls' : j < k => calls'[j].start <= calls'[k].start
      BY <2>3, <2>4 DEF BudgetShape
    <2> QED BY <2>3, <2>5, <2>6, <2>7 DEF BudgetShape
  <1>6. ASSUME ClockTick PROVE BudgetShape'
    <2>1. now' = now + 1 /\ now' \in 0 .. MaxTime
      BY <1>1, <1>6 DEF ClockTick
    <2>2. \A i \in DOMAIN calls :
            /\ calls[i].start <= now'
            /\ calls[i].end # Absent => calls[i].start <= calls[i].end /\ calls[i].end <= now'
      BY <1>1, <1>3, <2>1 DEF BudgetShape
    <2>3. lasting' \in [Groups -> Nat] /\ above' \in [Groups -> Nat]
      <3>1. lasting \in [Groups -> Nat] /\ above \in [Groups -> Nat] /\ SellerLimit \in Nat
        BY DEF BudgetShape
      <3>2. \A g \in Groups : Cardinality(InFlight(g)) \in Nat
        BY CallsOf, OpenNow
      <3>3. \A g \in Groups : Max({lasting[g], Cardinality(InFlight(g))}) \in Nat
        <4> SUFFICES ASSUME NEW g \in Groups PROVE Max({lasting[g], Cardinality(InFlight(g))}) \in Nat
          OBVIOUS
        <4>1. lasting[g] \in Nat /\ Cardinality(InFlight(g)) \in Nat
          BY <3>1, <3>2
        <4>2. lasting[g] \in Int /\ Cardinality(InFlight(g)) \in Int
          BY <4>1
        <4>3. Max({lasting[g], Cardinality(InFlight(g))}) \in {lasting[g], Cardinality(InFlight(g))}
          BY <4>2, LargerOfTwo, Zenon
        <4> QED BY <4>1, <4>3
      <3>4. CASE collecting = "no"
        <4>1. lasting' = [g \in Groups |-> Max({lasting[g], Cardinality(InFlight(g))})]
          BY <1>6, <3>4 DEF ClockTick
        <4>2. above' = [g \in Groups |-> IF Cardinality(InFlight(g)) > SellerLimit THEN above[g] + 1 ELSE above[g]]
          BY <1>6, <3>4 DEF ClockTick
        <4> HIDE DEF Max
        <4>3. lasting' \in [Groups -> Nat]
          BY <3>3, <4>1
        <4>4. above' \in [Groups -> Nat]
          BY <3>1, <4>2
        <4> QED BY <4>3, <4>4
      <3>5. CASE collecting # "no"
        BY <1>6, <3>1, <3>5 DEF ClockTick
      <3> QED BY <3>4, <3>5
    <2>4. collectedAt \in 0 .. now => collectedAt \in 0 .. now'
      BY <1>1, <2>1
    <2>5. UNCHANGED <<calls, collectedAt, attemptsFile, collecting, most>> /\ collecting # "done"
      BY <1>6 DEF ClockTick
    <2> QED BY <2>1, <2>2, <2>3, <2>4, <2>5 DEF BudgetShape
  <1>7. ASSUME CollectBegin PROVE BudgetShape'
    <2>1. now \in 0 .. now
      BY <1>1
    <2> QED BY <1>7, <2>1 DEF CollectBegin, BudgetShape
  <1>8. ASSUME NEW readable \in BOOLEAN, CollectAttempts(readable) PROVE BudgetShape'
    <2>1. attemptsFile' \in {calls, Absent}
      BY <1>8 DEF CollectAttempts
    <2> QED BY <1>8, <2>1 DEF CollectAttempts, BudgetShape
  <1> QED BY <1>4, <1>5, <1>6, <1>7, <1>8 DEF EvidenceNext

(* While the past stays as it is, so does what is known of it.                 *)
LEMMA PastKept ==
  ASSUME BudgetShape, LastingInv, UNCHANGED <<lasting, above>>, Until' = Until,
         \A g \in Groups : \A t \in 0 .. Until - 1 : Live(g, t)' = Live(g, t)
  PROVE LastingInv'
  <1> SUFFICES ASSUME NEW g \in Groups
               PROVE /\ lasting[g] = 0 \/ \E t \in 0 .. Until - 1 : lasting[g] = Cardinality(Live(g, t)')
                     /\ above[g] = Cardinality({t \in 0 .. Until - 1 : Cardinality(Live(g, t)') > SellerLimit})
    BY DEF LastingInv
  <1> HIDE DEF Live, Until
  <1>1. {t \in 0 .. Until - 1 : Cardinality(Live(g, t)') > SellerLimit} =
        {t \in 0 .. Until - 1 : Cardinality(Live(g, t)) > SellerLimit}
    OBVIOUS
  <1> QED BY <1>1 DEF LastingInv

LEMMA StartTruth ==
  ASSUME BudgetShape, MostInv, LastingInv, NEW e \in Operations, StartCall(e)
  PROVE MostInv' /\ LastingInv'
  <1> USE EvidenceAssumption
  <1> DEFINE n == Len(calls) + 1
  <1>1. /\ now \in Nat /\ Until \in 0 .. now /\ DOMAIN calls \in SUBSET Nat
        /\ DOMAIN calls = 1 .. Len(calls) /\ Len(calls) \in Nat
        /\ \A g, t : IsFiniteSet(Live(g, t)) /\ Cardinality(Live(g, t)) \in Nat
    BY CallsOf
  <1>2. /\ DOMAIN calls' = DOMAIN calls \cup {n} /\ n \notin DOMAIN calls
        /\ calls'[n] = [event |-> e, start |-> now, end |-> Absent]
        /\ \A i \in DOMAIN calls : calls'[i] = calls[i]
    <2>1. calls' = Append(calls, [event |-> e, start |-> now, end |-> Absent]) /\ calls \in Seq(Call)
      BY DEF StartCall, BudgetShape
    <2> QED BY <1>1, <2>1
  <1>3. UNCHANGED <<now, lasting, above, Until>>
    BY DEF StartCall, Until
  <1> HIDE DEF n
  <1>4. ASSUME NEW g \in Groups, NEW t \in 0 .. now, t < now PROVE Live(g, t)' = Live(g, t)
    <2>1. ~(calls'[n].start <= t)
      BY <1>1, <1>2, <1>4
    <2> QED BY <1>2, <2>1 DEF Live, InGroup
  <1>5. ASSUME NEW g \in Groups, NEW t \in 0 .. now, t = now
        PROVE Live(g, t)' = IF InGroup(e, g) THEN InFlight(g) \cup {n} ELSE InFlight(g)
    <2>1. Live(g, now) = InFlight(g)
      BY OpenNow
    <2>2. calls'[n].start <= now /\ calls'[n].event = e /\ calls'[n].end = Absent
      BY <1>1, <1>2
    <2>3. {i \in DOMAIN calls' : /\ InGroup(calls'[i].event, g) /\ calls'[i].start <= now
                                 /\ calls'[i].end = Absent \/ now < calls'[i].end}
          = IF InGroup(e, g) THEN Live(g, now) \cup {n} ELSE Live(g, now)
      <3> DEFINE L == {i \in DOMAIN calls' : /\ InGroup(calls'[i].event, g) /\ calls'[i].start <= now
                                             /\ calls'[i].end = Absent \/ now < calls'[i].end}
      <3>1. \A i \in DOMAIN calls : i \in L <=> i \in Live(g, now)
        BY <1>2 DEF Live
      <3>2. n \in L <=> InGroup(e, g)
        BY <1>2, <2>2
      <3>3. L \subseteq DOMAIN calls \cup {n} /\ Live(g, now) \subseteq DOMAIN calls
        BY <1>2 DEF Live
      <3> HIDE DEF L, Live, InGroup
      <3>4. L = IF InGroup(e, g) THEN Live(g, now) \cup {n} ELSE Live(g, now)
        BY <3>1, <3>2, <3>3
      <3> QED BY <3>4 DEF L
    <2> QED BY <1>5, <2>1, <2>3 DEF Live, InGroup
  <1>6. MostInv'
    <2> SUFFICES ASSUME NEW g \in Groups, NEW t \in 0 .. now PROVE Cardinality(Live(g, t)') <= most'[g]
      BY <1>3 DEF MostInv
    <2> DEFINE m == Cardinality(InFlight(g)) + 1
    <2>1. most[g] \in Nat /\ Cardinality(InFlight(g)) \in Nat /\ IsFiniteSet(InFlight(g))
      BY <1>1, OpenNow DEF BudgetShape
    <2>2. Max({most[g], m}) >= most[g] /\ Max({most[g], m}) >= m /\ Max({most[g], m}) \in {most[g], m}
      <3>1. most[g] \in Int /\ m \in Int
        BY <2>1
      <3> HIDE DEF m
      <3> QED BY <3>1, LargerOfTwo, Zenon
    <2>3. most'[g] = IF InGroup(e, g) THEN Max({most[g], m}) ELSE most[g]
      BY DEF StartCall
    <2>4. most'[g] >= most[g] /\ (InGroup(e, g) => most'[g] >= m) /\ most'[g] \in Int /\ m \in Int
      <3>1. most[g] \in Int /\ m \in Int /\ most[g] >= most[g]
        BY <2>1
      <3> HIDE DEF m, Max, InGroup
      <3> QED BY <2>2, <2>3, <3>1
    <2>5. CASE t < now
      <3>1. Live(g, t)' = Live(g, t) /\ Cardinality(Live(g, t)) <= most[g] /\ Cardinality(Live(g, t)) \in Nat
        BY <1>1, <1>4, <2>5 DEF MostInv
      <3> HIDE DEF Live
      <3> QED BY <2>1, <2>4, <3>1
    <2>6. CASE t = now
      <3>1. Cardinality(InFlight(g)) <= most[g]
        <4>1. now \in 0 .. now
          BY <1>1
        <4> QED BY <4>1, OpenNow DEF MostInv
      <3>2. CASE InGroup(e, g)
        <4>1. n \notin InFlight(g)
          BY <1>2 DEF InFlight
        <4>2. Cardinality(InFlight(g) \cup {n}) = m
          BY <2>1, <4>1, FS_AddElement
        <4>3. Cardinality(Live(g, t)') = m
          BY <1>5, <2>6, <3>2, <4>2
        <4> HIDE DEF m, Live
        <4> QED BY <2>4, <3>2, <4>3
      <3>3. CASE ~InGroup(e, g)
        <4>1. Live(g, t)' = InFlight(g)
          BY <1>5, <2>6, <3>3
        <4> HIDE DEF Live
        <4> QED BY <2>1, <2>4, <3>1, <4>1
      <3> QED BY <3>2, <3>3
    <2> QED BY <1>1, <2>5, <2>6
  <1>7. LastingInv'
    <2>1. \A g \in Groups : \A t \in 0 .. Until - 1 : Live(g, t)' = Live(g, t)
      <3>1. \A t \in 0 .. Until - 1 : t \in 0 .. now /\ t < now
        BY <1>1
      <3> QED BY <1>4, <3>1
    <2> QED BY <1>3, <2>1, PastKept
  <1> QED BY <1>6, <1>7

LEMMA EndTruth ==
  ASSUME BudgetShape, MostInv, LastingInv, NEW k \in DOMAIN calls, EndCall(k)
  PROVE MostInv' /\ LastingInv'
  <1> USE EvidenceAssumption
  <1>1. /\ now \in Nat /\ Until \in 0 .. now
        /\ \A g, t : IsFiniteSet(Live(g, t)) /\ Cardinality(Live(g, t)) \in Nat
    BY CallsOf
  <1>2. /\ DOMAIN calls' = DOMAIN calls
        /\ \A i \in DOMAIN calls : calls'[i].event = calls[i].event /\ calls'[i].start = calls[i].start
        /\ \A i \in DOMAIN calls : i # k => calls'[i].end = calls[i].end
        /\ calls'[k].end = now /\ calls[k].end = Absent /\ now # Absent
    <2>1. calls' = [calls EXCEPT ![k] = [calls[k] EXCEPT !.end = now]] /\ calls[k].end = Absent
      BY DEF EndCall
    <2>2. \A i \in DOMAIN calls : calls[i] \in Call
      BY CallsOf
    <2>3. calls'[k] = [calls[k] EXCEPT !.end = now] /\ \A i \in DOMAIN calls : i # k => calls'[i] = calls[i]
      BY <2>1
    <2>4. calls'[k].event = calls[k].event /\ calls'[k].start = calls[k].start /\ calls'[k].end = now
      BY <2>2, <2>3 DEF Call
    <2> QED BY <1>1, <2>1, <2>3, <2>4
  <1>3. UNCHANGED <<now, lasting, above, most, Until>>
    BY DEF EndCall, Until
  <1>4. ASSUME NEW g \in Groups, NEW t \in 0 .. now
        PROVE /\ Live(g, t)' \in SUBSET Live(g, t)
              /\ t < now => Live(g, t)' = Live(g, t)
    <2>1. ASSUME NEW i \in DOMAIN calls
          PROVE /\ (calls'[i].end = Absent \/ t < calls'[i].end) => (calls[i].end = Absent \/ t < calls[i].end)
                /\ t < now => ((calls'[i].end = Absent \/ t < calls'[i].end) <=>
                               (calls[i].end = Absent \/ t < calls[i].end))
      BY <1>2
    <2> QED BY <1>2, <2>1 DEF Live, InGroup
  <1>5. MostInv'
    <2> SUFFICES ASSUME NEW g \in Groups, NEW t \in 0 .. now PROVE Cardinality(Live(g, t)') <= most[g]
      BY <1>3 DEF MostInv
    <2>1. Cardinality(Live(g, t)') <= Cardinality(Live(g, t)) /\ Cardinality(Live(g, t)') \in Nat
      <3>1. IsFiniteSet(Live(g, t)) /\ Live(g, t)' \in SUBSET Live(g, t)
        BY <1>1, <1>4
      <3> HIDE DEF Live
      <3> QED BY <3>1, FS_Subset, FS_CardinalityType
    <2>2. Cardinality(Live(g, t)) <= most[g] /\ most[g] \in Nat /\ Cardinality(Live(g, t)) \in Nat
      BY <1>1 DEF MostInv, BudgetShape
    <2> HIDE DEF Live
    <2> QED BY <2>1, <2>2
  <1>6. LastingInv'
    <2>1. \A g \in Groups : \A t \in 0 .. Until - 1 : Live(g, t)' = Live(g, t)
      <3>1. \A t \in 0 .. Until - 1 : t \in 0 .. now /\ t < now
        BY <1>1
      <3> QED BY <1>4, <3>1
    <2> QED BY <1>3, <2>1, PastKept
  <1> QED BY <1>5, <1>6

(* A tick adds itself to the past, with what is in flight.                     *)
LEMMA TickTruth ==
  ASSUME BudgetShape, MostInv, LastingInv, ClockTick
  PROVE MostInv' /\ LastingInv'
  <1> USE EvidenceAssumption
  <1>1. /\ now \in Nat /\ Until \in 0 .. now
        /\ \A g, t : IsFiniteSet(Live(g, t)) /\ Cardinality(Live(g, t)) \in Nat
    BY CallsOf
  <1>2. /\ now' = now + 1 /\ UNCHANGED <<calls, collectedAt, collecting, most>>
        /\ SellerLimit \in Nat
    BY DEF ClockTick
  <1>3. \A g, t : Live(g, t)' = Live(g, t)
    BY <1>2 DEF Live, InGroup
  <1>4. MostInv'
    <2> SUFFICES ASSUME NEW g \in Groups, NEW t \in 0 .. now + 1 PROVE Cardinality(Live(g, t)) <= most[g]
      BY <1>2, <1>3 DEF MostInv
    <2>1. CASE t <= now
      BY <1>1, <2>1 DEF MostInv
    <2>2. CASE t = now + 1
      <3>1. ASSUME NEW i \in DOMAIN calls
            PROVE /\ calls[i].start <= t <=> calls[i].start <= now
                  /\ (calls[i].end = Absent \/ t < calls[i].end) <=> (calls[i].end = Absent \/ now < calls[i].end)
        <4>1. calls[i].start \in 0 .. now /\ (calls[i].end = Absent \/ calls[i].end \in 0 .. now)
          BY CallsOf
        <4> QED BY <1>1, <2>2, <4>1
      <3>2. Live(g, t) = Live(g, now)
        BY <3>1 DEF Live
      <3>3. now \in 0 .. now
        BY <1>1
      <3> QED BY <3>2, <3>3 DEF MostInv
    <2> QED BY <1>1, <2>1, <2>2
  <1>5. CASE collecting # "no"
    <2>1. UNCHANGED <<lasting, above, Until>>
      BY <1>2, <1>5 DEF ClockTick, Until
    <2> QED BY <1>3, <1>4, <2>1, PastKept
  <1>6. CASE collecting = "no"
    <2>1. Until = now /\ Until' = now + 1
      BY <1>2, <1>6 DEF Until
    <2>2. ASSUME NEW g \in Groups
          PROVE /\ lasting'[g] = 0 \/ \E t \in 0 .. now : lasting'[g] = Cardinality(Live(g, t))
                /\ above'[g] = Cardinality({t \in 0 .. now : Cardinality(Live(g, t)) > SellerLimit})
      <3> DEFINE m == Cardinality(InFlight(g))
                 Over == {t \in 0 .. now - 1 : Cardinality(Live(g, t)) > SellerLimit}
                 Next == {t \in 0 .. now : Cardinality(Live(g, t)) > SellerLimit}
      <3>1. /\ lasting[g] \in Nat /\ m \in Nat /\ m = Cardinality(Live(g, now))
            /\ above[g] = Cardinality(Over)
            /\ lasting[g] = 0 \/ \E t \in 0 .. now - 1 : lasting[g] = Cardinality(Live(g, t))
        BY <1>1, <2>1, OpenNow DEF BudgetShape, LastingInv
      <3>2. lasting'[g] = Max({lasting[g], m}) /\ above'[g] = IF m > SellerLimit THEN above[g] + 1 ELSE above[g]
        BY <1>6 DEF ClockTick
      <3>3. lasting'[g] = 0 \/ \E t \in 0 .. now : lasting'[g] = Cardinality(Live(g, t))
        <4>1. Max({lasting[g], m}) \in {lasting[g], m}
          <5>1. lasting[g] \in Int /\ m \in Int
            BY <3>1
          <5> HIDE DEF m
          <5> QED BY <5>1, LargerOfTwo, Zenon
        <4>2. now \in 0 .. now /\ 0 .. now - 1 \subseteq 0 .. now
          BY <1>1
        <4> HIDE DEF m, Max, Live
        <4> QED BY <3>1, <3>2, <4>1, <4>2
      <3>4. above'[g] = Cardinality(Next)
        <4>1. IsFiniteSet(Over)
          <5>1. 0 \in Int /\ now - 1 \in Int
            BY <1>1
          <5>2. IsFiniteSet(0 .. now - 1) /\ Over \in SUBSET (0 .. now - 1)
            BY <5>1, FS_Interval
          <5> QED BY <5>2, FS_Subset
        <4>2. now \notin Over /\ \A t \in 0 .. now : t \in 0 .. now - 1 \/ t = now
          BY <1>1
        <4>3. 0 .. now - 1 \subseteq 0 .. now /\ now \in 0 .. now
          BY <1>1
        <4>4. Next = IF m > SellerLimit THEN Over \cup {now} ELSE Over
          <5>1. now \in Next <=> m > SellerLimit
            BY <3>1, <4>3
          <5>2. \A t \in 0 .. now - 1 : t \in Next <=> t \in Over
            BY <4>3
          <5>3. Over \subseteq 0 .. now - 1 /\ Next \subseteq (0 .. now - 1) \cup {now}
            BY <4>2
          <5> DEFINE K == 0 .. now - 1
          <5>4. Over \subseteq K /\ Next \subseteq K \cup {now} /\ (\A t \in K : t \in Next <=> t \in Over)
            BY <5>2, <5>3
          <5> HIDE DEF Over, Next, m, K
          <5>5. CASE m > SellerLimit
            BY <5>1, <5>4, <5>5, Zenon
          <5>6. CASE ~(m > SellerLimit)
            <6>1. now \notin Next
              BY <5>1, <5>6
            <6>2. \A t : t \in Next <=> t \in Over
              BY <5>4, <6>1
            <6>3. Next = Over
              BY <6>2
            <6> QED BY <5>6, <6>3
          <5> QED BY <5>5, <5>6, Zenon
        <4> HIDE DEF Over, Next, m
        <4>5. Cardinality(Over \cup {now}) = Cardinality(Over) + 1
          BY <4>1, <4>2, FS_AddElement
        <4>6. above[g] = Cardinality(Over) /\ above'[g] = IF m > SellerLimit THEN above[g] + 1 ELSE above[g]
          BY <3>1, <3>2
        <4>7. CASE m > SellerLimit
          BY <4>4, <4>5, <4>6, <4>7
        <4>8. CASE ~(m > SellerLimit)
          BY <4>4, <4>6, <4>8
        <4> QED BY <4>7, <4>8
      <3> QED BY <3>3, <3>4
    <2>3. LastingInv'
      <3> SUFFICES ASSUME NEW g \in Groups
                   PROVE /\ lasting'[g] = 0 \/ \E t \in 0 .. Until' - 1 : lasting'[g] = Cardinality(Live(g, t)')
                         /\ above'[g] = Cardinality({t \in 0 .. Until' - 1 : Cardinality(Live(g, t)') > SellerLimit})
        BY DEF LastingInv
      <3>1. Until' - 1 = now
        BY <1>1, <2>1
      <3> HIDE DEF Live
      <3> QED BY <1>3, <2>2, <3>1
    <2> QED BY <1>4, <2>3
  <1> QED BY <1>5, <1>6

LEMMA BudgetStep ==
  ASSUME BudgetInv, [EvidenceNext]_evidenceVars
  PROVE BudgetInv'
  <1> USE DEF BudgetInv
  <1>1. CASE UNCHANGED evidenceVars
    <2>1. UNCHANGED <<now, calls, collectedAt, attemptsFile, collecting, most, lasting, above, Until>>
      BY <1>1 DEF evidenceVars, Until
    <2>2. \A g, t : Live(g, t)' = Live(g, t)
      BY <2>1 DEF Live, InGroup
    <2>3. BudgetShape'
      BY <2>1 DEF BudgetShape
    <2>4. MostInv'
      BY <2>1, <2>2 DEF MostInv
    <2> QED BY <2>1, <2>2, <2>3, <2>4, PastKept
  <1>2. CASE EvidenceNext
    <2>1. BudgetShape'
      BY <1>2, ShapeStep
    <2>2. ASSUME UNCHANGED <<now, calls, most, lasting, above, Until>> PROVE MostInv' /\ LastingInv'
      <3>1. \A g, t : Live(g, t)' = Live(g, t)
        BY <2>2 DEF Live, InGroup
      <3>2. MostInv'
        BY <2>2, <3>1 DEF MostInv
      <3> QED BY <2>2, <3>1, <3>2, PastKept
    <2>3. ASSUME CollectBegin PROVE MostInv' /\ LastingInv'
      BY <2>2, <2>3 DEF CollectBegin, Until
    <2>4. ASSUME NEW readable \in BOOLEAN, CollectAttempts(readable) PROVE MostInv' /\ LastingInv'
      BY <2>2, <2>4 DEF CollectAttempts, Until
    <2> QED BY <1>2, <2>1, <2>3, <2>4, StartTruth, EndTruth, TickTruth DEF EvidenceNext
  <1> QED BY <1>1, <1>2

LEMMA BudgetStart ==
  ASSUME EvidenceInit
  PROVE BudgetInv
  <1> USE EvidenceAssumption DEF EvidenceInit
  <1>1. BudgetShape
    <2>1. 0 \in 0 .. MaxTime
      OBVIOUS
    <2>2. calls \in Seq(Call) /\ DOMAIN calls = {}
      OBVIOUS
    <2> QED BY <2>1, <2>2 DEF BudgetShape
  <1>2. \A g, t : Live(g, t) = {}
    BY DEF Live
  <1>3. MostInv
    <2>1. \A g \in Groups : most[g] = 0
      OBVIOUS
    <2>2. \A g, t : Cardinality(Live(g, t)) = 0
      BY <1>2, FS_EmptySet
    <2> HIDE DEF EvidenceInit
    <2> QED BY <2>1, <2>2 DEF MostInv
  <1>4. LastingInv
    <2>1. 0 .. Until - 1 = {}
      BY DEF Until
    <2>2. \A g \in Groups : lasting[g] = 0 /\ above[g] = 0
      OBVIOUS
    <2>3. \A g \in Groups : {t \in 0 .. Until - 1 : Cardinality(Live(g, t)) > SellerLimit} = {}
      BY <2>1
    <2> SUFFICES ASSUME NEW g \in Groups
                 PROVE /\ lasting[g] = 0
                       /\ above[g] = Cardinality({t \in 0 .. Until - 1 : Cardinality(Live(g, t)) > SellerLimit})
      BY DEF LastingInv
    <2> DEFINE O == {t \in 0 .. Until - 1 : Cardinality(Live(g, t)) > SellerLimit}
    <2>4. O = {} /\ lasting[g] = 0 /\ above[g] = 0
      BY <2>2, <2>3
    <2> HIDE DEF O, EvidenceInit
    <2>5. lasting[g] = 0 /\ above[g] = Cardinality(O)
      BY <2>4, FS_EmptySet
    <2> QED BY <2>5 DEF O
  <1> QED BY <1>1, <1>3, <1>4 DEF BudgetInv

-----------------------------------------------------------------------------
(* What check.py finds in the log                                              *)

LEMMA AttemptsOf ==
  ASSUME BudgetShape, collecting = "done"
  PROVE /\ \A g : Rows(g) \in SUBSET Nat /\ IsFiniteSet(Rows(g)) /\ Rows(g) \in SUBSET DOMAIN calls
        /\ \A s : Retries(s) \in SUBSET Nat /\ IsFiniteSet(Retries(s)) /\ Retries(s) \in SUBSET DOMAIN calls
        /\ \A i \in DOMAIN Attempts : i \in DOMAIN calls /\ Attempts[i] = calls[i]
        /\ attemptsFile # Absent => Attempts = calls
        /\ collectedAt \in 0 .. now /\ collectedAt \in 0 .. MaxTime /\ MaxTime \in Nat
        /\ \A i \in DOMAIN calls : calls[i].start \in 0 .. MaxTime /\ calls[i].end \in (0 .. MaxTime) \cup {Absent}
  <1> USE EvidenceAssumption
  <1>1. Attempts = <<>> \/ Attempts = calls
    BY DEF Attempts, BudgetShape
  <1>2. attemptsFile # Absent => Attempts = calls
    BY DEF Attempts, BudgetShape
  <1>3. \A i \in DOMAIN Attempts : i \in DOMAIN calls /\ Attempts[i] = calls[i]
    BY <1>1
  <1>4. DOMAIN calls \in SUBSET Nat /\ IsFiniteSet(DOMAIN calls) /\ now \in Nat
    BY CallsOf
  <1>5. \A g : Rows(g) \in SUBSET DOMAIN calls /\ Retries(g) \in SUBSET DOMAIN calls
    BY <1>3 DEF Rows, Retries
  <1>6. \A g : IsFiniteSet(Rows(g)) /\ IsFiniteSet(Retries(g))
    BY <1>4, <1>5, FS_Subset
  <1>7. \A i \in DOMAIN calls : calls[i].start \in 0 .. now /\ (calls[i].end = Absent \/ calls[i].end \in 0 .. now)
    BY CallsOf
  <1>8. now <= MaxTime /\ MaxTime \in Nat /\ collectedAt \in 0 .. now
    BY DEF BudgetShape
  <1>9. \A i \in DOMAIN calls : calls[i].start \in 0 .. MaxTime /\ calls[i].end \in (0 .. MaxTime) \cup {Absent}
    BY <1>4, <1>7, <1>8
  <1>10. collectedAt \in 0 .. MaxTime
    BY <1>4, <1>8
  <1> QED BY <1>2, <1>3, <1>4, <1>5, <1>6, <1>8, <1>9, <1>10

(* Whatever is taken for the end of a call that has none: no peak is invented, *)
(* since an interval is open only where its call was.                          *)
LEMMA PeakWasThere ==
  ASSUME BudgetInv, collecting = "done", NEW g \in Groups, NEW f \in [Rows(g) -> 0 .. MaxTime],
         NEW I, I = [i \in Rows(g) |-> <<Attempts[i].start, f[i]>>],
         \A i \in Rows(g) : Attempts[i].end # Absent => f[i] = Attempts[i].end
  PROVE I \in Spans(Rows(g), MaxTime) /\ max_overlap(I) <= most[g]
  <1> DEFINE S == Rows(g)
  <1>1. S \in SUBSET Nat /\ IsFiniteSet(S) /\ S \in SUBSET DOMAIN calls /\ MaxTime \in Nat
    BY AttemptsOf DEF BudgetInv
  <1>2. \A i \in S : /\ Attempts[i] = calls[i] /\ InGroup(calls[i].event, g)
                     /\ calls[i].start \in 0 .. MaxTime /\ calls[i].start \in 0 .. now
    <2>1. \A i \in S : i \in DOMAIN Attempts /\ InGroup(Attempts[i].event, g)
      BY DEF Rows
    <2>2. \A i \in S : Attempts[i] = calls[i] /\ calls[i].start \in 0 .. MaxTime
      BY <2>1, AttemptsOf DEF BudgetInv
    <2>3. \A i \in S : calls[i].start \in 0 .. now
      BY <1>1, CallsOf DEF BudgetInv
    <2> QED BY <2>1, <2>2, <2>3
  <1>3. DOMAIN I = S /\ \A i \in S : I[i] = <<calls[i].start, f[i]>>
    BY <1>2
  <1>4. I \in Spans(S, MaxTime)
    BY <1>2 DEF Spans
  <1>5. ASSUME NEW k \in S PROVE Cardinality(Open(I, I[k][1])) <= most[g]
    <2> DEFINE t == calls[k].start
    <2>1. I[k][1] = t /\ t \in 0 .. now
      BY <1>2, <1>3
    <2>2. Open(I, t) \in SUBSET Live(g, t)
      <3> SUFFICES ASSUME NEW i \in S, I[i][1] <= t, t < I[i][2] PROVE i \in Live(g, t)
        BY <1>3 DEF Open
      <3>1. calls[i].start <= t /\ t < f[i]
        BY <1>3
      <3>2. calls[i].end = Absent \/ t < calls[i].end
        BY <1>2, <3>1
      <3> HIDE DEF t
      <3> QED BY <1>1, <1>2, <3>1, <3>2 DEF Live
    <2> HIDE DEF t
    <2>3. IsFiniteSet(Live(g, t)) /\ Cardinality(Live(g, t)) \in Nat /\ Cardinality(Live(g, t)) <= most[g]
      BY <2>1, CallsOf DEF BudgetInv, MostInv
    <2>4. Cardinality(Open(I, t)) <= Cardinality(Live(g, t)) /\ Cardinality(Open(I, t)) \in Nat
      BY <2>2, <2>3, FS_Subset, FS_CardinalityType
    <2>5. most[g] \in Nat
      BY DEF BudgetInv, BudgetShape
    <2>6. Cardinality(Open(I, t)) <= most[g]
      BY <2>3, <2>4, <2>5
    <2> QED BY <2>1, <2>6
  <1>6. most[g] \in Nat
    BY DEF BudgetInv, BudgetShape
  <1> HIDE DEF S
  <1>7. max_overlap(I) <= most[g]
    BY <1>1, <1>4, <1>5, <1>6, PeakAtMost
  <1> QED BY <1>4, <1>7 DEF S

LEMMA CheckedPeak ==
  ASSUME BudgetInv, collecting = "done", NEW g \in Groups
  PROVE Intervals(g) \in Spans(Rows(g), MaxTime) /\ max_overlap(Intervals(g)) <= most[g]
  <1> DEFINE f == [i \in Rows(g) |-> IF Attempts[i].end # Absent THEN Attempts[i].end ELSE collectedAt]
             I == Intervals(g)
  <1>1. \A i \in Rows(g) : Attempts[i].end # Absent => Attempts[i].end \in 0 .. MaxTime
    BY AttemptsOf DEF Rows, BudgetInv
  <1>2. f \in [Rows(g) -> 0 .. MaxTime]
    BY <1>1, AttemptsOf DEF BudgetInv
  <1>3. \A i \in Rows(g) : Attempts[i].end # Absent => f[i] = Attempts[i].end
    OBVIOUS
  <1>4. I = [i \in Rows(g) |-> <<Attempts[i].start, f[i]>>]
    BY DEF Intervals, Interval
  <1> HIDE DEF f, I
  <1>5. I \in Spans(Rows(g), MaxTime) /\ max_overlap(I) <= most[g]
    BY <1>2, <1>3, <1>4, PeakWasThere
  <1> QED BY <1>5 DEF I

LEMMA AuditedPeak ==
  ASSUME BudgetInv, collecting = "done", NEW g \in Groups
  PROVE /\ AuditPeak(g) <= most[g]
        /\ (\A i \in DOMAIN Attempts : Attempts[i].end # Absent) => AuditPeak(g) = max_overlap(Intervals(g))
  <1> DEFINE f == [i \in Rows(g) |-> IF Attempts[i].end # Absent THEN Attempts[i].end ELSE Attempts[i].start]
             I == [i \in Rows(g) |-> <<Attempts[i].start, f[i]>>]
  <1>1. \A i \in Rows(g) : /\ Attempts[i].start \in 0 .. MaxTime
                           /\ Attempts[i].end # Absent => Attempts[i].end \in 0 .. MaxTime
    BY AttemptsOf DEF Rows, BudgetInv
  <1>2. f \in [Rows(g) -> 0 .. MaxTime]
    BY <1>1
  <1>3. \A i \in Rows(g) : Attempts[i].end # Absent => f[i] = Attempts[i].end
    OBVIOUS
  <1>4. I = [i \in Rows(g) |-> <<Attempts[i].start, f[i]>>]
    OBVIOUS
  <1>5. AuditPeak(g) = max_overlap(I)
    BY DEF AuditPeak
  <1>6. ASSUME \A i \in DOMAIN Attempts : Attempts[i].end # Absent PROVE I = Intervals(g)
    BY <1>6 DEF Intervals, Interval, Rows
  <1> HIDE DEF f, I
  <1>7. max_overlap(I) <= most[g]
    BY <1>2, <1>3, <1>4, PeakWasThere
  <1> QED BY <1>5, <1>6, <1>7

(* Before collection began the intervals are open where the calls were.        *)
LEMMA ShownWhereOpen ==
  ASSUME BudgetInv, collecting = "done", attemptsFile # Absent, NEW g \in Groups,
         NEW t \in 0 .. collectedAt - 1
  PROVE /\ Open(Intervals(g), t) = Live(g, t)
        /\ \A k \in Rows(g) : Intervals(g)[k][2] <= t => Intervals(g)[k][1] <= t
  <1> DEFINE I == Intervals(g)
             last(i) == IF calls[i].end # Absent THEN calls[i].end ELSE collectedAt
  <1>1. Attempts = calls /\ collectedAt \in Nat /\ t \in Nat /\ t < collectedAt
    BY AttemptsOf, CallsOf DEF BudgetInv
  <1>2. DOMAIN I = {i \in DOMAIN calls : InGroup(calls[i].event, g)} /\ DOMAIN I = Rows(g)
    BY <1>1 DEF Intervals, Rows
  <1>3. \A i \in Rows(g) : I[i][1] = calls[i].start /\ I[i][2] = last(i)
    BY <1>1 DEF Intervals, Interval
  <1>4. \A i \in DOMAIN calls : t < last(i) <=> (calls[i].end = Absent \/ t < calls[i].end)
    BY <1>1
  <1>5. ASSUME NEW i \in Rows(g), last(i) <= t PROVE calls[i].start <= t
    <2>1. i \in DOMAIN calls /\ calls[i].end # Absent /\ calls[i].end <= t
      BY <1>1, <1>2, <1>5
    <2>2. calls[i].start <= calls[i].end /\ calls[i].start \in Nat /\ calls[i].end \in Nat
      BY <2>1, CallsOf DEF BudgetInv, BudgetShape
    <2> QED BY <1>1, <2>1, <2>2
  <1> HIDE DEF I, last
  <1>6. Open(I, t) = Live(g, t)
    BY <1>2, <1>3, <1>4 DEF Open, Live
  <1>7. \A k \in Rows(g) : I[k][2] <= t => I[k][1] <= t
    BY <1>3, <1>5
  <1> QED BY <1>6, <1>7 DEF I

LEMMA LastingShown ==
  ASSUME BudgetInv, collecting = "done", attemptsFile # Absent, NEW g \in Groups
  PROVE /\ max_overlap(Intervals(g)) \in Nat
        /\ max_overlap(Intervals(g)) >= lasting[g]
        /\ time_above(Intervals(g), SellerLimit) >= above[g]
  <1> DEFINE I == Intervals(g)
             S == Rows(g)
             T == {t \in 0 .. collectedAt - 1 : Cardinality(Live(g, t)) > SellerLimit}
  <1>1. /\ I \in Spans(S, MaxTime) /\ S \in SUBSET Nat /\ IsFiniteSet(S)
        /\ MaxTime \in Nat /\ SellerLimit \in Nat /\ collectedAt \in Nat
    BY EvidenceAssumption, CheckedPeak, AttemptsOf, CallsOf DEF BudgetInv
  <1>2. Until = collectedAt
    BY DEF Until
  <1>3. /\ lasting[g] = 0 \/ \E t \in 0 .. collectedAt - 1 : lasting[g] = Cardinality(Live(g, t))
        /\ above[g] = Cardinality(T) /\ lasting[g] \in Nat
    BY <1>2 DEF BudgetInv, LastingInv, BudgetShape
  <1>4. \A t \in 0 .. collectedAt - 1 : /\ Open(I, t) = Live(g, t)
                                        /\ \A k \in S : I[k][2] <= t => I[k][1] <= t
    BY ShownWhereOpen
  <1> HIDE DEF I, S
  <1>5. max_overlap(I) \in Nat /\ \A p \in Points(I) : Current(I, p) <= max_overlap(I)
    BY <1>1, PeakIsLargest
  <1>6. max_overlap(I) >= lasting[g]
    <2>1. CASE lasting[g] = 0
      BY <1>5, <2>1
    <2>2. CASE lasting[g] # 0
      <3>1. PICK t \in 0 .. collectedAt - 1 : lasting[g] = Cardinality(Live(g, t))
        BY <1>3, <2>2
      <3>2. t \in Nat /\ Open(I, t) = Live(g, t) /\ \A k \in S : I[k][2] <= t => I[k][1] <= t
        <4>1. t \in Nat
          OBVIOUS
        <4>2. Open(I, t) = Live(g, t) /\ \A k \in S : I[k][2] <= t => I[k][1] <= t
          BY <1>4, Zenon
        <4> QED BY <4>1, <4>2
      <3>3. Open(I, t) # {}
        BY <2>2, <3>1, <3>2, FS_EmptySet
      <3>4. PICK p \in Points(I) : Current(I, p) = Cardinality(Open(I, t))
        BY <1>1, <3>2, <3>3, CountedAt
      <3> QED BY <1>3, <1>5, <3>1, <3>2, <3>4
    <2> QED BY <2>1, <2>2
  <1>7. time_above(I, SellerLimit) >= above[g]
    <2>1. T \in SUBSET Nat
      BY <1>1
    <2>2. \A t \in T : Cardinality(Open(I, t)) > SellerLimit /\ \A k \in S : I[k][2] <= t => I[k][1] <= t
      BY <1>4
    <2> HIDE DEF T
    <2>3. Cardinality(T) <= time_above(I, SellerLimit)
      BY <1>1, <2>1, <2>2, TimeAboveAtLeast
    <2> QED BY <1>3, <2>3
  <1> QED BY <1>5, <1>6, <1>7 DEF I

LEMMA RetriesShown ==
  ASSUME BudgetInv, collecting = "done"
  PROVE RetryPeakExact
  <1> SUFFICES ASSUME NEW s \in Sellers
               PROVE /\ max_in_window(RetryTimes(s), Window) =
                          Max({Cardinality({i \in Retries(s) : Attempts[i].start \in t .. t + Window - 1})
                               : t \in 0 .. MaxTime})
                     /\ max_in_window(RetryTimes(s), Window) = AuditRetryPeak(RetryTimes(s), Window)
    BY DEF RetryPeakExact
  <1> DEFINE times == RetryTimes(s)
             S == Retries(s)
  <1>1. S \in SUBSET Nat /\ IsFiniteSet(S) /\ MaxTime \in Nat /\ Window \in Nat \ {0}
    BY EvidenceAssumption, AttemptsOf DEF BudgetInv
  <1>2. times \in [S -> 0 .. MaxTime]
    BY AttemptsOf DEF BudgetInv, RetryTimes, Retries
  <1>3. \A t \in 0 .. MaxTime :
          {i \in S : Attempts[i].start \in t .. t + Window - 1} = InWindow(times, t, Window)
    BY DEF RetryTimes, InWindow
  <1>4. {Cardinality({i \in S : Attempts[i].start \in t .. t + Window - 1}) : t \in 0 .. MaxTime}
        = {Cardinality(InWindow(times, t, Window)) : t \in 0 .. MaxTime}
    BY <1>3
  <1> HIDE DEF times
  <1>5. /\ max_in_window(times, Window) = Max({Cardinality(InWindow(times, t, Window)) : t \in 0 .. MaxTime})
        /\ AuditRetryPeak(times, Window) = Max({Cardinality(InWindow(times, t, Window)) : t \in 0 .. MaxTime})
    BY <1>1, <1>2, WindowsAgree
  <1>6. /\ max_in_window(times, Window) =
             Max({Cardinality({i \in S : Attempts[i].start \in t .. t + Window - 1}) : t \in 0 .. MaxTime})
        /\ max_in_window(times, Window) = AuditRetryPeak(times, Window)
    BY <1>4, <1>5, Zenon
  <1> QED BY <1>6 DEF times

LEMMA BudgetTrue ==
  ASSUME BudgetInv
  PROVE EvidenceTypeOK /\ PeaksTrue
  <1>1. EvidenceTypeOK
    <2>1. ASSUME NEW g \in Groups PROVE lasting[g] <= most[g]
      <3>1. lasting[g] \in Nat /\ most[g] \in Nat /\ Until \in 0 .. now /\ now \in Nat
        BY CallsOf DEF BudgetInv, BudgetShape
      <3>2. CASE lasting[g] = 0
        BY <3>1, <3>2
      <3>3. CASE lasting[g] # 0
        <4>1. PICK t \in 0 .. Until - 1 : lasting[g] = Cardinality(Live(g, t))
          BY <3>3 DEF BudgetInv, LastingInv
        <4>2. t \in 0 .. now
          BY <3>1
        <4> QED BY <4>1, <4>2 DEF BudgetInv, MostInv
      <3> QED BY <3>2, <3>3
    <2>2. collecting \in {"no", "begun", "done"}
      BY DEF BudgetInv, BudgetShape
    <2> QED BY <2>1, <2>2 DEF EvidenceTypeOK, BudgetInv, BudgetShape
  <1>2. NoPeakInvented
    BY CheckedPeak DEF NoPeakInvented
  <1>3. LastingExcessSeen
    <2> SUFFICES ASSUME collecting = "done", attemptsFile # Absent
                 PROVE /\ \A g \in Groups : /\ max_overlap(Intervals(g)) >= lasting[g]
                                            /\ time_above(Intervals(g), SellerLimit) >= above[g]
                       /\ BudgetPassed => /\ lasting["all"] <= GlobalLimit
                                          /\ \A s \in Sellers : lasting[s] <= SellerLimit
                                          /\ \A o \in CalledOrders : lasting[o] <= 1
      BY DEF LastingExcessSeen
    <2>1. \A g \in Groups : /\ max_overlap(Intervals(g)) >= lasting[g]
                            /\ time_above(Intervals(g), SellerLimit) >= above[g]
      BY LastingShown
    <2>2. ASSUME NEW g \in Groups, NEW n \in Nat, max_overlap(Intervals(g)) <= n PROVE lasting[g] <= n
      <3>1. max_overlap(Intervals(g)) \in Nat /\ max_overlap(Intervals(g)) >= lasting[g] /\ lasting[g] \in Nat
        BY LastingShown DEF BudgetInv, BudgetShape
      <3> HIDE DEF max_overlap
      <3> QED BY <2>2, <3>1
    <2>3. GlobalLimit \in Nat /\ SellerLimit \in Nat /\ 1 \in Nat
      BY EvidenceAssumption
    <2>4. "all" \in Groups /\ Sellers \subseteq Groups /\ CalledOrders \subseteq Groups
      BY DEF Groups
    <2> QED BY <2>1, <2>2, <2>3, <2>4 DEF BudgetPassed
  <1>4. RetryPeakExact
    <2>1. CASE collecting = "done"
      BY <2>1, RetriesShown
    <2>2. CASE collecting # "done"
      BY <2>2 DEF RetryPeakExact
    <2> QED BY <2>1, <2>2
  <1>5. AuditAgrees
    BY AuditedPeak DEF AuditAgrees
  <1> QED BY <1>1, <1>2, <1>3, <1>4, <1>5 DEF PeaksTrue

(* However long the log of seller calls is and whatever the groups and limits: *)
(* once check.check has read it, its peaks, the time over the limit, the retry *)
(* windows and the audit's second reading tell what the calls really did.      *)
THEOREM PeaksCorrect == EvidenceSpec => [](EvidenceTypeOK /\ PeaksTrue)
  <1>1. EvidenceInit => BudgetInv
    BY BudgetStart
  <1>2. BudgetInv /\ [EvidenceNext]_evidenceVars => BudgetInv'
    BY BudgetStep
  <1>3. BudgetInv => EvidenceTypeOK /\ PeaksTrue
    BY BudgetTrue
  <1> QED BY <1>1, <1>2, <1>3, PTL DEF EvidenceSpec
=============================================================================
