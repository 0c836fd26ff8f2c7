------------------------------ MODULE WindowProofs ------------------------------
(***************************************************************************)
(* Proofs about what runs on the event loop of the window (MCWindow): the    *)
(* groups of the results are the classes of the matches, and the open list   *)
(* shows them all (ListsAreTrue); the window never waits for a thumbnail     *)
(* that cannot come (RequestsAreTracked), nor holds more of them than it may *)
(* (ThumbsAreTyped); and with the supervisor (BackendSupervisorProofs) all    *)
(* of them keep their types (WindowIsTyped).                                 *)
(***************************************************************************)
EXTENDS MCWindow, BackendSupervisorProofs, RecursionLemmas, SequenceTheorems, FunctionTheorems,
        FiniteSetTheorems, TLAPS

-----------------------------------------------------------------------------
(* The helpers of the lists.                                                 *)

\* What is picked is a sequence of the members of the set, each as often as in
\* the sequence it is picked from.
LEMMA PickedIs ==
    ASSUME NEW T, NEW q \in Seq(T), NEW S
    PROVE  /\ Picked(q, S) \in Seq(T)
           /\ Range(Picked(q, S)) = Range(q) \cap S
           /\ IsInjective(q) => IsInjective(Picked(q, S))
<1> DEFINE N == Len(q)
           step == [u \in (1..N) \X Seq(T) |-> IF q[u[1]] \in S THEN Append(u[2], q[u[1]]) ELSE u[2]]
           Is(f) == f = [n \in 0..Len(q) |->
                          IF n = 0 THEN <<>>
                          ELSE IF q[n] \in S THEN Append(f[n - 1], q[n]) ELSE f[n - 1]]
           pick == CHOOSE f : Is(f)
<1>1. N \in Nat /\ DOMAIN q = 1..N /\ \A n \in 1..N : q[n] \in T
  BY LenProperties, ElementOfSeq
<1>2. step \in [(1..N) \X Seq(T) -> Seq(T)] /\ <<>> \in Seq(T)
  <2>1. ASSUME NEW u \in (1..N) \X Seq(T)
        PROVE (IF q[u[1]] \in S THEN Append(u[2], q[u[1]]) ELSE u[2]) \in Seq(T)
    <3>1. u[2] \in Seq(T) /\ q[u[1]] \in T
      BY <1>1
    <3>2. Append(u[2], q[u[1]]) \in Seq(T)
      BY <3>1, AppendProperties
    <3> QED BY <3>1, <3>2
  <2> QED BY <2>1, EmptySeq
<1>3. PICK f : Solves(f, Seq(T), <<>>, N, step)
  <2> HIDE DEF step, N
  <2> QED BY <1>1, <1>2, Recursion
<1>4. \A n \in 1..N : f[n] = IF q[n] \in S THEN Append(f[n - 1], q[n]) ELSE f[n - 1]
  <2> SUFFICES ASSUME NEW n \in 1..N
               PROVE  f[n] = IF q[n] \in S THEN Append(f[n - 1], q[n]) ELSE f[n - 1]
    OBVIOUS
  <2>1. n - 1 \in 0..N
    BY <1>1
  <2>2. <<n, f[n - 1]>> \in (1..N) \X Seq(T)
    BY <1>3, <2>1 DEF Solves
  <2>3. step[<<n, f[n - 1]>>] = IF q[n] \in S THEN Append(f[n - 1], q[n]) ELSE f[n - 1]
    BY <2>2
  <2> QED BY <1>3, <2>3 DEF Solves
<1>5. Is(f)
  <2>1. \A n \in 0..N : n = 0 \/ n \in 1..N
    BY <1>1
  <2> HIDE DEF step
  <2> QED BY <1>3, <1>4, <2>1 DEF Solves
<1>6. Is(pick)
  <2> HIDE DEF Is
  <2> QED BY <1>5
<1>7. Picked(q, S) = pick[N]
  BY DEF Picked
<1> HIDE DEF pick, step
<1> DEFINE Good(n) == /\ pick[n] \in Seq(T)
                      /\ Range(pick[n]) = {q[i] : i \in 1..n} \cap S
                      /\ IsInjective(q) => IsInjective(pick[n])
           G == {n \in 0..N : Good(n)}
<1>8. 0 \in G
  <2>1. pick[0] = <<>>
    BY <1>1, <1>6
  <2>2. Range(<<>>) = {} /\ IsInjective(<<>>) /\ <<>> \in Seq(T)
    BY EmptySeq DEF Range, IsInjective
  <2>3. {q[i] : i \in 1..0} = {} /\ 0 \in 0..N
    BY <1>1
  <2>4. Good(0)
    BY <2>1, <2>2, <2>3
  <2> QED BY <2>3, <2>4
<1>9. ASSUME NEW n \in 1..N, n - 1 \in G PROVE n \in G
  <2>1. Good(n - 1) /\ n \in 0..N /\ n # 0
    BY <1>1, <1>9
  <2>2. {q[i] : i \in 1..n} = {q[i] : i \in 1..n - 1} \cup {q[n]}
    BY <1>1
  <2>3. pick[n] = IF q[n] \in S THEN Append(pick[n - 1], q[n]) ELSE pick[n - 1]
    BY <1>6, <2>1
  <2> HIDE DEF Is
  <2>4. CASE q[n] \notin S
    <3>1. pick[n] = pick[n - 1]
      BY <2>3, <2>4
    <3>2. Good(n)
      BY <2>1, <2>2, <2>4, <3>1
    <3> QED BY <2>1, <3>2
  <2>5. CASE q[n] \in S
    <3> DEFINE s == pick[n - 1]
               e == q[n]
    <3>1. pick[n] = Append(s, e) /\ s \in Seq(T) /\ e \in T
      BY <1>1, <2>1, <2>3, <2>5
    <3>2. Range(s) = {q[i] : i \in 1..n - 1} \cap S /\ (IsInjective(q) => IsInjective(s))
      BY <2>1
    <3> HIDE DEF s
    <3>3. /\ Append(s, e) \in Seq(T) /\ Len(Append(s, e)) = Len(s) + 1 /\ Len(s) \in Nat
          /\ DOMAIN s = 1..Len(s) /\ DOMAIN Append(s, e) = 1..Len(s) + 1
          /\ \A i \in 1..Len(s) : Append(s, e)[i] = s[i]
          /\ Append(s, e)[Len(s) + 1] = e
      BY <3>1, AppendProperties, LenProperties
    <3>4. Range(Append(s, e)) = Range(s) \cup {e}
      <4>1. Range(s) = {s[i] : i \in 1..Len(s)}
        BY <3>3 DEF Range
      <4>2. Range(Append(s, e)) = {Append(s, e)[i] : i \in 1..Len(s) + 1}
        BY <3>3 DEF Range
      <4>3. 1..Len(s) + 1 = (1..Len(s)) \cup {Len(s) + 1}
        BY <3>3
      <4> QED BY <3>3, <4>1, <4>2, <4>3
    <3>5. ASSUME IsInjective(q) PROVE IsInjective(Append(s, e))
      <4>1. e \notin Range(s)
        <5>1. \A i \in 1..n - 1 : q[i] # q[n]
          BY <1>1, <3>5 DEF IsInjective
        <5> QED BY <3>2, <5>1
      <4>2. \A i \in DOMAIN s : s[i] # e
        BY <4>1 DEF Range
      <4> QED BY <3>2, <3>3, <3>5, <4>2 DEF IsInjective
    <3>6. Range(pick[n]) = {q[i] : i \in 1..n} \cap S
      BY <2>2, <2>5, <3>1, <3>2, <3>4
    <3>7. Good(n)
      BY <3>1, <3>3, <3>5, <3>6
    <3> QED BY <2>1, <3>7
  <2> QED BY <2>4, <2>5
<1>10. N \in G
  <2> HIDE DEF G
  <2>1. 0..N \subseteq G
    BY <1>1, <1>8, <1>9, Induction
  <2> QED BY <1>1, <2>1
<1>11. {q[i] : i \in 1..N} = Range(q)
  BY <1>1 DEF Range
<1> QED BY <1>7, <1>10, <1>11

\* The paths are finitely many, no more than the sequence is long.
LEMMA PathsAre ==
    /\ Len(PathSeq) \in Nat /\ DOMAIN PathSeq = 1..Len(PathSeq)
    /\ \A n \in 1..Len(PathSeq) : PathSeq[n] \in ViewPaths
    /\ IsFiniteSet(ViewPaths) /\ Cardinality(ViewPaths) <= Len(PathSeq) /\ NoPath \notin ViewPaths
<1>1. PathSeq \in Seq(ViewPaths) /\ NoPath \notin ViewPaths
  BY ViewAssumption
<1>2. Len(PathSeq) \in Nat /\ DOMAIN PathSeq = 1..Len(PathSeq)
      /\ \A n \in 1..Len(PathSeq) : PathSeq[n] \in ViewPaths
  BY <1>1, LenProperties, ElementOfSeq
<1>3. PathSeq \in Surjection(1..Len(PathSeq), ViewPaths)
  <2>1. PathSeq \in [1..Len(PathSeq) -> ViewPaths]
    BY <1>1, LenProperties
  <2>2. \A p \in ViewPaths : \E n \in 1..Len(PathSeq) : PathSeq[n] = p
    BY <1>2 DEF ViewPaths, Range
  <2> QED BY <2>1, <2>2 DEF Surjection
<1>4. IsFiniteSet(1..Len(PathSeq)) /\ Cardinality(1..Len(PathSeq)) = Len(PathSeq)
  BY <1>2, FS_Interval
<1> QED BY <1>1, <1>2, <1>3, <1>4, FS_Surjection

\* An element that is inserted into a sequence joins its range.
LEMMA InsertedIs ==
    ASSUME NEW T, NEW q \in Seq(T), NEW e \in T, NEW k \in 0..Len(q)
    PROVE  /\ InsertAt(q, k + 1, e) \in Seq(T)
           /\ Range(InsertAt(q, k + 1, e)) = Range(q) \cup {e}
           /\ IsInjective(q) /\ e \notin Range(q) => IsInjective(InsertAt(q, k + 1, e))
<1> DEFINE n == Len(q)
           r == InsertAt(q, k + 1, e)
<1>1. n \in Nat /\ DOMAIN q = 1..n /\ k \in Nat /\ k <= n /\ \A i \in 1..n : q[i] \in T
  BY LenProperties, ElementOfSeq
<1> DEFINE a == SubSeq(q, 1, (k + 1) - 1)
           b == SubSeq(q, k + 1, Len(q))
<1>2. /\ a \in Seq(T) /\ Len(a) = k /\ \A i \in 1..k : a[i] = q[i]
      /\ b \in Seq(T) /\ Len(b) = n - k /\ \A i \in 1..n - k : b[i] = q[k + i]
  <2>1. a \in Seq(T) /\ Len(a) = k /\ \A i \in 1..k : a[i] = q[i]
    <3>1. (k + 1) - 1 = k /\ \A i \in 1..k : q[i] \in T
      BY <1>1
    <3>2. /\ SubSeq(q, 1, k) \in Seq(T) /\ Len(SubSeq(q, 1, k)) = IF 1 <= k THEN k - 1 + 1 ELSE 0
          /\ \A i \in 1..k - 1 + 1 : SubSeq(q, 1, k)[i] = q[1 + i - 1]
      BY <1>1, <3>1, SubSeqProperties
    <3>3. k - 1 + 1 = k /\ \A i \in 1..k : 1 + i - 1 = i
      BY <1>1
    <3> QED BY <1>1, <3>1, <3>2, <3>3
  <2>2. b \in Seq(T) /\ Len(b) = n - k /\ \A i \in 1..n - k : b[i] = q[k + i]
    <3>1. \A i \in k + 1..n : q[i] \in T
      BY <1>1
    <3>2. /\ b \in Seq(T) /\ Len(b) = IF k + 1 <= n THEN n - (k + 1) + 1 ELSE 0
          /\ \A i \in 1..n - (k + 1) + 1 : b[i] = q[k + 1 + i - 1]
      BY <1>1, <3>1, SubSeqProperties
    <3> HIDE DEF b, n
    <3>3. /\ n - (k + 1) + 1 = n - k /\ \A i \in 1..n - k : k + 1 + i - 1 = k + i
          /\ k + 1 <= n \/ n - k = 0
      BY <1>1
    <3>4. Len(b) = n - k
      BY <3>2, <3>3
    <3>5. \A i \in 1..n - k : b[i] = q[k + i]
      BY <3>2, <3>3
    <3> QED BY <3>2, <3>4, <3>5
  <2> QED BY <2>1, <2>2
<1>3. r = a \o <<e>> \o b
  BY DEF InsertAt
<1> HIDE DEF a, b
<1>4. /\ r \in Seq(T) /\ Len(r) = n + 1
      /\ \A i \in 1..n + 1 : r[i] = IF i <= k THEN q[i] ELSE IF i = k + 1 THEN e ELSE q[i - 1]
  <2> DEFINE c == a \o <<e>>
  <2>1. c \in Seq(T) /\ Len(c) = k + 1 /\ \A i \in 1..k + 1 : c[i] = IF i <= k THEN a[i] ELSE e
    BY <1>1, <1>2
  <2> HIDE DEF c
  <2>2. /\ c \o b \in Seq(T) /\ Len(c \o b) = n + 1
        /\ \A i \in 1..n + 1 : (c \o b)[i] = IF i <= k + 1 THEN c[i] ELSE b[i - (k + 1)]
    <3>1. k + 1 + (n - k) = n + 1 /\ b \in Seq(T) /\ Len(b) = n - k
      BY <1>1, <1>2
    <3> QED BY <2>1, <3>1, ConcatProperties
  <2>3. \A i \in 1..n + 1 : i <= k + 1 \/ (i - (k + 1) \in 1..n - k /\ k + (i - (k + 1)) = i - 1)
    BY <1>1
  <2>4. r = c \o b
    BY <1>3 DEF c
  <2> HIDE DEF r
  <2>5. \A i \in 1..n + 1 : r[i] = IF i <= k THEN q[i] ELSE IF i = k + 1 THEN e ELSE q[i - 1]
    <3> SUFFICES ASSUME NEW i \in 1..n + 1
                 PROVE r[i] = IF i <= k THEN q[i] ELSE IF i = k + 1 THEN e ELSE q[i - 1]
      OBVIOUS
    <3>1. CASE i <= k
      BY <1>1, <1>2, <2>1, <2>2, <2>4, <3>1
    <3>2. CASE i = k + 1
      BY <1>1, <2>1, <2>2, <2>4, <3>2
    <3>3. CASE i > k + 1
      <4>1. ~(i <= k + 1) /\ ~(i <= k) /\ i # k + 1
        BY <1>1, <3>3
      <4>2. i - (k + 1) \in 1..n - k /\ k + (i - (k + 1)) = i - 1
        BY <2>3, <4>1
      <4>3. b[i - (k + 1)] = q[i - 1]
        BY <1>2, <4>2
      <4>4. r[i] = b[i - (k + 1)]
        BY <2>2, <2>4, <4>1
      <4> QED BY <4>1, <4>3, <4>4
    <3> QED BY <1>1, <3>1, <3>2, <3>3
  <2> QED BY <2>2, <2>4, <2>5
<1> HIDE DEF r
<1>5. DOMAIN r = 1..n + 1
  BY <1>4, LenProperties
<1>6. Range(r) = Range(q) \cup {e}
  <2>1. ASSUME NEW v \in Range(r) PROVE v \in Range(q) \cup {e}
    BY <1>1, <1>4, <1>5 DEF Range
  <2>2. ASSUME NEW v \in Range(q) PROVE v \in Range(r)
    <3>1. PICK i \in 1..n : q[i] = v
      BY <1>1 DEF Range
    <3>2. CASE i <= k
      <4>1. i \in 1..n + 1 /\ r[i] = v
        BY <1>1, <1>4, <3>1, <3>2
      <4> QED BY <1>5, <4>1 DEF Range
    <3>3. CASE i > k
      <4>1. i + 1 \in 1..n + 1 /\ r[i + 1] = v
        BY <1>1, <1>4, <3>1, <3>3
      <4> QED BY <1>5, <4>1 DEF Range
    <3> QED BY <1>1, <3>2, <3>3
  <2>3. e \in Range(r)
    <3>1. k + 1 \in 1..n + 1 /\ r[k + 1] = e
      BY <1>1, <1>4
    <3> QED BY <1>5, <3>1 DEF Range
  <2> QED BY <2>1, <2>2, <2>3
<1>7. ASSUME IsInjective(q), e \notin Range(q) PROVE IsInjective(r)
  <2> SUFFICES ASSUME NEW i \in 1..n + 1, NEW j \in 1..n + 1, r[i] = r[j] PROVE i = j
    BY <1>5 DEF IsInjective
  <2>1. \A x \in 1..n : q[x] # e
    BY <1>1, <1>7 DEF Range
  <2>2. \A x, y \in 1..n : q[x] = q[y] => x = y
    BY <1>1, <1>7 DEF IsInjective
  <2>3. \A x \in 1..n + 1 : \/ x <= k /\ x \in 1..n /\ r[x] = q[x]
                            \/ x = k + 1 /\ r[x] = e
                            \/ x > k + 1 /\ x - 1 \in 1..n /\ r[x] = q[x - 1]
    BY <1>1, <1>4
  <2> QED BY <1>1, <2>1, <2>2, <2>3
<1> QED BY <1>4, <1>6, <1>7 DEF r

\* The members of a group are put in an order, none left out, none twice.
LEMMA OrderedIs ==
    ASSUME NEW ms \in SUBSET ViewPaths, NEW pct
    PROVE  /\ Ordered(ms, pct) \in Seq(ViewPaths)
           /\ Range(Ordered(ms, pct)) = ms
           /\ IsInjective(Ordered(ms, pct))
<1> DEFINE N == Len(PathSeq)
           Q == Seq(ViewPaths)
           at(q, p) == Cardinality({i \in DOMAIN q : pct[q[i]] >= pct[p]})
           placed == [u \in Seq(ViewPaths) \X ViewPaths |->
                        InsertAt(u[1], Cardinality({i \in DOMAIN u[1] : pct[u[1][i]] >= pct[u[2]]}) + 1, u[2])]
           step == [u \in (1..N) \X Q |-> IF PathSeq[u[1]] \in ms THEN placed[<<u[2], PathSeq[u[1]]>>] ELSE u[2]]
           Is(f) == f = [n \in 0..Len(PathSeq) |->
                          IF n = 0 THEN <<>>
                          ELSE IF PathSeq[n] \in ms THEN placed[<<f[n - 1], PathSeq[n]>>] ELSE f[n - 1]]
           sort == CHOOSE f : Is(f)
<1>1. N \in Nat /\ \A n \in 1..N : PathSeq[n] \in ViewPaths
  BY PathsAre
<1>2. ASSUME NEW q \in Q, NEW p \in ViewPaths
      PROVE /\ placed[<<q, p>>] \in Q /\ Range(placed[<<q, p>>]) = Range(q) \cup {p}
            /\ IsInjective(q) /\ p \notin Range(q) => IsInjective(placed[<<q, p>>])
  <2>1. at(q, p) \in 0..Len(q)
    <3>1. Len(q) \in Nat /\ DOMAIN q = 1..Len(q)
      BY LenProperties
    <3>2. IsFiniteSet(1..Len(q)) /\ Cardinality(1..Len(q)) = Len(q)
      BY <3>1, FS_Interval
    <3>3. {i \in DOMAIN q : pct[q[i]] >= pct[p]} \in SUBSET (1..Len(q))
      BY <3>1
    <3> QED BY <3>1, <3>2, <3>3, FS_Subset, FS_CardinalityType
  <2>2. placed[<<q, p>>] = InsertAt(q, at(q, p) + 1, p)
    <3>1. <<q, p>> \in Seq(ViewPaths) \X ViewPaths
      OBVIOUS
    <3> QED BY <3>1
  <2> HIDE DEF at, placed
  <2>3. q \in Seq(ViewPaths)
    OBVIOUS
  <2> DEFINE k == at(q, p)
  <2>4. k \in 0..Len(q) /\ placed[<<q, p>>] = InsertAt(q, k + 1, p)
    BY <2>1, <2>2 DEF k
  <2> HIDE DEF k
  <2>5. /\ InsertAt(q, k + 1, p) \in Seq(ViewPaths)
        /\ Range(InsertAt(q, k + 1, p)) = Range(q) \cup {p}
        /\ IsInjective(q) /\ p \notin Range(q) => IsInjective(InsertAt(q, k + 1, p))
    BY <2>3, <2>4, InsertedIs
  <2> QED BY <2>4, <2>5
<1> HIDE DEF placed
<1>3. step \in [(1..N) \X Q -> Q] /\ <<>> \in Q
  <2>1. ASSUME NEW u \in (1..N) \X Q
        PROVE (IF PathSeq[u[1]] \in ms THEN placed[<<u[2], PathSeq[u[1]]>>] ELSE u[2]) \in Q
    BY <1>1, <1>2
  <2> QED BY <2>1, EmptySeq
<1>4. PICK f : Solves(f, Q, <<>>, N, step)
  <2> HIDE DEF step, N, Q
  <2> QED BY <1>1, <1>3, Recursion
<1>5. \A n \in 1..N : f[n] = IF PathSeq[n] \in ms THEN placed[<<f[n - 1], PathSeq[n]>>] ELSE f[n - 1]
  <2> SUFFICES ASSUME NEW n \in 1..N
               PROVE  f[n] = IF PathSeq[n] \in ms THEN placed[<<f[n - 1], PathSeq[n]>>] ELSE f[n - 1]
    OBVIOUS
  <2>1. n - 1 \in 0..N
    BY <1>1
  <2>2. <<n, f[n - 1]>> \in (1..N) \X Q
    BY <1>4, <2>1 DEF Solves
  <2>3. step[<<n, f[n - 1]>>] = IF PathSeq[n] \in ms THEN placed[<<f[n - 1], PathSeq[n]>>] ELSE f[n - 1]
    BY <2>2
  <2> QED BY <1>4, <2>3 DEF Solves
<1>6. Is(sort)
  <2>1. \A n \in 0..N : n = 0 \/ n \in 1..N
    BY <1>1
  <2>2. Is(f)
    <3> HIDE DEF step
    <3> QED BY <1>4, <1>5, <2>1 DEF Solves
  <2> HIDE DEF Is
  <2> QED BY <2>2
<1>7. Ordered(ms, pct) = sort[N]
  BY DEF Ordered, placed
<1> HIDE DEF sort, step
<1> DEFINE Good(n) == /\ sort[n] \in Q
                      /\ Range(sort[n]) = {PathSeq[i] : i \in 1..n} \cap ms
                      /\ IsInjective(sort[n])
           G == {n \in 0..N : Good(n)}
<1>8. 0 \in G
  <2>1. sort[0] = <<>>
    BY <1>1, <1>6
  <2>2. Range(<<>>) = {} /\ IsInjective(<<>>) /\ <<>> \in Q
    BY EmptySeq DEF Range, IsInjective
  <2>3. {PathSeq[i] : i \in 1..0} = {} /\ 0 \in 0..N
    BY <1>1
  <2>4. Good(0)
    BY <2>1, <2>2, <2>3
  <2> QED BY <2>3, <2>4
<1>9. ASSUME NEW n \in 1..N, n - 1 \in G PROVE n \in G
  <2>1. Good(n - 1) /\ n \in 0..N /\ n # 0
    BY <1>1, <1>9
  <2>2. {PathSeq[i] : i \in 1..n} = {PathSeq[i] : i \in 1..n - 1} \cup {PathSeq[n]}
    BY <1>1
  <2>3. sort[n] = IF PathSeq[n] \in ms THEN placed[<<sort[n - 1], PathSeq[n]>>] ELSE sort[n - 1]
    BY <1>6, <2>1
  <2> HIDE DEF Is
  <2>4. CASE PathSeq[n] \notin ms
    <3>1. sort[n] = sort[n - 1]
      BY <2>3, <2>4
    <3>2. Good(n)
      BY <2>1, <2>2, <2>4, <3>1
    <3> QED BY <2>1, <3>2
  <2>5. CASE PathSeq[n] \in ms
    <3>1. sort[n] = placed[<<sort[n - 1], PathSeq[n]>>] /\ sort[n - 1] \in Q /\ PathSeq[n] \in ViewPaths
      BY <1>1, <2>1, <2>3, <2>5
    <3>2. PathSeq[n] \notin Range(sort[n - 1])
      <4>1. \A i \in 1..n - 1 : PathSeq[i] # PathSeq[n]
        <5>1. \A i, j \in 1..N : PathSeq[i] = PathSeq[j] => i = j
          BY ViewAssumption, PathsAre DEF IsInjective
        <5> QED BY <1>1, <5>1
      <4> QED BY <2>1, <4>1
    <3>3. /\ sort[n] \in Q /\ Range(sort[n]) = Range(sort[n - 1]) \cup {PathSeq[n]}
          /\ IsInjective(sort[n])
      BY <1>2, <2>1, <3>1, <3>2
    <3>4. Range(sort[n]) = {PathSeq[i] : i \in 1..n} \cap ms
      BY <2>1, <2>2, <2>5, <3>3
    <3>5. Good(n)
      BY <3>3, <3>4
    <3> QED BY <2>1, <3>5
  <2> QED BY <2>4, <2>5
<1>10. N \in G
  <2> HIDE DEF G
  <2>1. 0..N \subseteq G
    BY <1>1, <1>8, <1>9, Induction
  <2> QED BY <1>1, <2>1
<1>11. {PathSeq[i] : i \in 1..N} = ViewPaths
  BY PathsAre DEF ViewPaths, Range
<1> QED BY <1>7, <1>10, <1>11

-----------------------------------------------------------------------------
(* The trees of the union-find.                                              *)

ParentMaps == [ViewPaths -> ViewPaths \cup {NoPath}]

\* Whatever has a parent other than itself lies below it.
Below(par, height) == \A p \in ViewPaths : Parent(par, p) = p \/ height[p] < height[Parent(par, p)]
Forest(par) == \E height \in [ViewPaths -> Nat] : Below(par, height)

\* The parent of a path is a path.
LEMMA ParentIs ==
    ASSUME NEW par \in ParentMaps, NEW p \in ViewPaths
    PROVE  Parent(par, p) \in ViewPaths /\ (par[p] # NoPath => Parent(par, p) = par[p])
BY DEF Parent, ParentMaps

\* A chain goes from a path to its parent, and on.
LEMMA ChainIs ==
    ASSUME NEW par \in ParentMaps, NEW p \in ViewPaths
    PROVE  /\ Chain(par, p) \in [0..Len(PathSeq) -> ViewPaths]
           /\ Chain(par, p)[0] = p
           /\ \A n \in 1..Len(PathSeq) : Chain(par, p)[n] = Parent(par, Chain(par, p)[n - 1])
<1> DEFINE N == Len(PathSeq)
           next == [q \in ViewPaths |-> Parent(par, q)]
           step == [u \in (1..N) \X ViewPaths |-> next[u[2]]]
           Is(f) == f = [n \in 0..Len(PathSeq) |-> IF n = 0 THEN p ELSE next[f[n - 1]]]
           up == CHOOSE f : Is(f)
<1>1. N \in Nat /\ \A n \in 0..N : n = 0 \/ (n \in 1..N /\ n - 1 \in 0..N)
  BY PathsAre
<1>2. next \in [ViewPaths -> ViewPaths] /\ \A q \in ViewPaths : next[q] = Parent(par, q)
  BY ParentIs
<1>3. Chain(par, p) = up
  BY DEF Chain
<1> HIDE DEF next
<1>4. step \in [(1..N) \X ViewPaths -> ViewPaths]
  BY <1>2
<1>5. PICK f : Solves(f, ViewPaths, p, N, step)
  <2> HIDE DEF step, N
  <2> QED BY <1>1, <1>4, Recursion
<1>6. \A n \in 1..N : f[n] = next[f[n - 1]]
  <2> SUFFICES ASSUME NEW n \in 1..N PROVE f[n] = next[f[n - 1]]
    OBVIOUS
  <2>1. <<n, f[n - 1]>> \in (1..N) \X ViewPaths
    BY <1>1, <1>5 DEF Solves
  <2>2. step[<<n, f[n - 1]>>] = next[f[n - 1]]
    BY <2>1
  <2> QED BY <1>5, <2>2 DEF Solves
<1> HIDE DEF step
<1>7. Is(f)
  BY <1>1, <1>5, <1>6 DEF Solves
<1>8. Is(up)
  <2> HIDE DEF Is
  <2> QED BY <1>7
<1> HIDE DEF up
<1>9. up[0] = p /\ \A n \in 1..N : up[n] = next[up[n - 1]]
  BY <1>1, <1>8
<1>10. up = [n \in 0..N |-> up[n]]
  BY <1>8
<1>11. \A n \in 0..N : up[n] \in ViewPaths
  <2> DEFINE G == {n \in 0..N : up[n] \in ViewPaths}
  <2> HIDE DEF Is
  <2>1. 0 \in G
    BY <1>1, <1>9
  <2>2. ASSUME NEW n \in 1..N, n - 1 \in G PROVE n \in G
    BY <1>1, <1>2, <1>9, <2>2
  <2>3. 0..N \subseteq G
    <3> HIDE DEF G, N
    <3> QED BY <1>1, <2>1, <2>2, Induction
  <2> QED BY <2>3
<1>12. up \in [0..N -> ViewPaths]
  <2> HIDE DEF Is
  <2> QED BY <1>10, <1>11
<1>13. \A n \in 1..N : up[n] = Parent(par, up[n - 1])
  BY <1>1, <1>2, <1>9, <1>11
<1> QED BY <1>3, <1>9, <1>12, <1>13

\* What no step of a chain changes is the same at its root.
LEMMA RootKeeps ==
    ASSUME NEW par \in ParentMaps, NEW p \in ViewPaths, NEW G \in SUBSET ViewPaths,
           p \in G, \A q \in G : Parent(par, q) \in G
    PROVE  FindRoot(par, p) \in G
<1> DEFINE N == Len(PathSeq)
           u == Chain(par, p)
           H == {n \in 0..N : u[n] \in G}
<1>1. N \in Nat /\ u[0] = p /\ \A n \in 1..N : n - 1 \in 0..N /\ u[n] = Parent(par, u[n - 1])
  BY PathsAre, ChainIs
<1> HIDE DEF u
<1>2. 0 \in H
  BY <1>1
<1>3. ASSUME NEW n \in 1..N, n - 1 \in H PROVE n \in H
  BY <1>1, <1>3
<1>4. 0..N \subseteq H
  <2> HIDE DEF H, N
  <2> QED BY <1>1, <1>2, <1>3, Induction
<1> QED BY <1>1, <1>4 DEF FindRoot, u

\* In a forest the chain of a path ends in a root, which no path lies above.
LEMMA RootIs ==
    ASSUME NEW par \in ParentMaps, NEW height \in [ViewPaths -> Nat], Below(par, height),
           NEW p \in ViewPaths
    PROVE  /\ FindRoot(par, p) \in ViewPaths
           /\ Parent(par, FindRoot(par, p)) = FindRoot(par, p)
           /\ FindRoot(par, p) = p \/ height[p] < height[FindRoot(par, p)]
<1> DEFINE N == Len(PathSeq)
           u == Chain(par, p)
<1>1. /\ N \in Nat /\ u \in [0..N -> ViewPaths]
      /\ \A n \in 1..N : n - 1 \in 0..N /\ u[n] = Parent(par, u[n - 1])
  BY PathsAre, ChainIs
<1>2. FindRoot(par, p) = u[N] /\ u[N] \in ViewPaths
  BY <1>1 DEF FindRoot
<1> HIDE DEF u
<1>3. ASSUME Parent(par, u[N]) # u[N] PROVE FALSE
  <2> DEFINE H == {n \in 0..N : \A k \in 0..n : Parent(par, u[k]) = u[k] => u[n] = u[k]}
             J == {n \in 0..N : \A k \in 0..n : k # n => height[u[k]] < height[u[n]]}
  <2>1. 0 \in H /\ 0 \in J
    BY <1>1
  <2>2. ASSUME NEW n \in 1..N, n - 1 \in H PROVE n \in H
    <3> SUFFICES ASSUME NEW k \in 0..n, Parent(par, u[k]) = u[k] PROVE u[n] = u[k]
      BY <1>1
    <3>1. CASE k = n
      BY <3>1
    <3>2. CASE k # n
      <4>1. k \in 0..n - 1
        BY <1>1, <3>2
      <4>2. u[n - 1] = u[k]
        BY <2>2, <4>1
      <4> QED BY <1>1, <4>2
    <3> QED BY <3>1, <3>2
  <2>3. 0..N \subseteq H
    <3> HIDE DEF H, N
    <3> QED BY <1>1, <2>1, <2>2, Induction
  <2>4. \A k \in 0..N : Parent(par, u[k]) # u[k]
    <3> SUFFICES ASSUME NEW k \in 0..N, Parent(par, u[k]) = u[k] PROVE FALSE
      OBVIOUS
    <3>1. N \in H /\ k \in 0..N
      BY <1>1, <2>3
    <3>2. u[N] = u[k]
      BY <3>1
    <3> QED BY <1>3, <3>2
  <2> HIDE DEF H
  <2>5. ASSUME NEW n \in 1..N, n - 1 \in J PROVE n \in J
    <3> SUFFICES ASSUME NEW k \in 0..n, k # n PROVE height[u[k]] < height[u[n]]
      BY <1>1
    <3>1. n - 1 \in 0..N /\ k \in 0..n - 1 /\ k \in 0..N
      BY <1>1
    <3>2. height[u[n - 1]] < height[u[n]]
      BY <1>1, <2>4, <3>1 DEF Below
    <3>3. k = n - 1 \/ height[u[k]] < height[u[n - 1]]
      BY <2>5, <3>1
    <3>4. {height[u[k]], height[u[n - 1]], height[u[n]]} \subseteq Nat
      BY <1>1, <3>1
    <3> QED BY <3>2, <3>3, <3>4
  <2>6. 0..N \subseteq J
    <3> HIDE DEF J, N
    <3> QED BY <1>1, <2>1, <2>5, Induction
  <2>7. \A x, y \in 0..N : x # y => u[x] # u[y]
    <3> SUFFICES ASSUME NEW x \in 0..N, NEW y \in 0..N, x < y PROVE u[x] # u[y]
      BY <1>1
    <3>1. y \in J
      BY <2>6
    <3>2. x \in 0..y /\ x # y
      BY <1>1
    <3>3. height[u[x]] < height[u[y]] /\ height[u[x]] \in Nat
      BY <1>1, <3>1, <3>2
    <3> QED BY <3>3
  <2>8. IsFiniteSet(0..N) /\ Cardinality(0..N) = N + 1
    BY <1>1, FS_Interval
  <2>9. IsFiniteSet(ViewPaths) /\ Cardinality(ViewPaths) < Cardinality(0..N)
    BY <1>1, <2>8, PathsAre, FS_CardinalityType
  <2>10. \E x, y \in 0..N : x # y /\ u[x] = u[y]
    <3> HIDE DEF J, N
    <3> QED BY <1>1, <2>8, <2>9, FS_PigeonHole
  <2> QED BY <2>7, <2>10
<1>4. u[N] = p \/ height[p] < height[u[N]]
  <2> DEFINE G == {q \in ViewPaths : q = p \/ height[p] < height[q]}
  <2>1. ASSUME NEW q \in G PROVE Parent(par, q) \in G
    <3>1. Parent(par, q) \in ViewPaths /\ (Parent(par, q) = q \/ height[q] < height[Parent(par, q)])
      BY ParentIs DEF Below
    <3>2. {height[p], height[q], height[Parent(par, q)]} \subseteq Nat
      BY <3>1
    <3> QED BY <3>1, <3>2
  <2>2. G \in SUBSET ViewPaths /\ p \in G
    OBVIOUS
  <2>3. FindRoot(par, p) \in G
    <3> HIDE DEF G
    <3> QED BY <2>1, <2>2, RootKeeps
  <2> QED BY <1>2, <2>3
<1> QED BY <1>2, <1>3, <1>4

\* A map that is the same for a path and its parent, and leaves the roots as
\* they are, gives each path its root.
LEMMA RootOnly ==
    ASSUME NEW par \in ParentMaps, Forest(par), NEW f,
           \A q \in ViewPaths : f[Parent(par, q)] = f[q],
           \A q \in ViewPaths : Parent(par, q) = q => f[q] = q
    PROVE  \A p \in ViewPaths : FindRoot(par, p) = f[p]
<1> SUFFICES ASSUME NEW p \in ViewPaths PROVE FindRoot(par, p) = f[p]
  OBVIOUS
<1>1. PICK height \in [ViewPaths -> Nat] : Below(par, height)
  BY DEF Forest
<1>2. FindRoot(par, p) \in ViewPaths /\ Parent(par, FindRoot(par, p)) = FindRoot(par, p)
  BY <1>1, RootIs
<1> DEFINE G == {q \in ViewPaths : f[q] = f[p]}
<1>3. G \in SUBSET ViewPaths /\ p \in G /\ \A q \in G : Parent(par, q) \in G
  BY ParentIs
<1>4. FindRoot(par, p) \in G
  <2> HIDE DEF G
  <2> QED BY <1>3, RootKeeps
<1> QED BY <1>2, <1>4

\* The root of a path is the root of its parent; a root is its own.
LEMMA RootOfParent ==
    ASSUME NEW par \in ParentMaps, NEW p \in ViewPaths
    PROVE  /\ Parent(par, p) = p => FindRoot(par, p) = p
           /\ Forest(par) => FindRoot(par, Parent(par, p)) = FindRoot(par, p)
<1>1. ASSUME Parent(par, p) = p PROVE FindRoot(par, p) = p
  <2> DEFINE G == {p}
  <2>1. G \in SUBSET ViewPaths /\ p \in G /\ \A q \in G : Parent(par, q) \in G
    BY <1>1
  <2>2. FindRoot(par, p) \in G
    <3> HIDE DEF G
    <3> QED BY <2>1, RootKeeps
  <2> QED BY <2>2
<1>2. ASSUME Forest(par) PROVE FindRoot(par, Parent(par, p)) = FindRoot(par, p)
  <2> DEFINE N == Len(PathSeq)
             q == Parent(par, p)
             u == Chain(par, p)
             v == Chain(par, q)
             H == {n \in 0..N : v[n] = Parent(par, u[n])}
  <2>1. N \in Nat /\ q \in ViewPaths
    BY PathsAre, ParentIs
  <2>2. u[0] = p /\ \A n \in 1..N : n - 1 \in 0..N /\ u[n] = Parent(par, u[n - 1])
    BY <2>1, ChainIs
  <2>3. v[0] = q /\ \A n \in 1..N : v[n] = Parent(par, v[n - 1])
    BY <2>1, ChainIs
  <2> HIDE DEF u, v
  <2>4. 0 \in H
    BY <2>1, <2>2, <2>3
  <2>5. ASSUME NEW n \in 1..N, n - 1 \in H PROVE n \in H
    BY <2>1, <2>2, <2>3, <2>5
  <2>6. 0..N \subseteq H
    <3> HIDE DEF H, N
    <3> QED BY <2>1, <2>4, <2>5, Induction
  <2>7. FindRoot(par, q) = Parent(par, FindRoot(par, p))
    BY <2>1, <2>6 DEF FindRoot, u, v
  <2>8. PICK height \in [ViewPaths -> Nat] : Below(par, height)
    BY <1>2 DEF Forest
  <2> QED BY <2>7, <2>8, RootIs
<1> QED BY <1>1, <1>2

\* One map of parents keeps the roots of another.
SameRoots(par, other) == \A p \in ViewPaths : FindRoot(other, p) = FindRoot(par, p)

\* A map in which every path lies below itself, its parent or its root has the same roots.
LEMMA ShortCut ==
    ASSUME NEW par \in ParentMaps, Forest(par), NEW other \in ParentMaps,
           \A p \in ViewPaths : Parent(other, p) \in {Parent(par, p), FindRoot(par, p)}
    PROVE  Forest(other) /\ SameRoots(par, other)
<1>1. PICK height \in [ViewPaths -> Nat] : Below(par, height)
  BY DEF Forest
<1>2. \A p \in ViewPaths : /\ FindRoot(par, p) \in ViewPaths
                           /\ Parent(par, FindRoot(par, p)) = FindRoot(par, p)
                           /\ FindRoot(par, p) = p \/ height[p] < height[FindRoot(par, p)]
  BY <1>1, RootIs
<1>3. \A p \in ViewPaths : /\ Parent(par, p) = p => FindRoot(par, p) = p
                           /\ FindRoot(par, Parent(par, p)) = FindRoot(par, p)
  BY RootOfParent
<1>4. Below(other, height)
  BY <1>1, <1>2 DEF Below
<1>5. Forest(other)
  BY <1>4 DEF Forest
<1> DEFINE f == [p \in ViewPaths |-> FindRoot(par, p)]
<1>6. \A p \in ViewPaths : f[Parent(other, p)] = f[p]
  <2> SUFFICES ASSUME NEW p \in ViewPaths PROVE f[Parent(other, p)] = f[p]
    OBVIOUS
  <2>1. Parent(par, p) \in ViewPaths /\ FindRoot(par, p) \in ViewPaths
    BY <1>2, ParentIs
  <2>2. FindRoot(par, FindRoot(par, p)) = FindRoot(par, p)
    BY <1>2, <1>3
  <2>3. FindRoot(par, Parent(par, p)) = FindRoot(par, p)
    BY <1>3
  <2> QED BY <2>1, <2>2, <2>3
<1>7. ASSUME NEW p \in ViewPaths, Parent(other, p) = p PROVE f[p] = p
  <2>1. Parent(par, p) = p \/ FindRoot(par, p) = p
    BY <1>7
  <2> QED BY <1>3, <2>1
<1>8. \A p \in ViewPaths : FindRoot(other, p) = f[p]
  <2> HIDE DEF f
  <2> QED BY <1>5, <1>6, <1>7, RootOnly
<1> QED BY <1>5, <1>8 DEF SameRoots

\* The parent of a path that is held is held.
Closed(par) == \A p \in ViewPaths : par[p] # NoPath => par[par[p]] # NoPath

\* addMatch makes a map of parents of one.
LEMMA JoinedIsMap ==
    ASSUME NEW par \in ParentMaps, NEW l \in ViewPaths, NEW r \in ViewPaths
    PROVE  Joined(par, l, r) \in ParentMaps
<1> DEFINE entered == [p \in ViewPaths |-> IF p \in {l, r} /\ par[p] = NoPath THEN p ELSE par[p]]
<1>1. entered \in ParentMaps
  BY DEF ParentMaps
<1>2. \A p \in ViewPaths : FindRoot(entered, p) \in ViewPaths
  <2> HIDE DEF entered
  <2> QED BY <1>1, RootKeeps, ParentIs
<1>3. Joined(par, l, r) =
        LET flat == [entered EXCEPT ![l] = FindRoot(entered, l), ![r] = FindRoot(entered, r)]
        IN  IF FindRoot(entered, l) = FindRoot(entered, r) THEN flat
            ELSE [flat EXCEPT ![FindRoot(entered, r)] = FindRoot(entered, l)]
  BY DEF Joined
<1> HIDE DEF entered
<1> QED BY <1>1, <1>2, <1>3 DEF ParentMaps

\* addMatch joins the two trees and leaves the others as they are.
LEMMA JoinedIs ==
    ASSUME NEW par \in ParentMaps, Forest(par),
           NEW l \in ViewPaths, NEW r \in ViewPaths, l # r
    PROVE  LET joined == Joined(par, l, r)
           IN  /\ joined \in ParentMaps /\ Forest(joined)
               /\ Closed(par) =>
                    /\ Closed(joined)
                    /\ \A p \in ViewPaths : joined[p] # NoPath <=> par[p] # NoPath \/ p \in {l, r}
               /\ \A p \in ViewPaths :
                    FindRoot(joined, p) = IF FindRoot(par, p) = FindRoot(par, r) THEN FindRoot(par, l)
                                          ELSE FindRoot(par, p)
<1> DEFINE entered == [p \in ViewPaths |-> IF p \in {l, r} /\ par[p] = NoPath THEN p ELSE par[p]]
           rl == FindRoot(entered, l)
           rr == FindRoot(entered, r)
           flat == [entered EXCEPT ![l] = rl, ![r] = rr]
           joined == IF rl = rr THEN flat ELSE [flat EXCEPT ![rr] = rl]
<1>1. NoPath \notin ViewPaths
  BY PathsAre
<1>2. /\ entered \in ParentMaps
      /\ \A p \in ViewPaths : Parent(entered, p) = Parent(par, p)
      /\ \A p \in ViewPaths : entered[p] = NoPath <=> par[p] = NoPath /\ p \notin {l, r}
  BY <1>1 DEF ParentMaps, Parent
<1> HIDE DEF entered
<1>3. Forest(entered) /\ SameRoots(par, entered)
  BY <1>2, ShortCut
<1>4. \A p \in ViewPaths : FindRoot(entered, p) \in ViewPaths
                           /\ Parent(entered, FindRoot(entered, p)) = FindRoot(entered, p)
  BY <1>2, <1>3, RootIs DEF Forest
<1>5. rl \in ViewPaths /\ rr \in ViewPaths
  BY <1>4
<1>6. /\ flat \in ParentMaps
      /\ \A p \in ViewPaths : flat[p] = IF p = l THEN rl ELSE IF p = r THEN rr ELSE entered[p]
  BY <1>2, <1>5 DEF ParentMaps
<1> HIDE DEF flat
<1>7. \A p \in ViewPaths : Parent(flat, p) \in {Parent(entered, p), FindRoot(entered, p)}
  <2> SUFFICES ASSUME NEW p \in ViewPaths
               PROVE Parent(flat, p) \in {Parent(entered, p), FindRoot(entered, p)}
    OBVIOUS
  <2>1. CASE p = l
    BY <1>1, <1>5, <1>6, <2>1 DEF Parent
  <2>2. CASE p # l /\ p = r
    BY <1>1, <1>5, <1>6, <2>2 DEF Parent
  <2>3. CASE p # l /\ p # r
    BY <1>6, <2>3 DEF Parent
  <2> QED BY <2>1, <2>2, <2>3
<1>8. Forest(flat) /\ SameRoots(entered, flat)
  BY <1>2, <1>3, <1>6, <1>7, ShortCut
<1>9. \A p \in ViewPaths : FindRoot(flat, p) = FindRoot(par, p)
  BY <1>3, <1>8 DEF SameRoots
<1>10. rl = FindRoot(par, l) /\ rr = FindRoot(par, r)
  BY <1>3 DEF SameRoots
<1> DEFINE held == {p \in ViewPaths : entered[p] # NoPath}
<1>11. ASSUME Closed(par)
       PROVE  /\ rl \in held /\ rr \in held
              /\ \A p \in ViewPaths : flat[p] # NoPath <=> p \in held
              /\ \A p \in held : flat[p] \in held
              /\ \A p \in ViewPaths : p \in held <=> par[p] # NoPath \/ p \in {l, r}
  <2>1. \A p \in ViewPaths : p \in held <=> par[p] # NoPath \/ p \in {l, r}
    BY <1>2
  <2>2. ASSUME NEW p \in held PROVE Parent(entered, p) \in held
    <3>1. p \in ViewPaths /\ Parent(par, p) \in ViewPaths /\ Parent(entered, p) = Parent(par, p)
      BY <1>2, ParentIs
    <3>2. CASE par[p] = NoPath
      BY <2>2, <3>1, <3>2 DEF Parent
    <3>3. CASE par[p] # NoPath
      BY <1>11, <2>1, <3>1, <3>3 DEF Parent, Closed
    <3> QED BY <3>2, <3>3
  <2>3. held \in SUBSET ViewPaths /\ l \in held /\ r \in held
    BY <1>2
  <2> HIDE DEF held
  <2>4. rl \in held /\ rr \in held
    BY <1>2, <2>2, <2>3, RootKeeps
  <2>5. \A p \in held : entered[p] = Parent(entered, p)
    BY DEF held, Parent
  <2>6. \A p \in held : flat[p] \in held
    BY <1>6, <2>2, <2>3, <2>4, <2>5
  <2>7. \A p \in ViewPaths : flat[p] # NoPath <=> p \in held
    <3>1. \A p \in ViewPaths : p \in held <=> entered[p] # NoPath
      BY DEF held
    <3> QED BY <1>1, <1>5, <1>6, <2>3, <3>1
  <2> QED BY <2>1, <2>4, <2>6, <2>7
<1> HIDE DEF held
<1>12. Joined(par, l, r) = joined
  BY DEF Joined, entered, flat
<1>13. CASE rl = rr
  <2>1. joined = flat
    BY <1>13
  <2>2. Closed(par) => /\ Closed(flat)
                       /\ \A p \in ViewPaths : flat[p] # NoPath <=> par[p] # NoPath \/ p \in {l, r}
    BY <1>11 DEF Closed, held
  <2> QED BY <1>6, <1>8, <1>9, <1>10, <1>12, <1>13, <2>1, <2>2
<1>14. CASE rl # rr
  <2> DEFINE below == [flat EXCEPT ![rr] = rl]
             f == [p \in ViewPaths |-> IF FindRoot(flat, p) = rr THEN rl ELSE FindRoot(flat, p)]
  <2>1. joined = below
    BY <1>14
  <2>2. /\ below \in ParentMaps
        /\ \A p \in ViewPaths : below[p] = IF p = rr THEN rl ELSE flat[p]
    BY <1>5, <1>6 DEF ParentMaps
  <2> HIDE DEF below
  <2>3. \A p \in ViewPaths : Parent(below, p) = IF p = rr THEN rl ELSE Parent(flat, p)
    BY <1>1, <1>5, <2>2 DEF Parent
  <2>4. PICK height \in [ViewPaths -> Nat] : Below(flat, height)
    BY <1>8 DEF Forest
  <2>5. \A p \in ViewPaths : FindRoot(flat, p) \in ViewPaths
                             /\ Parent(flat, FindRoot(flat, p)) = FindRoot(flat, p)
    BY <1>6, <2>4, RootIs
  <2>6. Parent(flat, rl) = rl /\ Parent(flat, rr) = rr
    <3>1. rl = FindRoot(flat, l) /\ rr = FindRoot(flat, r)
      BY <1>9, <1>10
    <3> QED BY <2>5, <3>1
  <2>7. FindRoot(flat, rl) = rl /\ FindRoot(flat, rr) = rr
    BY <1>5, <1>6, <2>6, RootOfParent
  <2>8. Forest(below)
    <3> DEFINE taller == [p \in ViewPaths |-> IF p = rl THEN height[rl] + height[rr] + 1 ELSE height[p]]
    <3>1. \A p \in ViewPaths : height[p] \in Nat
      OBVIOUS
    <3>2. taller \in [ViewPaths -> Nat] /\ \A p \in ViewPaths : height[p] <= taller[p]
      BY <1>5, <3>1
    <3>3. ASSUME NEW p \in ViewPaths PROVE Parent(below, p) = p \/ taller[p] < taller[Parent(below, p)]
      <4>1. CASE p = rr
        <5>1. Parent(below, p) = rl /\ taller[p] = height[rr] /\ taller[rl] = height[rl] + height[rr] + 1
          BY <1>5, <1>14, <2>3, <4>1
        <5> QED BY <1>5, <3>1, <5>1
      <4>2. CASE p = rl
        BY <1>14, <2>3, <2>6, <4>2
      <4>3. CASE p # rr /\ p # rl
        <5>1. Parent(below, p) = Parent(flat, p) /\ taller[p] = height[p] /\ Parent(flat, p) \in ViewPaths
          BY <1>6, <2>3, <4>3, ParentIs
        <5>2. Parent(flat, p) = p \/ height[p] < height[Parent(flat, p)]
          BY <2>4 DEF Below
        <5>3. height[Parent(flat, p)] <= taller[Parent(flat, p)]
          BY <3>2, <5>1
        <5>4. {height[p], height[Parent(flat, p)], taller[Parent(flat, p)]} \subseteq Nat
          BY <3>1, <3>2, <5>1
        <5> HIDE DEF taller
        <5> QED BY <5>1, <5>2, <5>3, <5>4
      <4> QED BY <4>1, <4>2, <4>3
    <3> HIDE DEF taller
    <3> QED BY <3>2, <3>3 DEF Forest, Below
  <2>9. \A p \in ViewPaths : f[Parent(below, p)] = f[p]
    <3> SUFFICES ASSUME NEW p \in ViewPaths PROVE f[Parent(below, p)] = f[p]
      OBVIOUS
    <3>1. CASE p = rr
      <4>1. Parent(below, p) = rl /\ f[rl] = rl /\ f[rr] = rl
        BY <1>5, <1>14, <2>3, <2>7, <3>1
      <4> QED BY <3>1, <4>1
    <3>2. CASE p # rr
      <4>1. Parent(below, p) = Parent(flat, p) /\ Parent(flat, p) \in ViewPaths
        BY <1>6, <2>3, <3>2, ParentIs
      <4>2. FindRoot(flat, Parent(flat, p)) = FindRoot(flat, p)
        BY <1>6, <1>8, RootOfParent
      <4> QED BY <4>1, <4>2
    <3> QED BY <3>1, <3>2
  <2>10. ASSUME NEW p \in ViewPaths, Parent(below, p) = p PROVE f[p] = p
    <3>1. p # rr /\ Parent(flat, p) = p
      BY <1>14, <2>3, <2>10
    <3>2. FindRoot(flat, p) = p
      BY <1>6, <3>1, RootOfParent
    <3> QED BY <3>1, <3>2
  <2>11. \A p \in ViewPaths : FindRoot(below, p) = f[p]
    <3> HIDE DEF f
    <3> QED BY <2>2, <2>8, <2>9, <2>10, RootOnly
  <2>12. \A p \in ViewPaths : FindRoot(below, p) = IF FindRoot(par, p) = rr THEN rl ELSE FindRoot(par, p)
    BY <1>9, <2>11
  <2>13. ASSUME Closed(par)
         PROVE  /\ Closed(below)
                /\ \A p \in ViewPaths : below[p] # NoPath <=> par[p] # NoPath \/ p \in {l, r}
    <3>1. held \subseteq ViewPaths
      BY DEF held
    <3>2. \A p \in ViewPaths : below[p] # NoPath <=> p \in held
      BY <1>1, <1>5, <1>11, <2>2, <2>13
    <3>3. \A p \in held : below[p] \in held
      BY <1>11, <2>2, <2>13, <3>1
    <3> QED BY <1>11, <2>13, <3>1, <3>2, <3>3 DEF Closed
  <2> QED BY <1>10, <1>12, <2>1, <2>2, <2>8, <2>12, <2>13
<1> QED BY <1>12, <1>13, <1>14

\* findRoot on every path makes the trees flat and keeps their roots.
LEMMA CompressedIs ==
    ASSUME NEW par \in ParentMaps
    PROVE  LET at == Compressed(par)
           IN  /\ at \in ParentMaps
               /\ \A p \in ViewPaths : /\ at[p] = NoPath <=> par[p] = NoPath
                                       /\ par[p] # NoPath => at[p] = FindRoot(par, p)
               /\ Forest(par) => Forest(at) /\ SameRoots(par, at)
               /\ Closed(par) => Closed(at)
<1> DEFINE at == Compressed(par)
<1>1. \A p \in ViewPaths : FindRoot(par, p) \in ViewPaths
  <2> SUFFICES ASSUME NEW p \in ViewPaths PROVE FindRoot(par, p) \in ViewPaths
    OBVIOUS
  <2> QED BY RootKeeps, ParentIs
<1>2. /\ at \in ParentMaps
      /\ \A p \in ViewPaths : /\ at[p] = NoPath <=> par[p] = NoPath
                              /\ par[p] # NoPath => at[p] = FindRoot(par, p)
  BY <1>1, PathsAre DEF Compressed, ParentMaps
<1> HIDE DEF at
<1>3. ASSUME Forest(par) PROVE Forest(at) /\ SameRoots(par, at)
  <2>1. \A p \in ViewPaths : Parent(at, p) \in {Parent(par, p), FindRoot(par, p)}
    BY <1>2 DEF Parent
  <2> QED BY <1>2, <1>3, <2>1, ShortCut
<1>4. ASSUME Closed(par) PROVE Closed(at)
  <2> DEFINE held == {p \in ViewPaths : par[p] # NoPath}
  <2>1. ASSUME NEW p \in held PROVE Parent(par, p) \in held
    BY <1>4, ParentIs DEF Closed
  <2>2. ASSUME NEW p \in held PROVE FindRoot(par, p) \in held
    <3>1. held \in SUBSET ViewPaths
      OBVIOUS
    <3> HIDE DEF held
    <3> QED BY <2>1, <2>2, <3>1, RootKeeps
  <2> QED BY <1>2, <2>2 DEF Closed
<1> QED BY <1>2, <1>3, <1>4 DEF at

-----------------------------------------------------------------------------
(* The groups are the classes of the matches.                                *)

\* A set of paths that no match leaves.
Respects(U, seen) == \A m \in seen : m[1] \in U <=> m[2] \in U

\* The trees hold the paths of the matches, those of a match in one tree, and nothing else; no
\* tree leaves a set that the matches do not leave.
Grown(par, seen) ==
    /\ Forest(par) /\ Closed(par)
    /\ \A m \in seen : /\ par[m[1]] # NoPath /\ par[m[2]] # NoPath
                       /\ FindRoot(par, m[1]) = FindRoot(par, m[2])
    /\ \A p \in ViewPaths : par[p] # NoPath => \E m \in seen : p \in {m[1], m[2]}
    /\ \A U \in SUBSET ViewPaths :
            Respects(U, seen) => \A p \in ViewPaths : p \in U <=> FindRoot(par, p) \in U

\* A match that is added makes the trees grow by it.
LEMMA GrownJoined ==
    ASSUME NEW par \in ParentMaps, NEW seen \in SUBSET StreamMatches, Grown(par, seen),
           NEW m \in StreamMatches
    PROVE  Grown(Joined(par, m[1], m[2]), seen \cup {m})
<1> DEFINE joined == Joined(par, m[1], m[2])
<1>1. \A x \in StreamMatches : x[1] \in ViewPaths /\ x[2] \in ViewPaths /\ x[1] # x[2]
  BY ViewAssumption
<1>2. Forest(par) /\ Closed(par)
  BY DEF Grown
<1>3. /\ joined \in ParentMaps /\ Forest(joined) /\ Closed(joined)
      /\ \A p \in ViewPaths : joined[p] # NoPath <=> par[p] # NoPath \/ p \in {m[1], m[2]}
      /\ \A p \in ViewPaths :
            FindRoot(joined, p) = IF FindRoot(par, p) = FindRoot(par, m[2]) THEN FindRoot(par, m[1])
                                  ELSE FindRoot(par, p)
  BY <1>1, <1>2, JoinedIs
<1> HIDE DEF joined
<1>4. ASSUME NEW x \in seen \cup {m}
      PROVE  joined[x[1]] # NoPath /\ joined[x[2]] # NoPath /\ FindRoot(joined, x[1]) = FindRoot(joined, x[2])
  <2>1. CASE x = m
    BY <1>1, <1>3, <2>1
  <2>2. CASE x \in seen
    <3>1. par[x[1]] # NoPath /\ par[x[2]] # NoPath /\ FindRoot(par, x[1]) = FindRoot(par, x[2])
      BY <2>2 DEF Grown
    <3> QED BY <1>1, <1>3, <2>2, <3>1
  <2> QED BY <1>4, <2>1, <2>2
<1>5. ASSUME NEW p \in ViewPaths, joined[p] # NoPath
      PROVE  \E x \in seen \cup {m} : p \in {x[1], x[2]}
  BY <1>3, <1>5 DEF Grown
<1>6. ASSUME NEW U \in SUBSET ViewPaths, Respects(U, seen \cup {m}), NEW p \in ViewPaths
      PROVE  p \in U <=> FindRoot(joined, p) \in U
  <2>1. Respects(U, seen) /\ (m[1] \in U <=> m[2] \in U)
    BY <1>6 DEF Respects
  <2>2. \A q \in ViewPaths : q \in U <=> FindRoot(par, q) \in U
    BY <2>1 DEF Grown
  <2>3. FindRoot(par, m[1]) \in U <=> FindRoot(par, m[2]) \in U
    BY <1>1, <2>1, <2>2
  <2> QED BY <1>3, <2>2, <2>3
<1>7. Grown(joined, seen \cup {m})
  BY <1>3, <1>4, <1>5, <1>6 DEF Grown
<1> QED BY <1>7 DEF joined

\* So do flat trees.
LEMMA GrownCompressed ==
    ASSUME NEW par \in ParentMaps, NEW seen \in SUBSET StreamMatches, Grown(par, seen)
    PROVE  Grown(Compressed(par), seen)
<1> DEFINE at == Compressed(par)
<1>1. \A x \in seen : x[1] \in ViewPaths /\ x[2] \in ViewPaths
  BY ViewAssumption
<1>2. Forest(par) /\ Closed(par)
  BY DEF Grown
<1>3. /\ \A p \in ViewPaths : at[p] = NoPath <=> par[p] = NoPath
      /\ Forest(at) /\ Closed(at) /\ \A p \in ViewPaths : FindRoot(at, p) = FindRoot(par, p)
  BY <1>2, CompressedIs DEF SameRoots
<1> HIDE DEF at
<1>4. Grown(at, seen)
  BY <1>1, <1>3 DEF Grown
<1> QED BY <1>4 DEF at

\* The order of the list has each root once.
LEMMA ListOrderIs ==
    ASSUME NEW roots \in SUBSET ViewPaths, NEW order \in Seq(ViewPaths), IsInjective(order)
    PROVE  /\ ListOrder(roots, order) \in Seq(ViewPaths)
           /\ Range(ListOrder(roots, order)) = roots
           /\ IsInjective(ListOrder(roots, order))
<1> DEFINE a == Picked(order, roots)
           b == Picked(PathSeq, roots \ Range(order))
           r == a \o b
<1>1. a \in Seq(ViewPaths) /\ Range(a) = Range(order) \cap roots /\ IsInjective(a)
  BY PickedIs
<1>2. b \in Seq(ViewPaths) /\ Range(b) = roots \ Range(order) /\ IsInjective(b)
  <2>1. PathSeq \in Seq(ViewPaths) /\ IsInjective(PathSeq)
    BY ViewAssumption
  <2>2. b \in Seq(ViewPaths) /\ Range(b) = Range(PathSeq) \cap (roots \ Range(order)) /\ IsInjective(b)
    BY <2>1, PickedIs
  <2> QED BY <2>2 DEF ViewPaths
<1>3. ListOrder(roots, order) = r
  BY DEF ListOrder
<1> HIDE DEF a, b
<1>4. /\ r \in Seq(ViewPaths) /\ Len(r) = Len(a) + Len(b)
      /\ \A i \in 1..Len(a) + Len(b) : r[i] = IF i <= Len(a) THEN a[i] ELSE b[i - Len(a)]
  BY <1>1, <1>2, ConcatProperties
<1>5. /\ Len(a) \in Nat /\ DOMAIN a = 1..Len(a) /\ Len(b) \in Nat /\ DOMAIN b = 1..Len(b)
      /\ DOMAIN r = 1..Len(a) + Len(b)
  BY <1>1, <1>2, <1>4, LenProperties
<1> HIDE DEF r
<1>6. \A i \in DOMAIN r : \/ i \in DOMAIN a /\ r[i] = a[i]
                          \/ i > Len(a) /\ i - Len(a) \in DOMAIN b /\ r[i] = b[i - Len(a)]
  BY <1>4, <1>5
<1>7. Range(r) = roots
  <2>1. ASSUME NEW v \in Range(r) PROVE v \in roots
    <3>1. v \in Range(a) \/ v \in Range(b)
      BY <1>6 DEF Range
    <3> QED BY <1>1, <1>2, <3>1
  <2>2. ASSUME NEW v \in roots PROVE v \in Range(r)
    <3>1. CASE v \in Range(a)
      <4>1. PICK i \in DOMAIN a : a[i] = v
        BY <3>1 DEF Range
      <4>2. i \in DOMAIN r /\ r[i] = v
        BY <1>4, <1>5, <4>1
      <4> QED BY <4>2 DEF Range
    <3>2. CASE v \in Range(b)
      <4>1. PICK i \in DOMAIN b : b[i] = v
        BY <3>2 DEF Range
      <4>2. Len(a) + i \in DOMAIN r /\ r[Len(a) + i] = v
        BY <1>4, <1>5, <4>1
      <4> QED BY <4>2 DEF Range
    <3> QED BY <1>1, <1>2, <2>2, <3>1, <3>2
  <2> QED BY <2>1, <2>2
<1>8. IsInjective(r)
  <2> SUFFICES ASSUME NEW i \in DOMAIN r, NEW j \in DOMAIN r, r[i] = r[j] PROVE i = j
    BY DEF IsInjective
  <2>1. Range(a) \cap Range(b) = {}
    BY <1>1, <1>2
  <2>2. \A x \in DOMAIN a, y \in DOMAIN b : a[x] # b[y]
    BY <2>1 DEF Range
  <2>3. /\ \A x, y \in DOMAIN a : a[x] = a[y] => x = y
        /\ \A x, y \in DOMAIN b : b[x] = b[y] => x = y
    BY <1>1, <1>2 DEF IsInjective
  <2>4. i \in Nat /\ j \in Nat /\ Len(a) \in Nat
    BY <1>5
  <2> QED BY <1>6, <2>2, <2>3, <2>4
<1> QED BY <1>3, <1>4, <1>7, <1>8

\* What pathKind_ may hold.
KindMaps == [ViewPaths -> Kinds \cup {NoKind}]

\* A group has the members of a tree, two at least, each once, and a tab.
LEMMA GroupIs ==
    ASSUME NEW at, NEW pct, NEW kd \in KindMaps, NEW root \in GroupRoots(at)
    PROVE  LET g == Group(at, pct, kd, root)
           IN  /\ g.root = root /\ g.kind \in Kinds
               /\ g.paths \in Seq(ViewPaths) /\ Len(g.paths) >= 2 /\ IsInjective(g.paths)
               /\ Range(g.paths) = Members(at, root)
<1> DEFINE ms == Ordered(Members(at, root), pct)
<1>1. Members(at, root) \in SUBSET ViewPaths /\ Cardinality(Members(at, root)) >= 2
  BY DEF Members, GroupRoots
<1>2. ms \in Seq(ViewPaths) /\ Range(ms) = Members(at, root) /\ IsInjective(ms)
  BY <1>1, OrderedIs
<1>3. /\ Group(at, pct, kd, root).root = root /\ Group(at, pct, kd, root).paths = ms
      /\ Group(at, pct, kd, root).kind = TabOf(kd, ms[1])
  BY DEF Group
<1> HIDE DEF ms
<1>4. Len(ms) \in Nat /\ DOMAIN ms = 1..Len(ms)
  BY <1>2, LenProperties
<1>5. ms \in Surjection(1..Len(ms), Members(at, root))
  <2>1. \A i \in 1..Len(ms) : ms[i] \in Members(at, root)
    BY <1>2, <1>4 DEF Range
  <2>2. ms = [i \in 1..Len(ms) |-> ms[i]]
    BY <1>2, <1>4, LenProperties
  <2>3. ms \in [1..Len(ms) -> Members(at, root)]
    BY <2>1, <2>2
  <2>4. \A p \in Members(at, root) : \E i \in 1..Len(ms) : ms[i] = p
    BY <1>2, <1>4 DEF Range
  <2> QED BY <2>3, <2>4 DEF Surjection
<1>6. IsFiniteSet(1..Len(ms)) /\ Cardinality(1..Len(ms)) = Len(ms)
  <2>1. ASSUME NEW n \in Nat PROVE IsFiniteSet(1..n) /\ Cardinality(1..n) = n
    <3>1. IsFiniteSet(1..n) /\ Cardinality(1..n) = IF 1 > n THEN 0 ELSE n - 1 + 1
      BY FS_Interval
    <3> QED BY <3>1
  <2> QED BY <1>4, <2>1
<1>7. Cardinality(Members(at, root)) <= Len(ms) /\ Cardinality(Members(at, root)) \in Nat
  BY <1>5, <1>6, FS_Surjection, FS_CardinalityType
<1>8. Len(ms) >= 2
  BY <1>1, <1>4, <1>7
<1>9. TabOf(kd, ms[1]) \in Kinds
  <2>1. ms[1] \in ViewPaths
    BY <1>2, <1>4, <1>8, ElementOfSeq
  <2>2. kd[ms[1]] \in Kinds \cup {NoKind}
    BY <2>1 DEF KindMaps
  <2> QED BY <2>2 DEF TabOf, Kinds
<1> QED BY <1>2, <1>3, <1>8, <1>9

\* Groups that a list may hold.
GroupsTyped(gs) ==
    /\ DOMAIN gs = 1..Len(gs) /\ Len(gs) \in Nat
    /\ \A i \in DOMAIN gs : /\ gs[i].root \in ViewPaths /\ gs[i].kind \in Kinds /\ gs[i].paths \in Seq(ViewPaths)
                            /\ Len(gs[i].paths) >= 2 /\ IsInjective(gs[i].paths)

\* The groups are the classes that some matches make.
Classes(gs, seen) ==
    /\ \A m \in seen : \E i \in DOMAIN gs : {m[1], m[2]} \subseteq Range(gs[i].paths)
    /\ \A i, j \in DOMAIN gs : i # j => Range(gs[i].paths) \cap Range(gs[j].paths) = {}
    /\ \A i \in DOMAIN gs : \A half \in SUBSET Range(gs[i].paths) : half \notin {{}, Range(gs[i].paths)} =>
            \E m \in seen : {m[1], m[2]} \subseteq Range(gs[i].paths) /\ ~(m[1] \in half <=> m[2] \in half)

\* rebuildGroups makes groups, of grown trees the classes of the matches.
LEMMA GroupsOfIs ==
    ASSUME NEW par \in ParentMaps, NEW pct, NEW kd \in KindMaps, NEW order \in Seq(ViewPaths),
           IsInjective(order), NEW seen \in SUBSET StreamMatches,
           Range(order) = GroupRoots(Compressed(par))
    PROVE  /\ GroupsTyped(GroupsOf(Compressed(par), pct, kd, order))
           /\ Grown(par, seen) => Classes(GroupsOf(Compressed(par), pct, kd, order), seen)
<1> DEFINE at == Compressed(par)
           gs == GroupsOf(at, pct, kd, order)
<1>1. /\ at \in ParentMaps
      /\ \A p \in ViewPaths : par[p] # NoPath => at[p] = FindRoot(par, p)
      /\ \A p \in ViewPaths : at[p] = NoPath <=> par[p] = NoPath
  BY CompressedIs
<1> HIDE DEF at
<1>2. Range(order) = GroupRoots(at)
  BY DEF at
<1>3. DOMAIN order = 1..Len(order) /\ Len(order) \in Nat
  BY LenProperties
<1>4. \A i \in DOMAIN order : order[i] \in GroupRoots(at)
  BY <1>2 DEF Range
<1>5. DOMAIN gs = 1..Len(order) /\ \A i \in DOMAIN order : gs[i] = Group(at, pct, kd, order[i])
  BY <1>3 DEF GroupsOf
<1>6. Len(gs) = Len(order)
  <2>1. gs = [i \in 1..Len(order) |-> Group(at, pct, kd, order[i])]
    BY <1>3 DEF GroupsOf
  <2> QED BY <1>3, <2>1
<1> HIDE DEF gs
<1>7. \A i \in DOMAIN gs :
        /\ gs[i].root \in ViewPaths /\ gs[i].kind \in Kinds
        /\ gs[i].paths \in Seq(ViewPaths) /\ Len(gs[i].paths) >= 2 /\ IsInjective(gs[i].paths)
        /\ Range(gs[i].paths) = Members(at, order[i])
  <2>1. \A r \in GroupRoots(at) : r \in ViewPaths
    BY DEF GroupRoots
  <2> QED BY <1>3, <1>4, <1>5, <2>1, GroupIs
<1>8. GroupsTyped(gs)
  BY <1>3, <1>5, <1>6, <1>7 DEF GroupsTyped
<1>9. ASSUME Grown(par, seen) PROVE Classes(gs, seen)
  <2>1. \A m \in StreamMatches : m[1] \in ViewPaths /\ m[2] \in ViewPaths /\ m[1] # m[2]
    BY ViewAssumption
  <2>2. ASSUME NEW m \in seen
        PROVE  at[m[1]] = at[m[2]] /\ at[m[1]] \in ViewPaths
    <3>1. par[m[1]] # NoPath /\ par[m[2]] # NoPath /\ FindRoot(par, m[1]) = FindRoot(par, m[2])
      BY <1>9 DEF Grown
    <3>2. at[m[1]] = at[m[2]] /\ at[m[1]] # NoPath
      BY <1>1, <2>1, <3>1
    <3> QED BY <1>1, <2>1, <3>2 DEF ParentMaps
  <2>3. ASSUME NEW m \in seen PROVE \E i \in DOMAIN gs : {m[1], m[2]} \subseteq Range(gs[i].paths)
    <3>1. {m[1], m[2]} \subseteq Members(at, at[m[1]])
      BY <2>1, <2>2 DEF Members
    <3>2. Cardinality(Members(at, at[m[1]])) >= 2
      <4>1. IsFiniteSet(ViewPaths) /\ Members(at, at[m[1]]) \subseteq ViewPaths
        BY PathsAre DEF Members
      <4>2. IsFiniteSet(Members(at, at[m[1]]))
        BY <4>1, FS_Subset
      <4>3. Cardinality({m[1], m[2]}) = 2 /\ IsFiniteSet({m[1], m[2]})
        <5>1. IsFiniteSet({m[1]}) /\ Cardinality({m[1]}) = 1
          BY FS_Singleton
        <5>2. /\ IsFiniteSet({m[1]} \cup {m[2]})
              /\ Cardinality({m[1]} \cup {m[2]}) = IF m[2] \in {m[1]} THEN Cardinality({m[1]})
                                                  ELSE Cardinality({m[1]}) + 1
          BY <5>1, FS_AddElement
        <5>3. {m[1]} \cup {m[2]} = {m[1], m[2]} /\ m[2] \notin {m[1]}
          BY <2>1
        <5> QED BY <5>1, <5>2, <5>3
      <4>4. Cardinality({m[1], m[2]}) <= Cardinality(Members(at, at[m[1]]))
        BY <3>1, <4>2, FS_Subset
      <4>5. Cardinality(Members(at, at[m[1]])) \in Nat
        BY <4>2, FS_CardinalityType
      <4> QED BY <4>3, <4>4, <4>5
    <3>3. at[m[1]] \in Range(order)
      BY <1>2, <2>2, <3>2 DEF GroupRoots
    <3>4. PICK i \in DOMAIN order : order[i] = at[m[1]]
      BY <3>3 DEF Range
    <3> QED BY <1>3, <1>5, <1>7, <3>1, <3>4
  <2>4. ASSUME NEW i \in DOMAIN gs, NEW j \in DOMAIN gs, i # j
        PROVE  Range(gs[i].paths) \cap Range(gs[j].paths) = {}
    <3>1. order[i] # order[j]
      BY <1>3, <1>5, <2>4 DEF IsInjective
    <3>2. Members(at, order[i]) \cap Members(at, order[j]) = {}
      BY <3>1 DEF Members
    <3> QED BY <1>7, <3>2
  <2>5. ASSUME NEW i \in DOMAIN gs, NEW half \in SUBSET Range(gs[i].paths), half # {}, half # Range(gs[i].paths)
        PROVE  \E m \in seen : {m[1], m[2]} \subseteq Range(gs[i].paths) /\ ~(m[1] \in half <=> m[2] \in half)
    <3> DEFINE s == Range(gs[i].paths)
    <3> SUFFICES ASSUME \A m \in seen : {m[1], m[2]} \subseteq s => (m[1] \in half <=> m[2] \in half)
                 PROVE  FALSE
      OBVIOUS
    <3>1. s = Members(at, order[i]) /\ order[i] \in ViewPaths
      BY <1>4, <1>3, <1>5, <1>7 DEF GroupRoots
    <3> HIDE DEF s
    <3>2. \A p \in ViewPaths : p \in s <=> at[p] = order[i]
      BY <3>1 DEF Members
    <3>3. \A p \in s : p \in ViewPaths /\ par[p] # NoPath /\ FindRoot(par, p) = order[i]
      BY <1>1, <3>1, <3>2, PathsAre DEF Members
    <3>4. half \in SUBSET ViewPaths /\ half \in SUBSET s
      BY <3>3 DEF s
    <3>5. ASSUME NEW m \in seen PROVE m[1] \in half <=> m[2] \in half
      <4>1. m[1] \in s <=> m[2] \in s
        BY <2>1, <2>2, <3>2
      <4> QED BY <3>4, <4>1
    <3>6. \A p \in ViewPaths : p \in half <=> FindRoot(par, p) \in half
      BY <1>9, <3>4, <3>5 DEF Grown, Respects
    <3>7. PICK p \in s : p \in half
      BY <2>5, <3>4
    <3>8. PICK q \in s : q \notin half
      BY <2>5, <3>4 DEF s
    <3> QED BY <3>3, <3>6, <3>7, <3>8
  <2> QED BY <2>3, <2>4, <2>5 DEF Classes
<1> QED BY <1>8, <1>9 DEF at, gs

-----------------------------------------------------------------------------
(* The rows of the open tab.                                                 *)

RowSet == [gi : Nat, root : ViewPaths, check : {"off", "on", "some"}]

\* The rows are the first n groups of the list, in its order.
Shows(rows, gs, index, n) == Len(rows) = n /\ \A i \in 1..n : rows[i].root = gs[index[i]].root

\* A fill holds what is left of the list after the first done rows, pos of it done.
FillHolds(fill, rows, gs, k, done, pos, append, rest) ==
    /\ fill = [kind |-> k, index |-> rest, pos |-> pos, sigs |-> Sigs(gs, k), append |-> append]
    /\ pos < Len(rest) /\ done + Len(rest) = Len(Indices(gs, k))
    /\ \A i \in 1..Len(rest) : rest[i] = Indices(gs, k)[done + i]
    /\ Shows(rows[k], gs, Indices(gs, k), done + pos)

\* The open tab shows the list, or a fill goes on from what it shows.
PaneAt(gs, k, rows, sigs, fill) ==
    /\ rows \in [Kinds -> Seq(RowSet)] /\ DOMAIN sigs = Kinds
    /\ fill = NoFill => /\ sigs[k] = Sigs(gs, k)
                        /\ Shows(rows[k], gs, Indices(gs, k), Len(Indices(gs, k)))
    /\ fill # NoFill => \E done \in Nat, pos \in Nat, append \in BOOLEAN, rest \in Seq(DOMAIN gs) :
                            FillHolds(fill, rows, gs, k, done, pos, append, rest)

\* The indices and the signatures of a tab are those of its groups.
LEMMA IndicesAre ==
    ASSUME NEW gs, GroupsTyped(gs), NEW k
    PROVE  /\ Indices(gs, k) \in Seq(DOMAIN gs)
           /\ Len(Indices(gs, k)) \in Nat /\ DOMAIN Indices(gs, k) = 1..Len(Indices(gs, k))
           /\ \A n \in 1..Len(Indices(gs, k)) : Indices(gs, k)[n] \in DOMAIN gs
           /\ Sigs(gs, k) = [n \in 1..Len(Indices(gs, k)) |-> Sig(gs[Indices(gs, k)[n]])]
           /\ Len(Sigs(gs, k)) = Len(Indices(gs, k))
<1> DEFINE q == [i \in DOMAIN gs |-> i]
           index == Indices(gs, k)
<1>1. q \in Seq(DOMAIN gs)
  <2>1. DOMAIN gs = 1..Len(gs) /\ Len(gs) \in Nat
    BY DEF GroupsTyped
  <2>2. q \in [1..Len(gs) -> DOMAIN gs]
    BY <2>1
  <2> QED BY <2>1, <2>2, SeqDef
<1>2. index \in Seq(DOMAIN gs)
  <2> HIDE DEF q
  <2>1. index = Picked(q, {i \in DOMAIN gs : gs[i].kind = k})
    BY DEF Indices, q
  <2> QED BY <1>1, <2>1, PickedIs
<1>3. Sigs(gs, k) = [n \in DOMAIN index |-> Sig(gs[index[n]])]
  BY DEF Sigs
<1> HIDE DEF index
<1>4. Len(index) \in Nat /\ DOMAIN index = 1..Len(index) /\ \A n \in 1..Len(index) : index[n] \in DOMAIN gs
  BY <1>2, LenProperties, ElementOfSeq
<1>5. Sigs(gs, k) = [n \in 1..Len(index) |-> Sig(gs[index[n]])]
  BY <1>3, <1>4
<1>6. Len(Sigs(gs, k)) = Len(index)
  BY <1>4, <1>5
<1> QED BY <1>2, <1>4, <1>5, <1>6 DEF index

\* A prefix is the beginning of what it is a prefix of.
LEMMA PrefixIs ==
    ASSUME NEW T, NEW s \in Seq(T), NEW t \in Seq(T), IsPrefix(s, t)
    PROVE  Len(s) <= Len(t) /\ \A i \in 1..Len(s) : s[i] = t[i]
<1>1. Len(s) <= Len(t) /\ SubSeq(s, 1, Len(s)) = SubSeq(t, 1, Len(s))
  BY DEF IsPrefix
<1>2. /\ Len(s) \in Nat /\ Len(t) \in Nat /\ \A i \in 1..Len(s) : s[i] \in T
      /\ \A i \in 1..Len(t) : t[i] \in T
  BY LenProperties, ElementOfSeq
<1>3. \A i \in 1..Len(s) : t[i] \in T
  BY <1>1, <1>2
<1>4. /\ \A i \in 1..Len(s) - 1 + 1 : SubSeq(s, 1, Len(s))[i] = s[1 + i - 1]
      /\ \A i \in 1..Len(s) - 1 + 1 : SubSeq(t, 1, Len(s))[i] = t[1 + i - 1]
  BY <1>2, <1>3, SubSeqProperties
<1>5. \A i \in 1..Len(s) : s[i] = t[i]
  <2> SUFFICES ASSUME NEW i \in 1..Len(s) PROVE s[i] = t[i]
    OBVIOUS
  <2>1. i \in 1..Len(s) - 1 + 1 /\ 1 + i - 1 = i
    BY <1>2
  <2>2. SubSeq(s, 1, Len(s))[i] = s[i] /\ SubSeq(t, 1, Len(s))[i] = t[i]
    BY <1>4, <2>1
  <2> QED BY <1>1, <2>2
<1> QED BY <1>1, <1>5

\* The rows that are made of indices show the groups of these.
MadeRows(gs, marks, ix) == [i \in DOMAIN ix |-> Row(gs, marks, ix[i])]
LEMMA RowsAre ==
    ASSUME NEW gs, GroupsTyped(gs), NEW marks, NEW ix \in Seq(DOMAIN gs)
    PROVE  /\ MadeRows(gs, marks, ix) \in Seq(RowSet) /\ Len(MadeRows(gs, marks, ix)) = Len(ix)
           /\ \A i \in 1..Len(ix) : MadeRows(gs, marks, ix)[i].root = gs[ix[i]].root
<1> DEFINE made == [i \in DOMAIN ix |-> Row(gs, marks, ix[i])]
<1>1. Len(ix) \in Nat /\ DOMAIN ix = 1..Len(ix) /\ \A i \in 1..Len(ix) : ix[i] \in DOMAIN gs
  BY LenProperties, ElementOfSeq
<1>2. \A i \in DOMAIN gs : i \in Nat /\ gs[i].root \in ViewPaths
  BY DEF GroupsTyped
<1>3. \A i \in DOMAIN gs : MarkState(gs, marks, i) \in {"off", "on", "some"}
  BY DEF MarkState
<1>4. \A i \in 1..Len(ix) : Row(gs, marks, ix[i]) \in RowSet /\ Row(gs, marks, ix[i]).root = gs[ix[i]].root
  BY <1>1, <1>2, <1>3 DEF Row, RowSet
<1>5. made \in [1..Len(ix) -> RowSet]
  BY <1>1, <1>4
<1>6. made \in Seq(RowSet) /\ Len(made) = Len(ix)
  <2> HIDE DEF made
  <2> QED BY <1>1, <1>5, SeqDef, LenProperties
<1> QED BY <1>1, <1>4, <1>6 DEF MadeRows

\* Rows for the next indices are added to those shown.
LEMMA ShowsMore ==
    ASSUME NEW gs, GroupsTyped(gs), NEW marks, NEW index, NEW rows \in Seq(RowSet), NEW n \in Nat,
           Shows(rows, gs, index, n), NEW ix \in Seq(DOMAIN gs),
           \A i \in 1..Len(ix) : ix[i] = index[n + i]
    PROVE  /\ rows \o MadeRows(gs, marks, ix) \in Seq(RowSet)
           /\ Shows(rows \o MadeRows(gs, marks, ix), gs, index, n + Len(ix))
<1> DEFINE made == MadeRows(gs, marks, ix)
           more == rows \o made
<1>1. made \in Seq(RowSet) /\ Len(made) = Len(ix) /\ \A i \in 1..Len(ix) : made[i].root = gs[ix[i]].root
  BY RowsAre
<1> HIDE DEF made
<1>2. Len(ix) \in Nat /\ Len(rows) = n /\ \A i \in 1..n : rows[i].root = gs[index[i]].root
  BY LenProperties DEF Shows
<1>3. /\ more \in Seq(RowSet) /\ Len(more) = n + Len(ix)
      /\ \A i \in 1..n + Len(ix) : more[i] = IF i <= n THEN rows[i] ELSE made[i - n]
  <2>1. /\ more \in Seq(RowSet) /\ Len(more) = Len(rows) + Len(made)
        /\ \A i \in 1..Len(rows) + Len(made) : more[i] = IF i <= Len(rows) THEN rows[i] ELSE made[i - Len(rows)]
    <3>1. ASSUME NEW s \in Seq(RowSet), NEW t \in Seq(RowSet)
          PROVE  /\ s \o t \in Seq(RowSet) /\ Len(s \o t) = Len(s) + Len(t)
                 /\ \A i \in 1..Len(s) + Len(t) : (s \o t)[i] = IF i <= Len(s) THEN s[i] ELSE t[i - Len(s)]
      BY ConcatProperties
    <3> QED BY <1>1, <3>1
  <2> HIDE DEF more
  <2> QED BY <1>1, <1>2, <2>1
<1> HIDE DEF more
<1>4. ASSUME NEW i \in 1..n + Len(ix) PROVE more[i].root = gs[index[i]].root
  <2>1. CASE i <= n
    BY <1>2, <1>3, <2>1
  <2>2. CASE i > n
    <3>1. i - n \in 1..Len(ix) /\ n + (i - n) = i /\ ~(i <= n)
      BY <1>2, <2>2
    <3>2. made[i - n].root = gs[index[i]].root
      BY <1>1, <3>1
    <3> QED BY <1>3, <3>1, <3>2
  <2> QED BY <1>2, <2>1, <2>2
<1>5. Shows(more, gs, index, n + Len(ix))
  BY <1>3, <1>4 DEF Shows
<1> QED BY <1>3, <1>5 DEF more, made

\* fillPair shows the list it is given, or leaves a fill that will.
LEMMA FillPairIs ==
    ASSUME NEW old, NEW gs, GroupsTyped(old), GroupsTyped(gs), NEW marks, NEW k \in Kinds,
           NEW append \in BOOLEAN, NEW was \in Kinds, append => was = k,
           PaneAt(old, was, listRows, shownSigs, job), FillPair(gs, marks, k, append)
    PROVE  PaneAt(gs, k, listRows', shownSigs', job')
<1> DEFINE index == Indices(gs, k)
           sigs == Sigs(gs, k)
           n == Len(shownSigs[k])
           new == SubSeq(index, n + 1, Len(index))
           MakeRows(ix) == MadeRows(gs, marks, ix)
<1>1. /\ index \in Seq(DOMAIN gs)
      /\ Len(index) \in Nat /\ DOMAIN index = 1..Len(index)
      /\ \A i \in 1..Len(index) : index[i] \in DOMAIN gs
      /\ sigs = [i \in 1..Len(index) |-> Sig(gs[index[i]])] /\ Len(sigs) = Len(index)
  BY IndicesAre
<1>2. listRows \in [Kinds -> Seq(RowSet)] /\ DOMAIN shownSigs = Kinds
  BY DEF PaneAt
<1>3. \/ /\ MayExtend(append) /\ IsPrefix(shownSigs[k], sigs) /\ Len(new) > AppendMin
         /\ job' = Fill(k, new, sigs, TRUE) /\ UNCHANGED <<listRows, shownSigs>>
      \/ /\ MayExtend(append) /\ IsPrefix(shownSigs[k], sigs) /\ ~(Len(new) > AppendMin)
         /\ job' = NoFill /\ listRows' = [listRows EXCEPT ![k] = @ \o MakeRows(new)]
         /\ shownSigs' = [shownSigs EXCEPT ![k] = sigs]
      \/ /\ Len(index) > FillMin
         /\ job' = Fill(k, index, sigs, FALSE) /\ listRows' = [listRows EXCEPT ![k] = <<>>]
         /\ UNCHANGED shownSigs
      \/ /\ job' = NoFill /\ listRows' = [listRows EXCEPT ![k] = MakeRows(index)]
         /\ shownSigs' = [shownSigs EXCEPT ![k] = sigs]
  BY DEF FillPair, MadeRows
<1> HIDE DEF index, sigs, n, new, MakeRows
<1>4. \A rest, append2 : Fill(k, rest, sigs, append2) # NoFill
  BY DEF Fill, NoFill, Kinds
<1>5. ASSUME MayExtend(append), IsPrefix(shownSigs[k], sigs)
      PROVE  /\ n \in Nat /\ n <= Len(index) /\ Shows(listRows[k], gs, index, n)
             /\ new \in Seq(DOMAIN gs) /\ Len(new) \in Nat /\ n + Len(new) = Len(index)
             /\ \A i \in 1..Len(new) : new[i] = index[n + i]
  <2> DEFINE before == Indices(old, k)
  <2>1. was = k /\ shownSigs[k] = Sigs(old, k) /\ Shows(listRows[k], old, before, Len(before))
    BY <1>5 DEF MayExtend, PaneAt
  <2>2. /\ Len(before) \in Nat /\ shownSigs[k] = [i \in 1..Len(before) |-> Sig(old[before[i]])]
        /\ n = Len(before)
    BY <2>1, IndicesAre DEF n
  <2> HIDE DEF before
  <2>3. n <= Len(index) /\ \A i \in 1..n : Sig(old[before[i]]) = Sig(gs[index[i]])
    <3> DEFINE T == {Sig(old[before[i]]) : i \in 1..n} \cup {Sig(gs[index[i]]) : i \in 1..Len(index)}
    <3>1. shownSigs[k] \in [1..n -> T] /\ sigs \in [1..Len(index) -> T]
      BY <1>1, <2>2
    <3>2. shownSigs[k] \in Seq(T) /\ sigs \in Seq(T)
      <4> HIDE DEF T
      <4> QED BY <1>1, <2>2, <3>1, SeqDef
    <3>3. n <= Len(index) /\ \A i \in 1..n : shownSigs[k][i] = sigs[i]
      <4> HIDE DEF T
      <4> QED BY <1>1, <1>5, <3>2, PrefixIs DEF n
    <3>4. ASSUME NEW i \in 1..n PROVE Sig(old[before[i]]) = Sig(gs[index[i]])
      <4>1. i \in 1..Len(index) /\ i \in 1..Len(before)
        BY <1>1, <2>2, <3>3
      <4> QED BY <1>1, <2>2, <3>3, <4>1
    <3> QED BY <3>3, <3>4
  <2>4. Shows(listRows[k], gs, index, n)
    BY <2>1, <2>2, <2>3 DEF Shows, Sig
  <2>5. n \in Nat
    BY <2>2
  <2>6. /\ new \in Seq(DOMAIN gs) /\ Len(new) = IF n + 1 <= Len(index) THEN Len(index) - (n + 1) + 1 ELSE 0
        /\ \A i \in 1..Len(index) - (n + 1) + 1 : new[i] = index[n + 1 + i - 1]
    <3>1. \A i \in n + 1..Len(index) : index[i] \in DOMAIN gs
      BY <1>1, <2>5
    <3> QED BY <1>1, <2>5, <3>1, SubSeqProperties DEF new
  <2>7. n + Len(new) = Len(index) /\ Len(new) \in Nat
    <3>1. PICK x : x = Len(index)
      OBVIOUS
    <3>2. x \in Nat /\ n \in Nat /\ n <= x /\ Len(new) = IF n + 1 <= x THEN x - (n + 1) + 1 ELSE 0
      BY <1>1, <2>3, <2>5, <2>6, <3>1
    <3>3. n + Len(new) = x /\ Len(new) \in Nat
      BY <3>2
    <3> QED BY <3>1, <3>3
  <2>8. ASSUME NEW i \in 1..Len(new) PROVE new[i] = index[n + i]
    <3>1. i \in 1..Len(index) - (n + 1) + 1 /\ n + 1 + i - 1 = n + i
      BY <1>1, <2>5, <2>7
    <3> QED BY <2>6, <3>1
  <2> QED BY <1>1, <2>3, <2>4, <2>5, <2>6, <2>7, <2>8
<1>6. CASE /\ MayExtend(append) /\ IsPrefix(shownSigs[k], sigs) /\ Len(new) > AppendMin
           /\ job' = Fill(k, new, sigs, TRUE) /\ UNCHANGED <<listRows, shownSigs>>
  <2>1. 0 < Len(new) /\ 0 \in Nat /\ n + 0 = n
    BY <1>5, <1>6, ViewAssumption
  <2>2. FillHolds(job', listRows', gs, k, n, 0, TRUE, new)
    BY <1>5, <1>6, <2>1 DEF FillHolds, Fill, index, sigs
  <2>3. job' # NoFill
    BY <1>4, <1>6
  <2>4. new \in Seq(DOMAIN gs) /\ n \in Nat
    BY <1>5, <1>6
  <2> QED BY <1>2, <1>6, <2>1, <2>2, <2>3, <2>4 DEF PaneAt
<1>7. CASE /\ MayExtend(append) /\ IsPrefix(shownSigs[k], sigs) /\ ~(Len(new) > AppendMin)
           /\ job' = NoFill /\ listRows' = [listRows EXCEPT ![k] = @ \o MakeRows(new)]
           /\ shownSigs' = [shownSigs EXCEPT ![k] = sigs]
  <2>1. listRows[k] \o MakeRows(new) \in Seq(RowSet) /\ Shows(listRows[k] \o MakeRows(new), gs, index, n + Len(new))
    BY <1>2, <1>5, <1>7, ShowsMore DEF MakeRows
  <2>2. listRows' \in [Kinds -> Seq(RowSet)] /\ listRows'[k] = listRows[k] \o MakeRows(new)
    BY <1>2, <1>7, <2>1
  <2>3. DOMAIN shownSigs' = Kinds /\ shownSigs'[k] = sigs
    BY <1>2, <1>7
  <2> QED BY <1>5, <1>7, <2>1, <2>2, <2>3 DEF PaneAt, index, sigs
<1>8. CASE /\ Len(index) > FillMin
           /\ job' = Fill(k, index, sigs, FALSE) /\ listRows' = [listRows EXCEPT ![k] = <<>>]
           /\ UNCHANGED shownSigs
  <2>1. 0 < Len(index) /\ 0 \in Nat /\ 0 + 0 = 0 /\ 0 + Len(index) = Len(index)
        /\ \A i \in 1..Len(index) : 0 + i = i
    BY <1>1, <1>8, ViewAssumption
  <2>2. listRows' \in [Kinds -> Seq(RowSet)] /\ listRows'[k] = <<>>
    BY <1>2, <1>8, EmptySeq
  <2>3. Shows(listRows'[k], gs, index, 0)
    BY <2>2 DEF Shows
  <2>4. FillHolds(job', listRows', gs, k, 0, 0, FALSE, index)
    BY <1>8, <2>1, <2>3 DEF FillHolds, Fill, index, sigs
  <2>5. job' # NoFill
    BY <1>4, <1>8
  <2> QED BY <1>1, <1>2, <1>8, <2>1, <2>2, <2>4, <2>5 DEF PaneAt
<1>9. CASE /\ job' = NoFill /\ listRows' = [listRows EXCEPT ![k] = MakeRows(index)]
           /\ shownSigs' = [shownSigs EXCEPT ![k] = sigs]
  <2>1. /\ MakeRows(index) \in Seq(RowSet) /\ Len(MakeRows(index)) = Len(index)
        /\ \A i \in 1..Len(index) : MakeRows(index)[i].root = gs[index[i]].root
    BY <1>1, RowsAre DEF MakeRows
  <2>2. listRows' \in [Kinds -> Seq(RowSet)] /\ listRows'[k] = MakeRows(index)
    BY <1>2, <1>9, <2>1
  <2>3. DOMAIN shownSigs' = Kinds /\ shownSigs'[k] = sigs
    BY <1>2, <1>9
  <2>4. Shows(listRows'[k], gs, index, Len(index))
    BY <2>1, <2>2 DEF Shows
  <2> QED BY <1>9, <2>2, <2>3, <2>4 DEF PaneAt, index, sigs
<1> QED BY <1>3, <1>6, <1>7, <1>8, <1>9

\* A chunk goes on with a fill, and the last one ends it with all rows shown.
LEMMA ContinueIs ==
    ASSUME GroupsTyped(groups), tab \in Kinds, PaneAt(groups, tab, listRows, shownSigs, job), ContinueFill
    PROVE  PaneAt(groups, tab, listRows', shownSigs', job')
<1> DEFINE index == Indices(groups, tab)
           last == IF job.pos + FillChunk > Len(job.index) THEN Len(job.index) ELSE job.pos + FillChunk
           chunk == SubSeq(job.index, job.pos + 1, last)
           more == listRows[tab] \o MadeRows(groups, marked, chunk)
<1>1. PICK done \in Nat, pos \in Nat, append \in BOOLEAN, rest \in Seq(DOMAIN groups) :
        FillHolds(job, listRows, groups, tab, done, pos, append, rest)
  BY DEF PaneAt, ContinueFill
<1>2. /\ job = [kind |-> tab, index |-> rest, pos |-> pos, sigs |-> Sigs(groups, tab), append |-> append]
      /\ pos < Len(rest) /\ done + Len(rest) = Len(index)
      /\ \A i \in 1..Len(rest) : rest[i] = index[done + i]
      /\ Shows(listRows[tab], groups, index, done + pos)
  BY <1>1 DEF FillHolds
<1>3. job.kind = tab /\ job.index = rest /\ job.pos = pos /\ job.sigs = Sigs(groups, tab)
  BY <1>2
<1>4. /\ Len(rest) \in Nat /\ \A i \in 1..Len(rest) : rest[i] \in DOMAIN groups
      /\ FillChunk \in Nat \ {0}
  BY ViewAssumption, LenProperties, ElementOfSeq
<1>5. last \in Nat /\ pos < last /\ last <= Len(rest)
  <2>1. last = IF pos + FillChunk > Len(rest) THEN Len(rest) ELSE pos + FillChunk
    BY <1>3
  <2> QED BY <1>2, <1>4, <2>1
<1>6. /\ listRows' = [listRows EXCEPT ![tab] = more]
      /\ IF last < Len(rest) THEN job' = [job EXCEPT !.pos = last] /\ UNCHANGED shownSigs
         ELSE job' = NoFill /\ shownSigs' = [shownSigs EXCEPT ![tab] = Sigs(groups, tab)]
  BY <1>3 DEF ContinueFill, MadeRows
<1> HIDE DEF index, last, chunk
<1>7. /\ chunk \in Seq(DOMAIN groups) /\ pos + Len(chunk) = last
      /\ \A i \in 1..Len(chunk) : chunk[i] = index[done + pos + i]
  <2>1. chunk = SubSeq(rest, pos + 1, last)
    BY <1>3 DEF chunk
  <2>2. \A i \in pos + 1..last : rest[i] \in DOMAIN groups
    BY <1>4, <1>5
  <2>3. /\ chunk \in Seq(DOMAIN groups)
        /\ Len(chunk) = IF pos + 1 <= last THEN last - (pos + 1) + 1 ELSE 0
        /\ \A i \in 1..last - (pos + 1) + 1 : chunk[i] = rest[pos + 1 + i - 1]
    BY <1>5, <2>1, <2>2, SubSeqProperties
  <2>4. pos + Len(chunk) = last
    BY <1>5, <2>3
  <2>5. ASSUME NEW i \in 1..Len(chunk) PROVE chunk[i] = index[done + pos + i]
    <3>1. i \in 1..last - (pos + 1) + 1 /\ pos + 1 + i - 1 = pos + i /\ pos + i \in 1..Len(rest)
      BY <1>4, <1>5, <2>4
    <3>2. done + (pos + i) = done + pos + i
      BY <3>1
    <3> QED BY <1>2, <2>3, <3>1, <3>2
  <2> QED BY <2>3, <2>4, <2>5
<1>8. listRows \in [Kinds -> Seq(RowSet)] /\ DOMAIN shownSigs = Kinds
  BY DEF PaneAt
<1>9. more \in Seq(RowSet) /\ Shows(more, groups, index, done + pos + Len(chunk))
  <2>1. listRows[tab] \in Seq(RowSet) /\ done + pos \in Nat
    BY <1>8
  <2> QED BY <1>2, <1>7, <2>1, ShowsMore
<1>10. done + pos + Len(chunk) = done + last
  <2>1. PICK n : n = Len(chunk)
    OBVIOUS
  <2>2. n \in Nat /\ pos + n = last
    BY <1>7, <2>1, LenProperties
  <2>3. done + pos + n = done + last
    BY <2>2
  <2> QED BY <2>1, <2>3
<1> HIDE DEF more
<1>11. listRows' \in [Kinds -> Seq(RowSet)] /\ listRows'[tab] = more
  BY <1>6, <1>8, <1>9
<1>12. CASE last < Len(rest)
  <2>1. job' = [kind |-> tab, index |-> rest, pos |-> last, sigs |-> Sigs(groups, tab), append |-> append]
    BY <1>2, <1>6, <1>12
  <2>2. FillHolds(job', listRows', groups, tab, done, last, append, rest)
    BY <1>2, <1>9, <1>10, <1>11, <1>12, <2>1 DEF FillHolds, index
  <2>3. job' # NoFill
    BY <2>1 DEF NoFill, Kinds
  <2>4. UNCHANGED shownSigs
    BY <1>6, <1>12
  <2> QED BY <1>5, <1>8, <1>11, <2>2, <2>3, <2>4 DEF PaneAt
<1>13. CASE ~(last < Len(rest))
  <2>1. job' = NoFill /\ shownSigs' = [shownSigs EXCEPT ![tab] = Sigs(groups, tab)]
    BY <1>6, <1>13
  <2>2. done + last = Len(index)
    <3>1. PICK n : n = Len(rest)
      OBVIOUS
    <3>2. n \in Nat /\ last \in Nat /\ last <= n /\ ~(last < n)
      BY <1>4, <1>5, <1>13, <3>1
    <3>3. last = n
      BY <3>2
    <3> QED BY <1>2, <3>1, <3>3
  <2>3. DOMAIN shownSigs' = Kinds /\ shownSigs'[tab] = Sigs(groups, tab)
    BY <1>8, <2>1
  <2>4. Shows(listRows'[tab], groups, index, Len(index))
    BY <1>9, <1>10, <1>11, <2>2
  <2> QED BY <1>11, <2>1, <2>3, <2>4 DEF PaneAt, index
<1> QED BY <1>12, <1>13

\* Marks change the boxes of the rows and nothing else of them.
LEMMA MarkIs ==
    ASSUME GroupsTyped(groups), marked \subseteq ViewPaths, tab \in Kinds,
           PaneAt(groups, tab, listRows, shownSigs, job),
           NEW gi \in DOMAIN groups, NEW on \in BOOLEAN, MarkGroup(gi, on)
    PROVE  marked' \subseteq ViewPaths /\ PaneAt(groups, tab, listRows', shownSigs, job)
<1>1. \A i \in DOMAIN groups : Range(groups[i].paths) \subseteq ViewPaths
                               /\ Range(Tail(groups[i].paths)) \subseteq ViewPaths
  <2> SUFFICES ASSUME NEW i \in DOMAIN groups
               PROVE Range(groups[i].paths) \subseteq ViewPaths /\ Range(Tail(groups[i].paths)) \subseteq ViewPaths
    OBVIOUS
  <2>1. groups[i].paths \in Seq(ViewPaths) /\ groups[i].paths # <<>>
    BY DEF GroupsTyped
  <2>2. Tail(groups[i].paths) \in Seq(ViewPaths)
    BY <2>1, HeadTailProperties
  <2> QED BY <2>1, <2>2, RangeOfSeq DEF Range
<1>2. marked' \subseteq ViewPaths
  <2>1. marked' = IF on THEN marked \cup Range(Tail(groups[gi].paths)) ELSE marked \ Range(groups[gi].paths)
    BY DEF MarkGroup
  <2> QED BY <1>1, <2>1
<1>3. listRows \in [Kinds -> Seq(RowSet)]
  BY DEF PaneAt
<1> DEFINE after(k) == [i \in DOMAIN listRows[k] |->
                          [listRows[k][i] EXCEPT !.check = MarkState(groups, marked', listRows[k][i].gi)]]
<1>4. listRows' = [k \in Kinds |-> after(k)]
  BY DEF MarkGroup
<1>5. ASSUME NEW k \in Kinds
      PROVE  /\ after(k) \in Seq(RowSet) /\ Len(after(k)) = Len(listRows[k])
             /\ \A i \in 1..Len(listRows[k]) : after(k)[i].root = listRows[k][i].root
  <2> DEFINE rows == listRows[k]
             made == after(k)
  <2>1. rows \in Seq(RowSet) /\ Len(rows) \in Nat /\ DOMAIN rows = 1..Len(rows)
        /\ \A i \in 1..Len(rows) : rows[i] \in RowSet
    BY <1>3, LenProperties, ElementOfSeq
  <2> DEFINE row(i) == [rows[i] EXCEPT !.check = MarkState(groups, marked', rows[i].gi)]
  <2>2. ASSUME NEW i \in 1..Len(rows) PROVE row(i) \in RowSet /\ row(i).root = rows[i].root
    <3>1. MarkState(groups, marked', rows[i].gi) \in {"off", "on", "some"}
      BY DEF MarkState
    <3> QED BY <2>1, <3>1 DEF RowSet
  <2>3. made = [i \in 1..Len(rows) |-> row(i)]
    BY <2>1
  <2> HIDE DEF made, row, rows
  <2>4. made \in [1..Len(rows) -> RowSet] /\ \A i \in 1..Len(rows) : made[i].root = rows[i].root
    BY <2>2, <2>3
  <2>5. made \in Seq(RowSet) /\ Len(made) = Len(rows)
    BY <2>1, <2>3, <2>4, SeqDef
  <2> QED BY <2>4, <2>5 DEF made, rows
<1> HIDE DEF after
<1>6. listRows' \in [Kinds -> Seq(RowSet)] /\ listRows'[tab] = after(tab)
  BY <1>4, <1>5
<1>7. \A index, n : n <= Len(listRows[tab]) /\ Shows(listRows[tab], groups, index, n)
                    => Shows(listRows'[tab], groups, index, n)
  BY <1>5, <1>6 DEF Shows
<1>8. \A index, n : Shows(listRows[tab], groups, index, n) => Shows(listRows'[tab], groups, index, n)
  <2>1. Len(listRows[tab]) <= Len(listRows[tab])
    BY <1>3, LenProperties
  <2> QED BY <1>7, <2>1 DEF Shows
<1>9. \A done, pos, append, rest : FillHolds(job, listRows, groups, tab, done, pos, append, rest)
                                   => FillHolds(job, listRows', groups, tab, done, pos, append, rest)
  BY <1>8 DEF FillHolds
<1> QED BY <1>2, <1>6, <1>8, <1>9 DEF PaneAt

-----------------------------------------------------------------------------
(* The lists of the window.                                                  *)

\* The invariant.  What it says of the trees and of the classes it says as long as no file was taken
\* out: the children of a path that is taken out keep its name, and a match no longer joins them.
ViewInv ==
    /\ parent \in ParentMaps /\ kindOf \in KindMaps /\ marked \subseteq ViewPaths /\ fileOp \subseteq ViewPaths
    /\ scan \in {"idle", "live", "held"} /\ tab \in Kinds
    /\ noneOrder \in Seq(ViewPaths) /\ IsInjective(noneOrder)
    /\ matchesSeen \in SUBSET StreamMatches
    /\ GroupsTyped(groups)
    /\ pruned = {} => Grown(parent, matchesSeen)
    /\ ~dirty /\ pruned = {} => Classes(groups, matchesSeen)
    /\ PaneAt(groups, tab, listRows, shownSigs, job)

\* At first there is nothing: no tree, no group, no row.
LEMMA ViewInitInv == ViewInit => ViewInv
<1> SUFFICES ASSUME ViewInit PROVE ViewInv
  OBVIOUS
<1>1. /\ parent = [p \in ViewPaths |-> NoPath] /\ marked = {} /\ fileOp = {} /\ scan = "idle"
      /\ tab = "images" /\ noneOrder = <<>> /\ groups = <<>> /\ matchesSeen = {} /\ job = NoFill
      /\ listRows = [k \in Kinds |-> <<>>] /\ shownSigs = [k \in Kinds |-> <<>>]
      /\ kindOf = [p \in ViewPaths |-> NoKind]
  BY DEF ViewInit
<1>2. parent \in ParentMaps /\ kindOf \in KindMaps
  BY <1>1 DEF ParentMaps, KindMaps
<1>3. noneOrder \in Seq(ViewPaths) /\ IsInjective(noneOrder)
  BY <1>1, EmptySeq DEF IsInjective
<1>4. GroupsTyped(groups)
  BY <1>1 DEF GroupsTyped
<1>5. Grown(parent, matchesSeen)
  <2>1. \A p \in ViewPaths : parent[p] = NoPath /\ Parent(parent, p) = p
    BY <1>1 DEF Parent
  <2>2. [p \in ViewPaths |-> 0] \in [ViewPaths -> Nat] /\ Below(parent, [p \in ViewPaths |-> 0])
    BY <2>1 DEF Below
  <2>3. Forest(parent)
    BY <2>2 DEF Forest
  <2>4. Closed(parent)
    BY <2>1 DEF Closed
  <2>5. \A p \in ViewPaths : FindRoot(parent, p) = p
    BY <1>2, <2>1, RootOfParent
  <2> QED BY <1>1, <2>1, <2>3, <2>4, <2>5 DEF Grown
<1>6. Classes(groups, matchesSeen)
  BY <1>1 DEF Classes
<1>7. PaneAt(groups, tab, listRows, shownSigs, job)
  <2> DEFINE index == Indices(groups, tab)
  <2>1. Len(index) = 0
    <3>1. Len(index) \in Nat /\ \A n \in 1..Len(index) : index[n] \in DOMAIN groups
      BY <1>4, IndicesAre
    <3>2. DOMAIN groups = {}
      BY <1>1
    <3> QED BY <3>1, <3>2
  <2>2. Sigs(groups, tab) = <<>>
    <3>1. Sigs(groups, tab) = [n \in 1..Len(index) |-> Sig(groups[index[n]])]
      BY <1>4, IndicesAre
    <3> QED BY <2>1, <3>1
  <2>3. listRows \in [Kinds -> Seq(RowSet)] /\ DOMAIN shownSigs = Kinds
        /\ listRows[tab] = <<>> /\ shownSigs[tab] = <<>>
    BY <1>1, EmptySeq DEF Kinds
  <2>4. Shows(listRows[tab], groups, index, Len(index))
    BY <2>1, <2>3 DEF Shows
  <2> QED BY <1>1, <2>2, <2>3, <2>4 DEF PaneAt
<1>8. tab \in Kinds /\ scan \in {"idle", "live", "held"}
  BY <1>1 DEF Kinds
<1> QED BY <1>1, <1>2, <1>3, <1>4, <1>5, <1>6, <1>7, <1>8 DEF ViewInv

\* A rebuild keeps the invariant, whatever trees it is given; grown trees it makes into classes.
LEMMA RebuildIs ==
    ASSUME ViewInv, NEW par \in ParentMaps, NEW pct, NEW kd \in KindMaps, NEW marks, NEW append \in BOOLEAN,
           RebuildAndFill(par, pct, kd, marks, append), kindOf' \in KindMaps,
           pruned' = {} => Grown(par, matchesSeen),
           UNCHANGED <<tab, matchesSeen>>,
           marked' \subseteq ViewPaths, fileOp' \subseteq ViewPaths, scan' \in {"idle", "live", "held"}
    PROVE  ViewInv'
<1> DEFINE at == Compressed(par)
           order == ListOrder(GroupRoots(at), noneOrder)
<1>1. /\ parent' = at /\ groups' = GroupsOf(at, pct, kd, order) /\ noneOrder' = order
      /\ FillPair(groups', marks, tab, append)
  BY DEF RebuildAndFill
<1>2. at \in ParentMaps
  BY CompressedIs
<1>3. noneOrder \in Seq(ViewPaths) /\ IsInjective(noneOrder) /\ matchesSeen \in SUBSET StreamMatches
      /\ tab \in Kinds /\ GroupsTyped(groups) /\ PaneAt(groups, tab, listRows, shownSigs, job)
  BY DEF ViewInv
<1>4. order \in Seq(ViewPaths) /\ IsInjective(order) /\ Range(order) = GroupRoots(at)
  <2>1. GroupRoots(at) \in SUBSET ViewPaths
    BY DEF GroupRoots
  <2> QED BY <1>3, <2>1, ListOrderIs
<1> HIDE DEF order
<1>5. GroupsTyped(groups') /\ (Grown(par, matchesSeen) => Classes(groups', matchesSeen))
  BY <1>1, <1>3, <1>4, GroupsOfIs
<1>6. Grown(par, matchesSeen) => Grown(at, matchesSeen)
  BY <1>3, GrownCompressed
<1> HIDE DEF at
<1>7. PaneAt(groups', tab, listRows', shownSigs', job')
  BY <1>1, <1>3, <1>5, FillPairIs
<1>8. pruned' = {} => Grown(parent', matchesSeen') /\ Classes(groups', matchesSeen')
  BY <1>1, <1>5, <1>6
<1>9. PaneAt(groups', tab', listRows', shownSigs', job') /\ tab' \in Kinds
  BY <1>3, <1>7
<1> QED BY <1>1, <1>2, <1>3, <1>4, <1>5, <1>8, <1>9 DEF ViewInv

\* Every step of the window keeps it.
LEMMA ViewStepInv == ViewInv /\ [ViewNext]_viewVars => ViewInv'
<1> SUFFICES ASSUME ViewInv, [ViewNext]_viewVars PROVE ViewInv'
  OBVIOUS
<1>1. ASSUME UNCHANGED <<parent, matchesSeen, listVars, paneVars, tab, marked, pruned>>, kindOf' \in KindMaps,
             fileOp' \subseteq ViewPaths, scan' \in {"idle", "live", "held"}
      PROVE  ViewInv'
  BY <1>1 DEF ViewInv, listVars, paneVars
<1>2. CASE BeginScan
  <2>1. scan' \in {"idle", "live", "held"} /\ fileOp' \subseteq ViewPaths
    BY <1>2 DEF BeginScan, ViewInv
  <2>2. UNCHANGED <<parent, matchesSeen, listVars, paneVars, tab, marked, pruned>>
    BY <1>2 DEF BeginScan
  <2>3. kindOf' \in KindMaps
    BY <1>2 DEF BeginScan, KindMaps
  <2> QED BY <1>1, <2>1, <2>2, <2>3
<1>3. ASSUME NEW m \in StreamMatches, OnMatchesBatch(m) PROVE ViewInv'
  <2>1. /\ parent' = Joined(parent, m[1], m[2]) /\ matchesSeen' = matchesSeen \cup {m} /\ dirty' = TRUE
        /\ UNCHANGED <<groups, noneOrder, paneVars, tab, marked, scan, fileOp, pruned>>
        /\ kindOf' = [p \in ViewPaths |-> IF p \in {m[1], m[2]} /\ kindOf[p] = NoKind
                                          THEN KindOf(p) ELSE kindOf[p]]
    BY <1>3 DEF OnMatchesBatch, AddMatch
  <2>2. parent' \in ParentMaps
    <3>1. m[1] \in ViewPaths /\ m[2] \in ViewPaths
      BY ViewAssumption
    <3> QED BY <2>1, <3>1, JoinedIsMap DEF ViewInv
  <2>3. pruned' = {} => Grown(parent', matchesSeen')
    BY <2>1, GrownJoined DEF ViewInv
  <2>4. matchesSeen' \in SUBSET StreamMatches
    BY <2>1 DEF ViewInv
  <2>5. kindOf' \in KindMaps
    <3>1. \A p \in ViewPaths : KindOf(p) \in Kinds /\ kindOf[p] \in Kinds \cup {NoKind}
      BY DEF ViewInv, KindMaps, KindOf, Kinds
    <3> QED BY <2>1, <3>1 DEF KindMaps
  <2> QED BY <2>1, <2>2, <2>3, <2>4, <2>5 DEF ViewInv, paneVars
<1>4. CASE RefreshStreaming
  <2>1. /\ RebuildAndFill(parent, best, kindOf, marked, scan = "live")
        /\ UNCHANGED <<best, kindOf, matchesSeen, tab, marked, scan, fileOp, pruned, viewLeft>>
    BY <1>4 DEF RefreshStreaming
  <2>2. parent \in ParentMaps /\ kindOf \in KindMaps /\ kindOf' \in KindMaps /\ (scan = "live") \in BOOLEAN
        /\ (pruned' = {} => Grown(parent, matchesSeen))
        /\ marked' \subseteq ViewPaths /\ fileOp' \subseteq ViewPaths /\ scan' \in {"idle", "live", "held"}
    BY <2>1 DEF ViewInv
  <2> QED BY <2>1, <2>2, RebuildIs
<1>5. CASE OnResults
  <2>1. /\ scan' = "idle" /\ RebuildAndFill(parent, best, kindOf, marked, TRUE)
        /\ UNCHANGED <<best, kindOf, matchesSeen, tab, marked, fileOp, pruned, viewLeft>>
    BY <1>5 DEF OnResults
  <2>2. parent \in ParentMaps /\ kindOf \in KindMaps /\ kindOf' \in KindMaps /\ (pruned' = {} => Grown(parent, matchesSeen))
        /\ marked' \subseteq ViewPaths /\ fileOp' \subseteq ViewPaths /\ scan' \in {"idle", "live", "held"}
    BY <2>1 DEF ViewInv
  <2> QED BY <2>1, <2>2, RebuildIs
<1>6. CASE ContinueFill
  <2>1. UNCHANGED <<treeVars, listVars, tab, marked, scan, fileOp, pruned, viewLeft>>
    BY <1>6 DEF ContinueFill
  <2>2. PaneAt(groups, tab, listRows', shownSigs', job')
    BY <1>6, ContinueIs DEF ViewInv
  <2>3. PaneAt(groups', tab', listRows', shownSigs', job')
    BY <2>1, <2>2 DEF listVars
  <2> QED BY <2>1, <2>3 DEF ViewInv, treeVars, listVars
<1>7. ASSUME NEW k \in Kinds, ActivateTab(k) PROVE ViewInv'
  <2>1. /\ tab' = k /\ FillPair(groups, marked, k, FALSE)
        /\ UNCHANGED <<treeVars, listVars, marked, scan, fileOp, pruned, viewLeft>>
    BY <1>7 DEF ActivateTab
  <2>2. PaneAt(groups, k, listRows', shownSigs', job')
    BY <2>1, FillPairIs DEF ViewInv
  <2>3. PaneAt(groups', tab', listRows', shownSigs', job')
    BY <2>1, <2>2 DEF listVars
  <2> QED BY <2>1, <2>3 DEF ViewInv, treeVars, listVars
<1>8. ASSUME NEW i, CheckRow(i) PROVE ViewInv'
  <2>1. /\ listRows[tab][i].gi \in DOMAIN groups
        /\ MarkGroup(listRows[tab][i].gi, listRows[tab][i].check # "on")
        /\ UNCHANGED <<treeVars, listVars, shownSigs, job, tab, scan, fileOp, pruned, viewLeft>>
    BY <1>8 DEF CheckRow
  <2>2. marked' \subseteq ViewPaths /\ PaneAt(groups, tab, listRows', shownSigs, job)
    <3>1. (listRows[tab][i].check # "on") \in BOOLEAN
      OBVIOUS
    <3> QED BY <2>1, <3>1, MarkIs DEF ViewInv
  <2>3. PaneAt(groups', tab', listRows', shownSigs', job')
    BY <2>1, <2>2 DEF listVars
  <2> QED BY <2>1, <2>2, <2>3 DEF ViewInv, treeVars, listVars
<1>9. CASE DeleteSelected
  <2>1. fileOp' \subseteq ViewPaths /\ scan' \in {"idle", "live", "held"}
    BY <1>9 DEF DeleteSelected, ViewInv
  <2>2. UNCHANGED <<treeVars, listVars, paneVars, tab, marked, pruned>> /\ kindOf \in KindMaps
    BY <1>9 DEF DeleteSelected, ViewInv
  <2> QED BY <1>1, <2>1, <2>2 DEF treeVars
<1>10. CASE DeleteDone
  <2> DEFINE par(gone) == [p \in ViewPaths |-> IF p \in gone THEN NoPath ELSE parent[p]]
             pct(gone) == [p \in ViewPaths |-> IF p \in gone THEN 0 ELSE best[p]]
             kd(gone) == [p \in ViewPaths |-> IF p \in gone THEN NoKind ELSE kindOf[p]]
  <2>1. PICK gone \in (SUBSET fileOp) \ {{}} :
          /\ fileOp' = {} /\ pruned' = pruned \cup gone /\ marked' = marked \ gone
          /\ RebuildAndFill(par(gone), pct(gone), kd(gone), marked \ gone, FALSE) /\ kindOf' = kd(gone)
          /\ UNCHANGED <<matchesSeen, tab, scan, viewLeft>>
    BY <1>10 DEF DeleteDone
  <2>2. par(gone) \in ParentMaps /\ kd(gone) \in KindMaps
    BY DEF ViewInv, ParentMaps, KindMaps
  <2>3. pruned' # {}
    <3>1. PICK x : x \in gone
      OBVIOUS
    <3>2. pruned' = pruned \cup gone
      BY <2>1
    <3>3. x \in pruned'
      BY <3>1, <3>2
    <3> QED BY <3>3
  <2> HIDE DEF par, pct, kd
  <2>4. marked' \subseteq ViewPaths /\ fileOp' \subseteq ViewPaths /\ scan' \in {"idle", "live", "held"}
    BY <2>1 DEF ViewInv
  <2> QED BY <2>1, <2>2, <2>3, <2>4, RebuildIs
<1>11. CASE UNCHANGED viewVars
  <2>1. UNCHANGED <<treeVars, listVars, paneVars, tab, marked, scan, fileOp, pruned>>
    BY <1>11 DEF viewVars
  <2> QED BY <1>1, <2>1 DEF ViewInv, treeVars
<1> QED BY <1>2, <1>3, <1>4, <1>5, <1>6, <1>7, <1>8, <1>9, <1>10, <1>11 DEF ViewNext

\* The invariant has the properties that TLC checks.
LEMMA ViewInvIs == ViewInv => ListsTrue /\ ViewTypeOK
<1> SUFFICES ASSUME ViewInv PROVE ListsTrue /\ ViewTypeOK
  OBVIOUS
<1>1. GroupsAreClasses
  BY DEF ViewInv, Classes, GroupsAreClasses, Linked
<1>2. PaneComplete
  <2> SUFFICES ASSUME job = NoFill
               PROVE  [i \in DOMAIN listRows[tab] |-> listRows[tab][i].root]
                      = [n \in DOMAIN Indices(groups, tab) |-> groups[Indices(groups, tab)[n]].root]
    BY DEF PaneComplete
  <2>1. /\ listRows[tab] \in Seq(RowSet) /\ GroupsTyped(groups)
        /\ Shows(listRows[tab], groups, Indices(groups, tab), Len(Indices(groups, tab)))
    BY DEF ViewInv, PaneAt
  <2>2. DOMAIN listRows[tab] = 1..Len(listRows[tab])
        /\ DOMAIN Indices(groups, tab) = 1..Len(Indices(groups, tab))
    BY <2>1, IndicesAre, LenProperties
  <2>3. DOMAIN listRows[tab] = DOMAIN Indices(groups, tab)
        /\ \A i \in DOMAIN listRows[tab] : listRows[tab][i].root = groups[Indices(groups, tab)[i]].root
    BY <2>1, <2>2 DEF Shows
  <2> QED BY <2>3
<1>3. ViewTypeOK
  BY DEF ViewInv, GroupsTyped, ViewTypeOK, ParentMaps, KindMaps
<1> QED BY <1>1, <1>2, <1>3 DEF ListsTrue

\* For all files, matches and sizes of the chunks: while no file was taken out the groups are the
\* classes of the matches, and when no fill is under way the open tab shows them all.
THEOREM ListsAreTrue == ViewSpec => []ListsTrue
BY ViewInitInv, ViewStepInv, ViewInvIs, PTL DEF ViewSpec

-----------------------------------------------------------------------------
(* Thumbnails.                                                               *)

Requests == [id : Nat, path : ThumbPaths]
Awaited  == [id : Nat, path : ThumbPaths, asked : Nat]
Answers  == [id : Nat, art : Nat]
Works    == [step : {"identified", "drawn"}, req : Requests, id : Nat, art : Nat]

\* The places of a sequence of requests or answers that have the id n.
Where(s, n) == {i \in DOMAIN s : s[i].id = n}

\* What is under way for the id n.
UnderWay(n) ==
    Cardinality(Where(toBackend, n)) + Cardinality(Where(toWindow, n))
    + (IF serving # Idle /\ serving.req.id = n THEN 1 ELSE 0)

\* The values the exchange moves about.
ThumbTypes ==
    /\ version \in [ThumbPaths -> Nat] /\ engineArt \in [ThumbPaths -> Nat]
    /\ memStore \in Seq(ThumbPaths \X Nat \X Nat)
    /\ rooted \in BOOLEAN
    /\ toBackend \in Seq(Requests) /\ toWindow \in Seq(Answers)
    /\ pendingReq \subseteq Awaited /\ IsFiniteSet(pendingReq)
    /\ serving = Idle \/ serving \in Works
    /\ connected \in {"up", "lost", "down"}

\* What the store has before it, the window waits for: so a new id, which
\* differs from those of the requests and the answers, differs from them all.
Wanted(n) == \E r \in pendingReq : r.id = n

StoreServesTheWindow ==
    /\ \A i \in DOMAIN toBackend : Wanted(toBackend[i].id)
    /\ serving # Idle => Wanted(serving.req.id)
    /\ connected # "up" => toBackend = <<>> /\ serving = Idle
    /\ connected = "down" => pendingReq = {}

IdsDiffer == \A r, s \in pendingReq : r.id = s.id => r = s

ExchangeInv == ThumbTypes /\ StoreServesTheWindow /\ IdsDiffer /\ RequestsTracked

-----------------------------------------------------------------------------
(* Counting the places of an id.                                             *)

\* The places of an id are finitely many.
LEMMA PlacesAreFinite ==
  ASSUME NEW S, NEW s \in Seq(S), NEW n
  PROVE  /\ IsFiniteSet(Where(s, n)) /\ Cardinality(Where(s, n)) \in Nat
         /\ Cardinality(Where(s, n)) = 0 <=> Where(s, n) = {}
<1>1. DOMAIN s = 1 .. Len(s) /\ Len(s) \in Nat
  BY LenProperties
<1>2. IsFiniteSet(1 .. Len(s))
  BY <1>1, FS_Interval
<1>3. Where(s, n) \in SUBSET (1 .. Len(s))
  BY <1>1 DEF Where
<1>4. IsFiniteSet(Where(s, n))
  BY <1>2, <1>3, FS_Subset
<1> QED BY <1>4, FS_CardinalityType, FS_EmptySet

\* An element that is appended adds a place to its id.
LEMMA CountAppend ==
  ASSUME NEW S, NEW s \in Seq(S), NEW e \in S, NEW n
  PROVE  Cardinality(Where(Append(s, e), n))
         = Cardinality(Where(s, n)) + (IF e.id = n THEN 1 ELSE 0)
<1> DEFINE t == Append(s, e)
<1>1. DOMAIN s = 1 .. Len(s) /\ Len(s) \in Nat
  BY LenProperties
<1>2. /\ t \in Seq(S) /\ Len(t) = Len(s) + 1
      /\ \A i \in 1 .. Len(s) : t[i] = s[i]
      /\ t[Len(s) + 1] = e
  BY AppendProperties
<1>3. DOMAIN t = 1 .. Len(s) + 1
  BY <1>2, LenProperties
<1>4. DOMAIN t = (DOMAIN s) \cup {Len(s) + 1} /\ Len(s) + 1 \notin DOMAIN s
  BY <1>1, <1>3
<1>5. \A i \in DOMAIN s : t[i] = s[i]
  BY <1>1, <1>2
<1>6. Len(s) + 1 \notin Where(s, n)
  BY <1>4 DEF Where
<1> HIDE DEF t
<1>7. CASE e.id = n
  <2>1. Where(t, n) = Where(s, n) \cup {Len(s) + 1}
    BY <1>2, <1>4, <1>5, <1>7 DEF Where
  <2> QED BY <2>1, <1>6, <1>7, PlacesAreFinite, FS_AddElement, ZenonT(30) DEF t
<1>8. CASE e.id # n
  <2>1. Where(t, n) = Where(s, n)
    BY <1>2, <1>4, <1>5, <1>8 DEF Where
  <2> QED BY <2>1, <1>8, PlacesAreFinite DEF t
<1> QED BY <1>7, <1>8

\* The head that is taken away was a place of its id; the others move up.
LEMMA CountTail ==
  ASSUME NEW S, NEW s \in Seq(S), s # <<>>, NEW n
  PROVE  Cardinality(Where(s, n))
         = Cardinality(Where(Tail(s), n)) + (IF Head(s).id = n THEN 1 ELSE 0)
<1> DEFINE t == Tail(s)
           f == [i \in Where(t, n) |-> i + 1]
           R == Where(s, n) \ {1}
<1>1. DOMAIN s = 1 .. Len(s) /\ Len(s) \in Nat \ {0} /\ Head(s) = s[1]
  BY LenProperties, EmptySeq
<1>2. /\ t \in Seq(S) /\ Len(t) = Len(s) - 1
      /\ \A i \in 1 .. Len(t) : t[i] = s[i + 1]
  BY HeadTailProperties
<1>3. DOMAIN t = 1 .. Len(s) - 1
  BY <1>2, LenProperties
<1> HIDE DEF t
<1>4. f \in [Where(t, n) -> R]
  <2> SUFFICES ASSUME NEW i \in Where(t, n) PROVE i + 1 \in R
    OBVIOUS
  <2>1. i \in 1 .. Len(s) - 1 /\ t[i].id = n
    BY <1>3 DEF Where
  <2>2. i + 1 \in DOMAIN s /\ s[i + 1].id = n /\ i + 1 # 1
    BY <1>1, <1>2, <2>1
  <2> QED BY <2>2 DEF Where
<1>5. \A j \in R : \E i \in Where(t, n) : f[i] = j
  <2> SUFFICES ASSUME NEW j \in R PROVE \E i \in Where(t, n) : f[i] = j
    OBVIOUS
  <2>1. j \in 2 .. Len(s) /\ s[j].id = n
    BY <1>1 DEF Where
  <2>2. j - 1 \in DOMAIN t /\ t[j - 1].id = n /\ (j - 1) + 1 = j
    BY <1>1, <1>2, <1>3, <2>1
  <2>3. j - 1 \in Where(t, n)
    BY <2>2 DEF Where
  <2> QED BY <2>2, <2>3
<1>6. \A i, j \in Where(t, n) : f[i] = f[j] => i = j
  <2> SUFFICES ASSUME NEW i \in Where(t, n), NEW j \in Where(t, n), i + 1 = j + 1 PROVE i = j
    OBVIOUS
  <2>1. i \in 1 .. Len(s) - 1 /\ j \in 1 .. Len(s) - 1
    BY <1>3 DEF Where
  <2> QED BY <1>1, <2>1
<1>7. f \in Bijection(Where(t, n), R)
  BY <1>4, <1>5, <1>6, Fun_IsBij
<1>8. Cardinality(R) = Cardinality(Where(t, n))
  BY <1>2, <1>7, PlacesAreFinite, FS_Bijection DEF ExistsBijection
<1>9. IsFiniteSet(Where(s, n)) /\ Cardinality(Where(s, n)) \in Nat
  BY PlacesAreFinite
<1>10. 1 \in Where(s, n) <=> Head(s).id = n
  BY <1>1 DEF Where
<1>11. Cardinality(R) = IF 1 \in Where(s, n) THEN Cardinality(Where(s, n)) - 1
                        ELSE Cardinality(Where(s, n))
  BY <1>9, FS_RemoveElement
<1> QED BY <1>8, <1>9, <1>10, <1>11 DEF t

-----------------------------------------------------------------------------
(* Steps.                                                                    *)

\* A new id exists: there are more numbers than requests and answers.
LEMMA FreshIdIsNew ==
  ASSUME ThumbTypes
  PROVE  /\ FreshId \in Nat /\ ~Wanted(FreshId)
         /\ \A i \in DOMAIN toWindow : toWindow[i].id # FreshId
<1> DEFINE f == [r \in pendingReq |-> r.id]
           A == {f[r] : r \in pendingReq}
           g == [i \in DOMAIN toWindow |-> toWindow[i].id]
           B == {g[i] : i \in DOMAIN toWindow}
           k == Cardinality(pendingReq) + Len(toBackend) + Len(toWindow)
<1>1. IsFiniteSet(pendingReq) /\ Cardinality(pendingReq) \in Nat
  BY FS_CardinalityType DEF ThumbTypes
<1>2. /\ Len(toBackend) \in Nat /\ Len(toWindow) \in Nat
      /\ DOMAIN toWindow = 1 .. Len(toWindow)
  BY LenProperties DEF ThumbTypes
<1>3. IsFiniteSet(DOMAIN toWindow) /\ Cardinality(DOMAIN toWindow) = Len(toWindow)
  <2> HIDE DEF f, A, g, B, k
  <2>1. 1 \in Int /\ Len(toWindow) \in Int
    BY <1>2
  <2>2. IsFiniteSet(1 .. Len(toWindow))
    BY <2>1, FS_Interval
  <2>3. Cardinality(1 .. Len(toWindow)) = IF 1 > Len(toWindow) THEN 0 ELSE Len(toWindow) - 1 + 1
    BY <2>1, FS_Interval
  <2> QED BY <2>2, <2>3, <1>2
<1>4. f \in Surjection(pendingReq, A) /\ g \in Surjection(DOMAIN toWindow, B)
  BY Fun_IsSurj
<1>5. IsFiniteSet(A) /\ Cardinality(A) <= Cardinality(pendingReq)
  BY <1>1, <1>4, FS_Surjection
<1>6. IsFiniteSet(B) /\ Cardinality(B) <= Len(toWindow)
  BY <1>3, <1>4, FS_Surjection
<1>7. IsFiniteSet(A \cup B) /\ Cardinality(A \cup B) <= k
  <2>1. Cardinality(A) \in Nat /\ Cardinality(B) \in Nat
    BY <1>5, <1>6, FS_CardinalityType
  <2>2. Cardinality(A \cap B) \in Nat
    BY <1>5, FS_Intersection, FS_CardinalityType
  <2>3. /\ IsFiniteSet(A \cup B)
        /\ Cardinality(A \cup B) = Cardinality(A) + Cardinality(B) - Cardinality(A \cap B)
    BY <1>5, <1>6, FS_Union
  <2> HIDE DEF A, B
  <2> QED BY <2>1, <2>2, <2>3, <1>1, <1>2, <1>5, <1>6
<1>8. \E n \in 1 .. 1 + k : n \notin A \cup B
  <2> SUFFICES ASSUME 1 .. 1 + k \subseteq A \cup B PROVE FALSE
    OBVIOUS
  <2>1. k \in Nat
    BY <1>1, <1>2
  <2> HIDE DEF k, A, B
  <2>2. IsFiniteSet(1 .. 1 + k) /\ Cardinality(1 .. 1 + k) = 1 + k
    BY <2>1, FS_Interval
  <2>3. Cardinality(1 .. 1 + k) <= Cardinality(A \cup B)
    BY <1>7, FS_Subset
  <2>4. Cardinality(A \cup B) \in Nat
    BY <1>7, FS_CardinalityType
  <2> QED BY <2>1, <2>2, <2>3, <2>4, <1>7
<1>9. \E n \in 1 .. 1 + Cardinality(pendingReq) + Len(toBackend) + Len(toWindow) :
         /\ \A r \in pendingReq : r.id # n
         /\ \A i \in DOMAIN toWindow : toWindow[i].id # n
  <2>1. PICK n \in 1 .. 1 + k : n \notin A \cup B
    BY <1>8
  <2>2. \A r \in pendingReq : r.id # n
    BY <2>1
  <2>3. \A i \in DOMAIN toWindow : toWindow[i].id # n
    BY <2>1
  <2>4. 1 + k = 1 + Cardinality(pendingReq) + Len(toBackend) + Len(toWindow)
    BY <1>1, <1>2
  <2> QED BY <2>1, <2>2, <2>3, <2>4
<1>10. /\ FreshId \in 1 .. 1 + Cardinality(pendingReq) + Len(toBackend) + Len(toWindow)
       /\ \A r \in pendingReq : r.id # FreshId
       /\ \A i \in DOMAIN toWindow : toWindow[i].id # FreshId
  BY <1>9 DEF FreshId
<1> QED BY <1>10, <1>1, <1>2 DEF Wanted

\* The memory list keeps its elements when one comes to the front or the last goes.
LEMMA MemListKept ==
  ASSUME ThumbTypes, NEW p \in ThumbPaths, NEW id \in Nat, NEW art \in Nat
  PROVE  MemAdd(p, id, art) \in Seq(ThumbPaths \X Nat \X Nat)
<1> DEFINE E == ThumbPaths \X Nat \X Nat
           longer == <<<<p, id, art>>>> \o memStore
<1>1. <<p, id, art>> \in E
  OBVIOUS
<1>2. <<<<p, id, art>>>> \in Seq(E)
  BY <1>1
<1>3. longer \in Seq(E)
  BY <1>2, ConcatProperties DEF ThumbTypes
<1>4. Len(longer) \in Nat /\ \A i \in 1 .. Len(longer) - 1 : longer[i] \in E
  <2> HIDE DEF longer, E
  <2> QED BY <1>3, LenProperties, ElementOfSeq
<1>5. SubSeq(longer, 1, Len(longer) - 1) \in Seq(E)
  <2> HIDE DEF longer, E
  <2> QED BY <1>4, SubSeqProperties
<1> QED BY <1>3, <1>5 DEF MemAdd, Front

\* The memory store's list keeps its type when a picture that is used moves to the front.
LEMMA MemListMoved ==
  ASSUME ThumbTypes, NEW i \in DOMAIN memStore
  PROVE  /\ <<memStore[i]>> \o RemoveAt(memStore, i) \in Seq(ThumbPaths \X Nat \X Nat)
         /\ memStore[i][3] \in Nat
<1> DEFINE E == ThumbPaths \X Nat \X Nat
<1>1. memStore \in Seq(E) /\ Len(memStore) \in Nat /\ DOMAIN memStore = 1 .. Len(memStore)
  BY LenProperties DEF ThumbTypes
<1>2. \A j \in 1 .. Len(memStore) : memStore[j] \in E
  BY <1>1, ElementOfSeq
<1>3. i \in Int /\ i - 1 \in Int /\ i + 1 \in Int /\ i \in 1 .. Len(memStore)
  BY <1>1
<1>4. SubSeq(memStore, 1, i - 1) \in Seq(E)
  <2>1. \A j \in 1 .. i - 1 : memStore[j] \in E
    BY <1>2, <1>3
  <2> HIDE DEF E
  <2> QED BY <1>3, <2>1, SubSeqProperties
<1>5. SubSeq(memStore, i + 1, Len(memStore)) \in Seq(E)
  <2>1. \A j \in i + 1 .. Len(memStore) : memStore[j] \in E
    BY <1>2, <1>3
  <2> HIDE DEF E
  <2> QED BY <1>1, <1>3, <2>1, SubSeqProperties
<1>6. <<memStore[i]>> \in Seq(E) /\ memStore[i][3] \in Nat
  <2>1. memStore[i] \in E
    BY <1>2, <1>3
  <2> QED BY <2>1
<1>7. RemoveAt(memStore, i) \in Seq(E)
  <2> HIDE DEF E
  <2> QED BY <1>4, <1>5, ConcatProperties DEF RemoveAt
<1> HIDE DEF E
<1>8. <<memStore[i]>> \o RemoveAt(memStore, i) \in Seq(E)
  BY <1>6, <1>7, ConcatProperties
<1> QED BY <1>6, <1>8 DEF E

\* The record under which a request is worked on.
LEMMA WorkHasFields ==
  ASSUME ThumbTypes, serving.step \in {"identified", "drawn"}
  PROVE  /\ serving \in Works /\ serving # Idle
         /\ serving.req \in Requests /\ serving.req.path \in ThumbPaths /\ serving.req.id \in Nat
         /\ serving.id \in Nat /\ serving.art \in Nat
<1>1. Idle.step = "idle"
  BY DEF Idle
<1>2. serving # Idle
  BY <1>1
<1> QED BY <1>2 DEF ThumbTypes, Works, Requests

\* A request that is taken up is worked on under the version the file has.
LEMMA WorkIsTyped ==
  ASSUME NEW r \in Requests, NEW step \in {"identified", "drawn"}, NEW id \in Nat,
         NEW art \in Nat
  PROVE  Serving(step, r, id, art) \in Works
BY DEF Serving, Works

\* At first nothing is asked for.
LEMMA ExchangeInit == ThumbInit => ExchangeInv
<1> SUFFICES ASSUME ThumbInit PROVE ExchangeInv
  OBVIOUS
<1>1. ThumbTypes
  BY FS_EmptySet DEF ThumbInit, ThumbTypes
<1>2. pendingReq = {} /\ toBackend = <<>> /\ serving = Idle /\ connected = "up"
  BY DEF ThumbInit
<1> QED BY <1>1, <1>2 DEF ExchangeInv, StoreServesTheWindow, IdsDiffer, RequestsTracked, Wanted

\* RequestsTracked in terms of what is under way.
LEMMA TrackedByCount ==
  RequestsTracked <=>
    /\ connected # "lost" => \A r \in pendingReq : UnderWay(r.id) = 1
    /\ \A r, s \in pendingReq : r.path = s.path => r = s
BY DEF RequestsTracked, UnderWay, Where

\* The same after a step.
LEMMA TrackedByCountNext ==
  RequestsTracked' <=>
    /\ connected' # "lost" => \A r \in pendingReq' : UnderWay(r.id)' = 1
    /\ \A r, s \in pendingReq' : r.path = s.path => r = s
BY DEF RequestsTracked, UnderWay, Where

\* What is under way after a step.
LEMMA UnderWayNext ==
  ASSUME NEW n
  PROVE  UnderWay(n)' = Cardinality(Where(toBackend', n)) + Cardinality(Where(toWindow', n))
                        + (IF serving' # Idle /\ serving'.req.id = n THEN 1 ELSE 0)
BY DEF UnderWay, Where

\* Steps that leave the exchange alone: edits, scans, rebuilt rows, the choice
\* of the art, and a new backend after the window has forgotten its requests.
LEMMA QuietStep ==
  ASSUME ExchangeInv, ThumbTypes',
         UNCHANGED <<toBackend, toWindow, pendingReq>>,
         \/ serving' = serving
         \/ serving # Idle /\ serving' # Idle /\ serving'.req = serving.req,
         \/ connected' = connected
         \/ connected = "down" /\ connected' = "up"
  PROVE  ExchangeInv'
<1>1. serving' = Idle <=> serving = Idle
  OBVIOUS
<1>2. serving # Idle => serving'.req = serving.req
  OBVIOUS
<1>3. \A n : UnderWay(n)' = UnderWay(n)
  BY <1>1, <1>2 DEF UnderWay, Where
<1>4. RequestsTracked'
  BY <1>3, TrackedByCount, TrackedByCountNext DEF ExchangeInv, StoreServesTheWindow
<1>5. StoreServesTheWindow'
  BY <1>1, <1>2 DEF ExchangeInv, StoreServesTheWindow, Wanted
<1> QED BY <1>4, <1>5 DEF ExchangeInv, IdsDiffer

\* A new request: its id is under way once, and no other id changes.
LEMMA RequestStep ==
  ASSUME ExchangeInv, NEW p \in ThumbPaths, RequestThumb(p)
  PROVE  ExchangeInv'
<1>1. ThumbTypes
  BY DEF ExchangeInv
<1> PICK n \in Nat, v \in Nat : n = FreshId /\ v = version[p]
  BY <1>1, FreshIdIsNew DEF ThumbTypes
<1> DEFINE new == [id |-> n, path |-> p, asked |-> v]
           sent == [id |-> n, path |-> p]
<1>2. /\ n \in Nat /\ ~Wanted(n)
      /\ \A i \in DOMAIN toWindow : toWindow[i].id # n
  BY <1>1, FreshIdIsNew
<1>3. /\ pendingReq' = pendingReq \cup {new} /\ toBackend' = Append(toBackend, sent)
      /\ UNCHANGED <<version, engineArt, memStore, rooted, serving, toWindow, connected>>
      /\ connected = "up" /\ ~InFlight(p)
  BY DEF RequestThumb, scanVars, storeVars
<1>4. new \in Awaited /\ sent \in Requests
  BY <1>1, <1>2 DEF Awaited, Requests, ThumbTypes
<1>5. ThumbTypes'
  <2>1. toBackend' \in Seq(Requests)
    BY <1>1, <1>3, <1>4, AppendProperties DEF ThumbTypes
  <2>2. pendingReq' \subseteq Awaited /\ IsFiniteSet(pendingReq')
    BY <1>1, <1>3, <1>4, FS_AddElement DEF ThumbTypes
  <2> QED BY <1>1, <1>3, <2>1, <2>2 DEF ThumbTypes
<1>6. \A m : Wanted(m) => Wanted(m)'
  BY <1>3 DEF Wanted
<1>7. Wanted(n)'
  <2>1. new \in pendingReq' /\ new.id = n
    BY <1>3
  <2> HIDE DEF new
  <2> QED BY <2>1 DEF Wanted
<1>8. StoreServesTheWindow'
  <2>1. \A i \in DOMAIN toBackend' : Wanted(toBackend[i].id)'
    <3>1. /\ Len(toBackend) \in Nat /\ DOMAIN toBackend = 1 .. Len(toBackend)
          /\ DOMAIN toBackend' = 1 .. Len(toBackend) + 1
          /\ \A i \in 1 .. Len(toBackend) : toBackend'[i] = toBackend[i]
          /\ toBackend'[Len(toBackend) + 1] = sent
      BY <1>1, <1>3, <1>4, <1>5, LenProperties, AppendProperties DEF ThumbTypes
    <3>2. \A i \in DOMAIN toBackend' : i \in DOMAIN toBackend \/ i = Len(toBackend) + 1
      BY <3>1
    <3>3. \A i \in DOMAIN toBackend : Wanted(toBackend[i].id)
      BY DEF ExchangeInv, StoreServesTheWindow
    <3> QED BY <3>1, <3>2, <3>3, <1>6, <1>7
  <2>2. (serving # Idle => Wanted(serving.req.id))'
    BY <1>3, <1>6 DEF ExchangeInv, StoreServesTheWindow
  <2> QED BY <2>1, <2>2, <1>3 DEF StoreServesTheWindow
<1>9. IdsDiffer'
  <2>1. \A r \in pendingReq : r.id # n
    BY <1>2 DEF Wanted
  <2> QED BY <2>1, <1>3 DEF ExchangeInv, IdsDiffer
<1>10. UnderWay(n)' = 1
  <2>1. Where(toBackend, n) = {}
    BY <1>2 DEF ExchangeInv, StoreServesTheWindow, Where
  <2>2. Where(toWindow, n) = {}
    BY <1>2 DEF Where
  <2>3. ~(serving # Idle /\ serving.req.id = n)
    BY <1>2 DEF ExchangeInv, StoreServesTheWindow
  <2>4. Cardinality(Where(toBackend', n)) = Cardinality(Where(toBackend, n)) + 1
    BY <1>1, <1>3, <1>4, CountAppend DEF ThumbTypes
  <2>5. Cardinality(Where(toBackend, n)) = 0 /\ Cardinality(Where(toWindow, n)) = 0
    BY <2>1, <2>2, FS_EmptySet
  <2>6. serving' = serving /\ toWindow' = toWindow
    BY <1>3
  <2> QED BY <2>3, <2>4, <2>5, <2>6, UnderWayNext
<1>11. \A r \in pendingReq : UnderWay(r.id)' = UnderWay(r.id)
  <2> SUFFICES ASSUME NEW r \in pendingReq PROVE UnderWay(r.id)' = UnderWay(r.id)
    OBVIOUS
  <2>1. r.id # n
    BY <1>2 DEF Wanted
  <2>2. Cardinality(Where(toBackend', r.id)) = Cardinality(Where(toBackend, r.id)) + 0
    BY <1>1, <1>3, <1>4, <2>1, CountAppend DEF ThumbTypes
  <2>3. Cardinality(Where(toBackend, r.id)) \in Nat
    BY <1>1, PlacesAreFinite DEF ThumbTypes
  <2> QED BY <2>2, <2>3, <1>3, UnderWayNext DEF UnderWay
<1>12. \A r, s \in pendingReq' : r.path = s.path => r = s
  <2>1. \A r \in pendingReq : r.path # p
    BY <1>3 DEF InFlight
  <2> QED BY <2>1, <1>3 DEF ExchangeInv, RequestsTracked
<1>13. connected # "lost" => \A r \in pendingReq : UnderWay(r.id) = 1
  BY TrackedByCount DEF ExchangeInv
<1>14. \A r \in pendingReq' : UnderWay(r.id)' = 1
  <2> SUFFICES ASSUME NEW r \in pendingReq' PROVE UnderWay(r.id)' = 1
    OBVIOUS
  <2>1. CASE r \in pendingReq
    BY <2>1, <1>3, <1>11, <1>13
  <2>2. CASE r = new
    BY <2>2, <1>10
  <2> QED BY <2>1, <2>2, <1>3
<1> QED BY <1>5, <1>8, <1>9, <1>12, <1>14, TrackedByCountNext DEF ExchangeInv

\* A request is taken up: it leaves the way to the store and is in its hands, or, when no
\* folder is known, answered.
LEMMA TakeStep ==
  ASSUME ExchangeInv, TakeRequest
  PROVE  ExchangeInv'
<1> PICK r : r = Head(toBackend)
  OBVIOUS
<1>1. ThumbTypes
  BY DEF ExchangeInv
<1>2. /\ serving = Idle /\ toBackend # <<>> /\ toBackend' = Tail(toBackend)
      /\ \/ toWindow' = Answer(r, 0) /\ serving' = Idle /\ memStore' = memStore
         \/ /\ toWindow' = toWindow /\ serving' = Serving("identified", r, version[r.path], 0)
            /\ memStore' \in {<<>>, memStore}
      /\ UNCHANGED <<version, engineArt, rooted, connected, pendingReq>>
      /\ connected = "up"
  BY DEF TakeRequest, scanVars, guiVars
<1>3. /\ r \in Requests /\ toBackend' \in Seq(Requests)
      /\ Len(toBackend') = Len(toBackend) - 1
      /\ \A i \in 1 .. Len(toBackend') : toBackend'[i] = toBackend[i + 1]
  BY <1>1, <1>2, HeadTailProperties DEF ThumbTypes
<1>4. /\ Len(toBackend) \in Nat \ {0} /\ DOMAIN toBackend = 1 .. Len(toBackend)
      /\ DOMAIN toBackend' = 1 .. Len(toBackend') /\ r = toBackend[1]
  BY <1>1, <1>2, <1>3, LenProperties, EmptySeq DEF ThumbTypes
<1>5. version[r.path] \in Nat /\ r.id \in Nat
  BY <1>1, <1>3 DEF ThumbTypes, Requests
<1>6. memStore' \in Seq(ThumbPaths \X Nat \X Nat)
  <2> DEFINE E == ThumbPaths \X Nat \X Nat
  <2>1. memStore \in Seq(E)
    BY <1>1 DEF ThumbTypes
  <2> HIDE DEF E
  <2>2. memStore' = <<>> \/ memStore' = memStore
    BY <1>2
  <2>3. memStore' \in Seq(E)
    BY <2>1, <2>2, EmptySeq
  <2> QED BY <2>3 DEF E
<1>7. \A i \in DOMAIN toBackend : Wanted(toBackend[i].id)
  BY DEF ExchangeInv, StoreServesTheWindow
<1>8. \A m : Wanted(m)' <=> Wanted(m)
  BY <1>2 DEF Wanted
<1>9. /\ \A i \in DOMAIN toBackend' : Wanted(toBackend[i].id)'
      /\ Wanted(r.id)'
  <2>1. \A i \in DOMAIN toBackend' : i + 1 \in DOMAIN toBackend /\ toBackend'[i] = toBackend[i + 1]
    BY <1>3, <1>4
  <2>2. 1 \in DOMAIN toBackend /\ r = toBackend[1]
    BY <1>4
  <2>3. pendingReq' = pendingReq
    BY <1>2
  <2>4. \A i \in DOMAIN toBackend' : Wanted(toBackend[i].id)'
    BY <1>7, <2>1, <2>3 DEF Wanted
  <2>5. Wanted(r.id)'
    BY <1>7, <2>2, <2>3 DEF Wanted
  <2> QED BY <2>4, <2>5
<1>10. \A m : Cardinality(Where(toBackend, m))
              = Cardinality(Where(toBackend', m)) + (IF r.id = m THEN 1 ELSE 0)
  BY <1>1, <1>2, CountTail DEF ThumbTypes
<1>11. \A m : /\ Cardinality(Where(toBackend', m)) \in Nat /\ Cardinality(Where(toBackend, m)) \in Nat
              /\ Cardinality(Where(toWindow, m)) \in Nat
  BY <1>1, <1>3, PlacesAreFinite DEF ThumbTypes
<1>12. \A m : UnderWay(m) = Cardinality(Where(toBackend, m)) + Cardinality(Where(toWindow, m))
  BY <1>2, <1>11 DEF UnderWay
<1>13. ASSUME ThumbTypes', serving' # Idle => serving'.req = r, \A m : UnderWay(m)' = UnderWay(m)
       PROVE  ExchangeInv'
  <2>1. StoreServesTheWindow'
    <3>1. (serving # Idle => Wanted(serving.req.id))'
      BY <1>9, <1>13
    <3>2. (connected # "up" => toBackend = <<>> /\ serving = Idle)' /\ (connected = "down" => pendingReq = {})'
      BY <1>2
    <3> QED BY <1>9, <3>1, <3>2 DEF StoreServesTheWindow
  <2>2. RequestsTracked'
    BY <1>2, <1>13, TrackedByCount, TrackedByCountNext DEF ExchangeInv
  <2> QED BY <1>2, <1>13, <2>1, <2>2 DEF ExchangeInv, IdsDiffer
<1>14. CASE toWindow' = Answer(r, 0) /\ serving' = Idle
  <2> DEFINE a == [id |-> r.id, art |-> 0]
  <2>1. a \in Answers /\ a.id = r.id
    BY <1>5 DEF Answers
  <2>2. toWindow' = Append(toWindow, a)
    BY <1>14 DEF Answer
  <2> HIDE DEF a
  <2>3. toWindow' \in Seq(Answers)
    BY <1>1, <2>1, <2>2, AppendProperties DEF ThumbTypes
  <2>4. ThumbTypes'
    BY <1>1, <1>2, <1>3, <1>6, <1>14, <2>3 DEF ThumbTypes
  <2>5. \A m : Cardinality(Where(toWindow', m))
               = Cardinality(Where(toWindow, m)) + (IF r.id = m THEN 1 ELSE 0)
    BY <1>1, <2>1, <2>2, CountAppend DEF ThumbTypes
  <2>6. ASSUME NEW m PROVE UnderWay(m)' = UnderWay(m)
    <3>1. UnderWay(m)' = Cardinality(Where(toBackend', m)) + Cardinality(Where(toWindow', m)) + 0
      BY <1>14, UnderWayNext
    <3> QED BY <3>1, <1>10, <1>11, <1>12, <2>5
  <2> QED BY <1>13, <1>14, <2>4, <2>6
<1>15. CASE toWindow' = toWindow /\ serving' = Serving("identified", r, version[r.path], 0)
  <2>1. serving' \in Works
    BY <1>3, <1>5, <1>15, WorkIsTyped
  <2>2. serving'.req = r /\ serving'.step = "identified"
    BY <1>15 DEF Serving
  <2>3. serving' # Idle
    BY <2>2 DEF Idle
  <2>4. ThumbTypes'
    BY <1>1, <1>2, <1>3, <1>6, <1>15, <2>1 DEF ThumbTypes
  <2>5. ASSUME NEW m PROVE UnderWay(m)' = UnderWay(m)
    <3>1. UnderWay(m)' = Cardinality(Where(toBackend', m)) + Cardinality(Where(toWindow, m))
                         + (IF r.id = m THEN 1 ELSE 0)
      BY <1>15, <2>2, <2>3, UnderWayNext
    <3> QED BY <3>1, <1>10, <1>11, <1>12
  <2> QED BY <1>13, <2>2, <2>4, <2>5
<1> QED BY <1>2, <1>14, <1>15

\* An answer goes out: the request leaves the store's hands for the way back.
LEMMA AnswerStep ==
  ASSUME ExchangeInv, ThumbTypes', serving # Idle, serving' = Idle,
         NEW art \in Nat, toWindow' = Answer(serving.req, art),
         UNCHANGED <<toBackend, pendingReq, connected>>
  PROVE  ExchangeInv'
<1> DEFINE a == [id |-> serving.req.id, art |-> art]
<1>1. ThumbTypes /\ serving \in Works
  BY DEF ExchangeInv, ThumbTypes
<1>2. a \in Answers
  BY <1>1 DEF Works, Requests, Answers
<1>3. \A m : UnderWay(m)' = UnderWay(m)
  <2> SUFFICES ASSUME NEW m PROVE UnderWay(m)' = UnderWay(m)
    OBVIOUS
  <2>1. Cardinality(Where(toWindow', m))
        = Cardinality(Where(toWindow, m)) + (IF serving.req.id = m THEN 1 ELSE 0)
    BY <1>1, <1>2, CountAppend DEF ThumbTypes, Answer
  <2>2. Cardinality(Where(toWindow, m)) \in Nat /\ Cardinality(Where(toBackend, m)) \in Nat
    BY <1>1, PlacesAreFinite DEF ThumbTypes
  <2>3. toBackend' = toBackend
    OBVIOUS
  <2> QED BY <2>1, <2>2, <2>3, UnderWayNext DEF UnderWay
<1>4. RequestsTracked'
  BY <1>3, TrackedByCount, TrackedByCountNext DEF ExchangeInv
<1>5. StoreServesTheWindow'
  BY DEF ExchangeInv, StoreServesTheWindow, Wanted
<1> QED BY <1>4, <1>5 DEF ExchangeInv, IdsDiffer

\* An answer arrives: who waits for it, if anyone, waits no more, and the store
\* has nothing left to do for that id.
LEMMA ReadyStep ==
  ASSUME ExchangeInv, ThumbReady
  PROVE  ExchangeInv'
<1> DEFINE a == Head(toWindow)
<1>1. ThumbTypes
  BY DEF ExchangeInv
<1>2. /\ toWindow # <<>> /\ toWindow' = Tail(toWindow)
      /\ UNCHANGED <<version, engineArt, memStore, rooted, serving, toBackend, connected>>
      /\ pendingReq' \subseteq pendingReq
      /\ \/ pendingReq' = pendingReq /\ \A r \in pendingReq : r.id # a.id
         \/ \E r \in pendingReq : r.id = a.id /\ pendingReq' = pendingReq \ {r}
  BY DEF ThumbReady, scanVars, storeVars
<1>3. a \in Answers /\ toWindow' \in Seq(Answers)
  BY <1>1, <1>2, HeadTailProperties DEF ThumbTypes
<1>4. ThumbTypes'
  <2>1. IsFiniteSet(pendingReq')
    BY <1>1, <1>2, FS_Subset DEF ThumbTypes
  <2> QED BY <1>1, <1>2, <1>3, <2>1 DEF ThumbTypes
<1>5. \A r \in pendingReq' : r.id # a.id
  BY <1>2 DEF ExchangeInv, IdsDiffer
<1>6. \A r \in pendingReq : r.id # a.id => r \in pendingReq'
  BY <1>2
<1>7. \A m : Cardinality(Where(toWindow, m))
             = Cardinality(Where(toWindow', m)) + (IF a.id = m THEN 1 ELSE 0)
  BY <1>1, <1>2, CountTail DEF ThumbTypes
<1>8. \A m : /\ Cardinality(Where(toWindow, m)) \in Nat /\ Cardinality(Where(toWindow', m)) \in Nat
             /\ Cardinality(Where(toBackend, m)) \in Nat
             /\ Cardinality(Where(toBackend, m)) = 0 <=> Where(toBackend, m) = {}
  BY <1>1, <1>3, PlacesAreFinite DEF ThumbTypes
<1> HIDE DEF a
<1>9. \A m : a.id # m => UnderWay(m)' = UnderWay(m)
  <2> SUFFICES ASSUME NEW m, a.id # m PROVE UnderWay(m)' = UnderWay(m)
    OBVIOUS
  <2>1. Cardinality(Where(toWindow, m)) = Cardinality(Where(toWindow', m))
    BY <1>7, <1>8
  <2>2. toBackend' = toBackend /\ serving' = serving
    BY <1>2
  <2> QED BY <2>1, <2>2, UnderWayNext DEF UnderWay
<1>10. connected # "lost" => \A r \in pendingReq : UnderWay(r.id) = 1
  BY TrackedByCount DEF ExchangeInv
<1>11. RequestsTracked'
  <2>1. connected' # "lost" => \A r \in pendingReq' : UnderWay(r.id)' = 1
    BY <1>2, <1>5, <1>9, <1>10
  <2>2. \A r, s \in pendingReq' : r.path = s.path => r = s
    BY <1>2 DEF ExchangeInv, RequestsTracked
  <2> QED BY <2>1, <2>2, TrackedByCountNext
<1>12. Wanted(a.id) /\ connected # "lost" =>
          /\ \A i \in DOMAIN toBackend : toBackend[i].id # a.id
          /\ ~(serving # Idle /\ serving.req.id = a.id)
  <2> SUFFICES ASSUME Wanted(a.id), connected # "lost"
               PROVE  /\ \A i \in DOMAIN toBackend : toBackend[i].id # a.id
                      /\ ~(serving # Idle /\ serving.req.id = a.id)
    OBVIOUS
  <2>1. UnderWay(a.id) = 1
    BY <1>10 DEF Wanted
  <2>2. Cardinality(Where(toWindow, a.id)) >= 1
    BY <1>7, <1>8
  <2>3. Cardinality(Where(toBackend, a.id)) = 0 /\ ~(serving # Idle /\ serving.req.id = a.id)
    BY <2>1, <2>2, <1>8 DEF UnderWay
  <2> QED BY <2>3, <1>8 DEF Where
<1>13. \A m : Wanted(m) /\ a.id # m => Wanted(m)'
  BY <1>6 DEF Wanted
<1>14. StoreServesTheWindow'
  <2>1. \A i \in DOMAIN toBackend : Wanted(toBackend[i].id) /\ toBackend[i].id # a.id
    <3>1. CASE connected = "lost"
      BY <3>1 DEF ExchangeInv, StoreServesTheWindow
    <3>2. CASE connected # "lost"
      BY <3>2, <1>12 DEF ExchangeInv, StoreServesTheWindow
    <3> QED BY <3>1, <3>2
  <2>2. serving # Idle => Wanted(serving.req.id) /\ serving.req.id # a.id
    <3>1. CASE connected = "lost"
      BY <3>1 DEF ExchangeInv, StoreServesTheWindow
    <3>2. CASE connected # "lost"
      BY <3>2, <1>12 DEF ExchangeInv, StoreServesTheWindow
    <3> QED BY <3>1, <3>2
  <2>3. \A i \in DOMAIN toBackend' : Wanted(toBackend[i].id)'
    BY <2>1, <1>2, <1>13
  <2>4. (serving # Idle => Wanted(serving.req.id))'
    BY <2>2, <1>2, <1>13
  <2>5. connected' = "down" => pendingReq' = {}
    BY <1>2 DEF ExchangeInv, StoreServesTheWindow
  <2>6. connected' # "up" => toBackend' = <<>> /\ serving' = Idle
    BY <1>2 DEF ExchangeInv, StoreServesTheWindow
  <2> QED BY <2>3, <2>4, <2>5, <2>6 DEF StoreServesTheWindow
<1>15. IdsDiffer'
  BY <1>2 DEF ExchangeInv, IdsDiffer
<1> QED BY <1>4, <1>11, <1>14, <1>15 DEF ExchangeInv

\* The backend dies, and the window hears of it.
LEMMA LossStep ==
  ASSUME ExchangeInv, ThumbBackendDies \/ ConnectionLost
  PROVE  ExchangeInv'
<1>1. CASE ThumbBackendDies
  <2>1. /\ connected' = "lost" /\ toBackend' = <<>> /\ serving' = Idle /\ memStore' = <<>>
        /\ engineArt' = [p \in ThumbPaths |-> 0]
        /\ rooted' \in BOOLEAN /\ UNCHANGED <<version, toWindow, pendingReq>>
    BY <1>1 DEF ThumbBackendDies, guiVars
  <2>2. ThumbTypes'
    BY <2>1 DEF ExchangeInv, ThumbTypes
  <2>3. RequestsTracked'
    BY <2>1 DEF ExchangeInv, RequestsTracked
  <2> QED BY <2>1, <2>2, <2>3 DEF ExchangeInv, StoreServesTheWindow, IdsDiffer
<1>2. CASE ConnectionLost
  <2>1. /\ connected = "lost" /\ connected' = "down" /\ pendingReq' = {}
        /\ UNCHANGED <<version, engineArt, memStore, rooted, serving, toBackend, toWindow>>
    BY <1>2 DEF ConnectionLost, scanVars, storeVars
  <2>2. ThumbTypes'
    BY <2>1, FS_EmptySet DEF ExchangeInv, ThumbTypes
  <2>3. toBackend' = <<>> /\ serving' = Idle
    BY <2>1 DEF ExchangeInv, StoreServesTheWindow
  <2> QED BY <2>1, <2>2, <2>3 DEF ExchangeInv, StoreServesTheWindow, IdsDiffer, RequestsTracked
<1> QED BY <1>1, <1>2

\* The store answers: from memory, with what it drew, or not.
LEMMA ServeStep ==
  ASSUME ExchangeInv, ServeMemory \/ DrawFails \/ StoreArt
  PROVE  ExchangeInv'
<1>1. ThumbTypes
  BY DEF ExchangeInv
<1>2. /\ serving # Idle /\ serving \in Works /\ serving.req \in Requests
      /\ serving.req.path \in ThumbPaths /\ serving.req.id \in Nat
      /\ serving.id \in Nat /\ serving.art \in Nat
  <2>1. serving.step \in {"identified", "drawn"}
    BY DEF ServeMemory, DrawFails, StoreArt
  <2> QED BY <1>1, <2>1, WorkHasFields
<1> DEFINE p == serving.req.path
<1>3. \A art \in Nat : Answer(serving.req, art) \in Seq(Answers)
  <2> SUFFICES ASSUME NEW art \in Nat PROVE Answer(serving.req, art) \in Seq(Answers)
    OBVIOUS
  <2>1. [id |-> serving.req.id, art |-> art] \in Answers
    BY <1>2 DEF Answers
  <2> QED BY <1>1, <2>1, AppendProperties DEF Answer, ThumbTypes
<1>4. CASE ServeMemory
  <2>1. PICK i \in MemHits(p, serving.id) :
           /\ memStore' = <<memStore[i]>> \o RemoveAt(memStore, i)
           /\ toWindow' = Answer(serving.req, memStore[i][3])
    BY <1>4 DEF ServeMemory
  <2>2. /\ serving' = Idle
        /\ UNCHANGED <<version, engineArt, rooted, toBackend, connected, pendingReq>>
    BY <1>4 DEF ServeMemory, scanVars, guiVars
  <2>3. i \in DOMAIN memStore
    BY <2>1 DEF MemHits
  <2>4. memStore' \in Seq(ThumbPaths \X Nat \X Nat) /\ memStore[i][3] \in Nat
    BY <1>1, <2>1, <2>3, MemListMoved
  <2>5. ThumbTypes'
    BY <1>1, <1>3, <2>1, <2>2, <2>4 DEF ThumbTypes
  <2> QED BY <1>2, <2>1, <2>2, <2>4, <2>5, AnswerStep
<1>5. CASE DrawFails
  <2>1. /\ toWindow' = Answer(serving.req, 0) /\ serving' = Idle
        /\ UNCHANGED <<version, engineArt, memStore, rooted, toBackend, connected, pendingReq>>
    BY <1>5 DEF DrawFails, scanVars, guiVars
  <2>2. ThumbTypes'
    BY <1>1, <1>3, <2>1 DEF ThumbTypes
  <2> QED BY <1>2, <2>1, <2>2, AnswerStep
<1>6. CASE StoreArt
  <2>1. /\ memStore' = MemAdd(p, serving.id, serving.art)
        /\ toWindow' = Answer(serving.req, serving.art) /\ serving' = Idle
        /\ UNCHANGED <<version, engineArt, rooted, toBackend, connected, pendingReq>>
    BY <1>6 DEF StoreArt, scanVars, guiVars
  <2>2. memStore' \in Seq(ThumbPaths \X Nat \X Nat)
    BY <1>1, <1>2, <2>1, MemListKept
  <2>3. ThumbTypes'
    BY <1>1, <1>2, <1>3, <2>1, <2>2 DEF ThumbTypes
  <2> QED BY <1>2, <2>1, <2>3, AnswerStep
<1> QED BY <1>4, <1>5, <1>6

\* What goes on around the exchange.
LEMMA AroundStep ==
  ASSUME ExchangeInv,
         \/ \E p \in ThumbPaths : EditFile(p) \/ AnalyseFile(p)
         \/ StartThumbScan \/ LoadRoot \/ FinishThumbScan \/ RefillRows \/ DrawArt \/ ConnectionBack
  PROVE  ExchangeInv'
<1>1. ThumbTypes
  BY DEF ExchangeInv
<1>2. ASSUME NEW p \in ThumbPaths, EditFile(p)
      PROVE  ExchangeInv'
  <2>1. /\ version' = [version EXCEPT ![p] = @ + 1]
        /\ UNCHANGED <<engineArt, memStore, rooted, serving, toBackend, toWindow, connected,
                       pendingReq>>
    BY <1>2 DEF EditFile, scanVars, storeVars, guiVars
  <2>2. ThumbTypes'
    <3>1. version' \in [ThumbPaths -> Nat]
      <4>1. version \in [ThumbPaths -> Nat] /\ version[p] + 1 \in Nat
        BY <1>1 DEF ThumbTypes
      <4> QED BY <2>1, <4>1
    <3> QED BY <1>1, <2>1, <3>1 DEF ThumbTypes
  <2> QED BY <2>1, <2>2, QuietStep
<1>3. ASSUME NEW p \in ThumbPaths, AnalyseFile(p)
      PROVE  ExchangeInv'
  <2>1. /\ engineArt' = [engineArt EXCEPT ![p] = version[p]]
        /\ UNCHANGED <<version, memStore, rooted, serving, toBackend, toWindow, connected,
                       pendingReq>>
    BY <1>3 DEF AnalyseFile, storeVars, guiVars
  <2>2. ThumbTypes'
    BY <1>1, <2>1 DEF ThumbTypes
  <2> QED BY <2>1, <2>2, QuietStep
<1>4. CASE StartThumbScan
  <2>1. /\ engineArt' = [p \in ThumbPaths |-> 0] /\ rooted' = TRUE
        /\ UNCHANGED <<version, memStore, serving, toBackend, toWindow, connected,
                       pendingReq>>
    BY <1>4 DEF StartThumbScan, storeVars, guiVars
  <2>2. ThumbTypes'
    BY <1>1, <2>1 DEF ThumbTypes
  <2> QED BY <2>1, <2>2, QuietStep
<1>5. CASE FinishThumbScan \/ RefillRows
  <2>1. UNCHANGED <<version, engineArt, memStore, rooted, serving, toBackend, toWindow,
                    connected, pendingReq>>
    BY <1>5 DEF FinishThumbScan, RefillRows, scanVars, storeVars
  <2>2. ThumbTypes'
    BY <1>1, <2>1 DEF ThumbTypes
  <2> QED BY <2>1, <2>2, QuietStep
<1>6. CASE DrawArt
  <2> DEFINE p == serving.req.path
  <2>1. /\ serving # Idle /\ serving \in Works /\ serving.req \in Requests
        /\ p \in ThumbPaths /\ serving.id \in Nat
    BY <1>1, <1>6, WorkHasFields DEF DrawArt
  <2>2. PICK art \in Nat : serving' = Serving("drawn", serving.req, serving.id, art)
    <3>1. engineArt[p] \in Nat /\ version[p] \in Nat
      BY <1>1, <2>1 DEF ThumbTypes
    <3> QED BY <1>6, <3>1 DEF DrawArt
  <2>3. serving' \in Works
    BY <2>1, <2>2, WorkIsTyped
  <2>4. serving'.req = serving.req /\ serving'.step = "drawn"
    BY <2>2 DEF Serving
  <2>5. serving' # Idle
    BY <2>4 DEF Idle
  <2>6. UNCHANGED <<version, engineArt, memStore, rooted, toBackend, toWindow, connected,
                    pendingReq>>
    BY <1>6 DEF DrawArt, scanVars, guiVars
  <2>7. ThumbTypes'
    BY <1>1, <2>3, <2>6 DEF ThumbTypes
  <2> QED BY <2>1, <2>4, <2>5, <2>6, <2>7, QuietStep
<1>7. CASE ConnectionBack
  <2>1. /\ connected = "down" /\ connected' = "up"
        /\ UNCHANGED <<version, engineArt, memStore, rooted, serving, toBackend, toWindow,
                       pendingReq>>
    BY <1>7 DEF ConnectionBack, scanVars, storeVars, guiVars
  <2>2. ThumbTypes'
    BY <1>1, <2>1 DEF ThumbTypes
  <2> QED BY <2>1, <2>2, QuietStep
<1>8. CASE LoadRoot
  <2>1. /\ rooted' = TRUE
        /\ UNCHANGED <<version, engineArt, memStore, serving, toBackend, toWindow, connected,
                       pendingReq>>
    BY <1>8 DEF LoadRoot, scanVars, guiVars
  <2>2. ThumbTypes'
    BY <1>1, <2>1 DEF ThumbTypes
  <2> QED BY <2>1, <2>2, QuietStep
<1> QED BY <1>2, <1>3, <1>4, <1>5, <1>6, <1>7, <1>8

-----------------------------------------------------------------------------

\* Every step of the exchange keeps its invariant.
LEMMA ExchangeStep == ExchangeInv /\ [ThumbNext]_thumbVars => ExchangeInv'
<1> SUFFICES ASSUME ExchangeInv, [ThumbNext]_thumbVars PROVE ExchangeInv'
  OBVIOUS
<1>1. CASE \E p \in ThumbPaths : RequestThumb(p)
  BY <1>1, RequestStep
<1>2. CASE ThumbReady
  BY <1>2, ReadyStep
<1>3. CASE TakeRequest
  BY <1>3, TakeStep
<1>4. CASE ServeMemory \/ DrawFails \/ StoreArt
  BY <1>4, ServeStep
<1>5. CASE ThumbBackendDies \/ ConnectionLost
  BY <1>5, LossStep
<1>6. CASE \/ \E p \in ThumbPaths : EditFile(p) \/ AnalyseFile(p)
           \/ StartThumbScan \/ LoadRoot \/ FinishThumbScan \/ RefillRows \/ DrawArt \/ ConnectionBack
  BY <1>6, AroundStep
<1>7. CASE UNCHANGED thumbVars
  <2>1. UNCHANGED <<version, engineArt, memStore, rooted, serving, toBackend, toWindow,
                    connected, pendingReq>>
    BY <1>7 DEF thumbVars, scanVars, storeVars, guiVars
  <2>2. ThumbTypes'
    BY <2>1 DEF ExchangeInv, ThumbTypes
  <2> QED BY <2>1, <2>2, QuietStep
<1> QED BY <1>1, <1>2, <1>3, <1>4, <1>5, <1>6, <1>7 DEF ThumbNext

\* Each request the window waits for is on its way to the backend, worked on, or
\* answered, exactly once, while the backend lives, and no two are for one row:
\* requestThumb, onThumbReady and the loss of a backend leave no request behind
\* whose answer cannot come, for any number of files, limit of requests and
\* size of the caches.
THEOREM RequestsAreTracked == ThumbSpec => []RequestsTracked
<1>1. ThumbInit => ExchangeInv
  BY ExchangeInit
<1>2. ExchangeInv => RequestsTracked
  BY DEF ExchangeInv
<1> QED BY <1>1, <1>2, ExchangeStep, PTL DEF ThumbSpec

-----------------------------------------------------------------------------
(* The types of the thumbnails: no picture is of a version the file has not   *)
(* had, and no list is longer than its limit.                               *)

\* What the window, the index and the engine hold of a file is no younger than the file.
Dated ==
    /\ scanState \in {"idle", "unchanged", "changed"}
    /\ thumbLeft \in [{"edits", "scans", "deaths", "fails"} -> Nat]
    /\ analysed \in [ThumbPaths -> Nat] /\ thumbCache \in [ThumbPaths -> Nat] /\ shown \in [ThumbPaths -> Nat]
    /\ \A p \in ThumbPaths :
        /\ 1 <= version[p] /\ version[p] + thumbLeft["edits"] <= 1 + MaxEdits
        /\ analysed[p] <= version[p] /\ engineArt[p] <= version[p] /\ thumbCache[p] <= version[p]
        /\ shown[p] <= version[p]

MemDated(mem, v) == Len(mem) <= MemMax /\ \A i \in DOMAIN mem : mem[i][3] <= v[mem[i][1]]

\* So is what the store holds, which is not too much.
Stored ==
    /\ MemDated(memStore, version)
    /\ serving # Idle => serving.art <= version[serving.req.path]

\* A request on its way, in work or answered is of the path the window asked for under its id.
Addressed ==
    /\ \A i \in DOMAIN toBackend : \A r \in pendingReq : toBackend[i].id = r.id => toBackend[i].path = r.path
    /\ serving # Idle => \A r \in pendingReq : serving.req.id = r.id => serving.req.path = r.path
    /\ \A i \in DOMAIN toWindow : \A r \in pendingReq : toWindow[i].id = r.id => toWindow[i].art <= version[r.path]

Held(cache) == {p \in ThumbPaths : cache[p] # 0}

Capped ==
    /\ Cardinality(pendingReq) <= PendingCap
    /\ IsFiniteSet(Held(thumbCache)) /\ Cardinality(Held(thumbCache)) <= CacheMax

ThumbInv == ExchangeInv /\ Dated /\ Stored /\ Addressed /\ Capped

\* At first there is no picture.
LEMMA ThumbInitInv == ThumbInit => ThumbInv
<1> SUFFICES ASSUME ThumbInit PROVE ThumbInv
  OBVIOUS
<1>1. {MaxEdits, MaxScans, MaxDeaths, MaxFails, PendingCap, CacheMax, MemMax} \subseteq Nat
  BY ThumbAssumption
<1>2. Dated
  <2>1. thumbLeft = [edits |-> MaxEdits, scans |-> MaxScans, deaths |-> MaxDeaths, fails |-> MaxFails]
    BY DEF ThumbInit
  <2>2. thumbLeft \in [{"edits", "scans", "deaths", "fails"} -> Nat] /\ thumbLeft["edits"] = MaxEdits
    BY <1>1, <2>1
  <2> QED BY <1>1, <2>2 DEF ThumbInit, Dated
<1>3. Stored
  BY <1>1 DEF ThumbInit, Stored, MemDated
<1>4. Addressed
  BY DEF ThumbInit, Addressed
<1>5. Capped
  <2>1. Held(thumbCache) = {} /\ pendingReq = {}
    BY DEF ThumbInit, Held
  <2> QED BY <1>1, <2>1, FS_EmptySet DEF Capped
<1> QED BY <1>2, <1>3, <1>4, <1>5, ExchangeInit DEF ThumbInv

\* A picture that is kept in memory is of a version the file has had, and the last one goes.
LEMMA MemAddDated ==
  ASSUME ThumbTypes, MemDated(memStore, version), NEW p \in ThumbPaths, NEW id \in Nat, NEW art \in Nat,
         art <= version[p]
  PROVE  MemDated(MemAdd(p, id, art), version)
<1> DEFINE E == ThumbPaths \X Nat \X Nat
           one == <<<<p, id, art>>>>
           longer == one \o memStore
<1>1. <<p, id, art>> \in E
  OBVIOUS
<1>2. one \in Seq(E) /\ Len(one) = 1 /\ one[1] = <<p, id, art>>
  BY <1>1
<1>3. memStore \in Seq(E) /\ Len(memStore) \in Nat /\ DOMAIN memStore = 1 .. Len(memStore)
  BY LenProperties DEF ThumbTypes
<1> HIDE DEF E, one
<1>4. /\ longer \in Seq(E) /\ Len(longer) = 1 + Len(memStore)
      /\ \A i \in 1 .. 1 + Len(memStore) : longer[i] = IF i <= 1 THEN one[i] ELSE memStore[i - 1]
  <2>1. /\ longer \in Seq(E) /\ Len(longer) = Len(one) + Len(memStore)
        /\ \A i \in 1 .. Len(one) + Len(memStore) : longer[i] = IF i <= Len(one) THEN one[i] ELSE memStore[i - Len(one)]
    BY <1>2, <1>3, ConcatProperties
  <2> QED BY <1>2, <2>1
<1> HIDE DEF longer
<1>5. ASSUME NEW i \in 1 .. 1 + Len(memStore) PROVE longer[i][3] <= version[longer[i][1]]
  <2>1. CASE i = 1
    BY <1>2, <1>4, <2>1
  <2>2. CASE i # 1
    <3>1. i - 1 \in DOMAIN memStore /\ ~(i <= 1)
      BY <1>3, <2>2
    <3> QED BY <1>4, <3>1 DEF MemDated
  <2> QED BY <2>1, <2>2
<1>6. MemAdd(p, id, art) = IF Len(longer) > MemMax THEN Front(longer) ELSE longer
  BY DEF MemAdd, longer, one
<1>7. MemMax \in Nat /\ Len(memStore) <= MemMax
  BY ThumbAssumption DEF MemDated
<1>8. DOMAIN longer = 1 .. 1 + Len(memStore)
  BY <1>4, LenProperties
<1>9. CASE ~(Len(longer) > MemMax)
  BY <1>3, <1>4, <1>5, <1>6, <1>7, <1>8, <1>9 DEF MemDated
<1>10. CASE Len(longer) > MemMax
  <2> DEFINE n == Len(memStore)
             m == SubSeq(longer, 1, n)
  <2>1. MemAdd(p, id, art) = m
    <3>1. Len(longer) - 1 = n
      BY <1>3, <1>4
    <3> QED BY <1>6, <1>10, <3>1 DEF Front
  <2>2. \A i \in 1 .. n : longer[i] \in E
    BY <1>3, <1>4, ElementOfSeq
  <2>3. /\ m \in Seq(E) /\ Len(m) = IF 1 <= n THEN n - 1 + 1 ELSE 0
        /\ \A i \in 1 .. n - 1 + 1 : m[i] = longer[1 + i - 1]
    BY <1>3, <2>2, SubSeqProperties
  <2> HIDE DEF m, n
  <2>4. n \in Nat /\ n <= MemMax
    BY <1>3, <1>7 DEF n
  <2>5. Len(m) = n /\ \A i \in 1 .. n : m[i] = longer[i]
    <3>1. n - 1 + 1 = n /\ \A i \in 1 .. n : 1 + i - 1 = i
      BY <2>4
    <3> QED BY <2>3, <2>4, <3>1
  <2>6. DOMAIN m = 1 .. n
    BY <2>3, <2>5, LenProperties
  <2>7. \A i \in 1 .. n : longer[i][3] <= version[longer[i][1]]
    BY <1>5, <2>4 DEF n
  <2> QED BY <2>1, <2>4, <2>5, <2>6, <2>7 DEF MemDated
<1> QED BY <1>9, <1>10

\* A picture that is used again moves to the front.
LEMMA MemMovedDated ==
  ASSUME ThumbTypes, MemDated(memStore, version), NEW k \in DOMAIN memStore
  PROVE  MemDated(<<memStore[k]>> \o RemoveAt(memStore, k), version)
<1> DEFINE E == ThumbPaths \X Nat \X Nat
           n == Len(memStore)
           a == SubSeq(memStore, 1, k - 1)
           b == SubSeq(memStore, k + 1, Len(memStore))
           one == <<memStore[k]>>
           rest == a \o b
           moved == one \o rest
<1>1. memStore \in Seq(E) /\ n \in Nat /\ DOMAIN memStore = 1 .. n /\ \A i \in 1 .. n : memStore[i] \in E
  BY LenProperties, ElementOfSeq DEF ThumbTypes
<1> HIDE DEF E
<1>2. k \in 1 .. n
  BY <1>1
<1>3. /\ a \in Seq(E) /\ Len(a) = IF 1 <= k - 1 THEN k - 1 - 1 + 1 ELSE 0
      /\ \A i \in 1 .. k - 1 - 1 + 1 : a[i] = memStore[1 + i - 1]
  <2>1. \A i \in 1 .. k - 1 : memStore[i] \in E
    BY <1>1, <1>2
  <2>2. k - 1 \in Int /\ 1 \in Int
    BY <1>2
  <2> QED BY <1>1, <2>1, <2>2, SubSeqProperties
<1>4. /\ b \in Seq(E) /\ Len(b) = IF k + 1 <= n THEN n - (k + 1) + 1 ELSE 0
      /\ \A i \in 1 .. n - (k + 1) + 1 : b[i] = memStore[k + 1 + i - 1]
  <2>1. \A i \in k + 1 .. n : memStore[i] \in E
    BY <1>1, <1>2
  <2>2. k + 1 \in Int /\ n \in Int
    BY <1>1, <1>2
  <2> QED BY <1>1, <2>1, <2>2, SubSeqProperties
<1> HIDE DEF a, b, n
<1>5. Len(a) = k - 1 /\ \A i \in 1 .. k - 1 : a[i] = memStore[i]
  <2>1. k - 1 - 1 + 1 = k - 1 /\ \A i \in 1 .. k - 1 : 1 + i - 1 = i
    BY <1>2
  <2> QED BY <1>2, <1>3, <2>1
<1>6. Len(b) = n - k /\ \A i \in 1 .. n - k : b[i] = memStore[k + i]
  <2>1. n - (k + 1) + 1 = n - k /\ \A i \in 1 .. n - k : k + 1 + i - 1 = k + i
    BY <1>1, <1>2
  <2> QED BY <1>1, <1>2, <1>4, <2>1
<1>7. one \in Seq(E) /\ Len(one) = 1 /\ one[1] = memStore[k]
  BY <1>1, <1>2
<1> HIDE DEF one
<1>8. /\ rest \in Seq(E) /\ Len(rest) = n - 1
      /\ \A i \in 1 .. n - 1 : rest[i] = IF i <= k - 1 THEN a[i] ELSE b[i - (k - 1)]
  <2>1. /\ rest \in Seq(E) /\ Len(rest) = Len(a) + Len(b)
        /\ \A i \in 1 .. Len(a) + Len(b) : rest[i] = IF i <= Len(a) THEN a[i] ELSE b[i - Len(a)]
    BY <1>3, <1>4, ConcatProperties
  <2>2. Len(a) + Len(b) = n - 1
    BY <1>1, <1>2, <1>5, <1>6
  <2> QED BY <1>5, <2>1, <2>2
<1> HIDE DEF rest
<1>9. /\ moved \in Seq(E) /\ Len(moved) = n
      /\ \A i \in 1 .. n : moved[i] = IF i <= 1 THEN one[i] ELSE rest[i - 1]
  <2>1. /\ moved \in Seq(E) /\ Len(moved) = Len(one) + Len(rest)
        /\ \A i \in 1 .. Len(one) + Len(rest) : moved[i] = IF i <= Len(one) THEN one[i] ELSE rest[i - Len(one)]
    BY <1>7, <1>8, ConcatProperties
  <2>2. Len(one) + Len(rest) = n
    BY <1>1, <1>2, <1>7, <1>8
  <2> QED BY <1>7, <2>1, <2>2
<1> HIDE DEF moved
<1>10. ASSUME NEW i \in 1 .. n - 1 PROVE \E j \in 1 .. n : rest[i] = memStore[j]
  <2>1. CASE i <= k - 1
    BY <1>1, <1>2, <1>5, <1>8, <2>1
  <2>2. CASE i > k - 1
    <3>1. i - (k - 1) \in 1 .. n - k /\ k + (i - (k - 1)) \in 1 .. n /\ ~(i <= k - 1)
      BY <1>1, <1>2, <2>2
    <3> QED BY <1>6, <1>8, <3>1
  <2> QED BY <1>2, <2>1, <2>2
<1>11. ASSUME NEW i \in 1 .. n PROVE \E j \in 1 .. n : moved[i] = memStore[j]
  <2>1. CASE i = 1
    BY <1>2, <1>7, <1>9, <2>1
  <2>2. CASE i # 1
    <3>1. i - 1 \in 1 .. n - 1 /\ ~(i <= 1)
      BY <1>1, <2>2
    <3> QED BY <1>9, <1>10, <3>1
  <2> QED BY <2>1, <2>2
<1>12. DOMAIN moved = 1 .. n
  BY <1>9, LenProperties
<1>13. <<memStore[k]>> \o RemoveAt(memStore, k) = moved
  BY DEF RemoveAt, moved, one, rest, a, b
<1>14. Len(memStore) <= MemMax /\ \A j \in 1 .. n : memStore[j][3] <= version[memStore[j][1]]
  BY <1>1 DEF MemDated, n
<1>15. MemDated(moved, version)
  BY <1>1, <1>9, <1>11, <1>12, <1>14 DEF MemDated, n
<1> QED BY <1>13, <1>15

\* Files are not made younger.
Grows(old, new) == \A p \in ThumbPaths : old[p] <= new[p]

\* What is old stays old while files are edited.
LEMMA OlderStays ==
  ASSUME ThumbTypes, ThumbTypes', Grows(version, version')
  PROVE  /\ MemDated(memStore, version) => MemDated(memStore, version')
         /\ serving # Idle /\ serving.art <= version[serving.req.path] => serving.art <= version'[serving.req.path]
         /\ Addressed /\ UNCHANGED <<toBackend, toWindow, serving, pendingReq>> => Addressed'
<1>1. \A p \in ThumbPaths : version[p] \in Nat /\ version'[p] \in Nat /\ version[p] <= version'[p]
  BY DEF ThumbTypes, Grows
<1>2. MemDated(memStore, version) => MemDated(memStore, version')
  <2>1. \A i \in DOMAIN memStore : memStore[i] \in ThumbPaths \X Nat \X Nat
    BY LenProperties, ElementOfSeq DEF ThumbTypes
  <2>2. \A i \in DOMAIN memStore : memStore[i][1] \in ThumbPaths /\ memStore[i][3] \in Nat
    BY <2>1
  <2> QED BY <1>1, <2>2 DEF MemDated
<1>3. serving # Idle => serving.art \in Nat /\ serving.req.path \in ThumbPaths
  BY DEF ThumbTypes, Works, Requests
<1>4. \A r \in pendingReq : r.path \in ThumbPaths
  BY DEF ThumbTypes, Awaited
<1>5. \A i \in DOMAIN toWindow : toWindow[i].art \in Nat
  <2>1. \A i \in DOMAIN toWindow : toWindow[i] \in Answers
    BY LenProperties, ElementOfSeq DEF ThumbTypes
  <2> QED BY <2>1 DEF Answers
<1>6. ASSUME Addressed, UNCHANGED <<toBackend, toWindow, serving, pendingReq>> PROVE Addressed'
  BY <1>1, <1>4, <1>5, <1>6 DEF Addressed
<1> QED BY <1>1, <1>2, <1>3, <1>6

\* A bound that is drawn on leaves the edits within theirs.
LEMMA SpendIs ==
  ASSUME Dated, NEW what \in {"edits", "scans", "deaths", "fails"}, ThumbSpend(what)
  PROVE  /\ thumbLeft' \in [{"edits", "scans", "deaths", "fails"} -> Nat]
         /\ thumbLeft'["edits"] = IF what = "edits" THEN thumbLeft["edits"] - 1 ELSE thumbLeft["edits"]
<1>1. /\ thumbLeft \in [{"edits", "scans", "deaths", "fails"} -> Nat] /\ thumbLeft[what] > 0
      /\ thumbLeft' = [thumbLeft EXCEPT ![what] = thumbLeft[what] - 1]
  BY DEF Dated, ThumbSpend
<1>2. thumbLeft[what] - 1 \in Nat
  BY <1>1
<1> QED BY <1>1, <1>2

\* Edits and scans: files get younger, and what is read of them is as they are.
LEMMA AroundDated ==
  ASSUME ThumbInv, ThumbTypes',
         \/ \E p \in ThumbPaths : EditFile(p) \/ AnalyseFile(p)
         \/ StartThumbScan \/ LoadRoot \/ FinishThumbScan \/ RefillRows \/ ConnectionBack
  PROVE  Dated' /\ Stored' /\ Addressed' /\ Capped'
<1>1. ThumbTypes /\ Dated /\ Stored /\ Addressed /\ Capped
  BY DEF ThumbInv, ExchangeInv
<1>2. \A p \in ThumbPaths :
        {version[p], analysed[p], engineArt[p], thumbCache[p], shown[p]} \subseteq Nat
  BY <1>1 DEF ThumbTypes, Dated
<1>3. \A p \in ThumbPaths :
        /\ 1 <= version[p] /\ version[p] + thumbLeft["edits"] <= 1 + MaxEdits
        /\ analysed[p] <= version[p] /\ engineArt[p] <= version[p] /\ thumbCache[p] <= version[p]
        /\ shown[p] <= version[p]
  BY <1>1 DEF Dated
<1>4. UNCHANGED <<memStore, serving, toBackend, toWindow, pendingReq>>
  BY DEF EditFile, AnalyseFile, StartThumbScan, LoadRoot, FinishThumbScan, RefillRows, ConnectionBack, storeVars, guiVars
<1>5. ASSUME NEW p \in ThumbPaths, EditFile(p)
      PROVE  Dated' /\ Stored' /\ Addressed' /\ Capped'
  <2>1. /\ ThumbSpend("edits") /\ version' = [version EXCEPT ![p] = version[p] + 1]
        /\ UNCHANGED <<analysed, scanState, engineArt, thumbCache, shown>>
    BY <1>5 DEF EditFile, scanVars, storeVars, guiVars
  <2>2. /\ thumbLeft' \in [{"edits", "scans", "deaths", "fails"} -> Nat]
        /\ thumbLeft'["edits"] = thumbLeft["edits"] - 1 /\ thumbLeft["edits"] \in Nat
    BY <1>1, <2>1, SpendIs DEF Dated
  <2>3. \A q \in ThumbPaths : version'[q] = IF q = p THEN version[p] + 1 ELSE version[q]
    BY <1>1, <2>1 DEF ThumbTypes
  <2>4. \A q \in ThumbPaths : version[q] <= version'[q]
    BY <1>2, <2>3
  <2>5. \A q \in ThumbPaths : 1 <= version'[q] /\ version'[q] + thumbLeft'["edits"] <= 1 + MaxEdits
    BY <1>2, <1>3, <2>2, <2>3, ThumbAssumption
  <2>6. \A q \in ThumbPaths :
          /\ analysed[q] <= version'[q] /\ engineArt[q] <= version'[q] /\ thumbCache[q] <= version'[q]
          /\ shown[q] <= version'[q]
    <3>1. \A q \in ThumbPaths : version'[q] \in Nat
      BY DEF ThumbTypes
    <3> QED BY <1>2, <1>3, <2>4, <3>1
  <2>7. Dated'
    BY <1>1, <2>1, <2>2, <2>5, <2>6 DEF Dated
  <2>8. Grows(version, version')
    BY <2>4 DEF Grows
  <2>9. Stored' /\ Addressed'
    BY <1>1, <1>4, <2>8, OlderStays DEF Stored
  <2> QED BY <1>1, <1>4, <2>1, <2>7, <2>9 DEF Capped, Held
<1>6. ASSUME UNCHANGED version PROVE Stored' /\ Addressed'
  BY <1>1, <1>4, <1>6 DEF Stored, Addressed
<1>7. ASSUME NEW p \in ThumbPaths, AnalyseFile(p)
      PROVE  Dated' /\ Stored' /\ Addressed' /\ Capped'
  <2>1. /\ analysed' = [analysed EXCEPT ![p] = version[p]] /\ engineArt' = [engineArt EXCEPT ![p] = version[p]]
        /\ scanState' = "changed" /\ UNCHANGED <<version, thumbCache, shown, thumbLeft>>
    BY <1>7 DEF AnalyseFile, storeVars, guiVars
  <2>2. \A q \in ThumbPaths : /\ analysed'[q] = IF q = p THEN version[p] ELSE analysed[q]
                              /\ engineArt'[q] = IF q = p THEN version[p] ELSE engineArt[q]
    BY <1>1, <2>1 DEF ThumbTypes, Dated
  <2>3. analysed' \in [ThumbPaths -> Nat]
    BY <1>1, <1>2, <2>1 DEF Dated
  <2>4. \A q \in ThumbPaths : analysed'[q] <= version[q] /\ engineArt'[q] <= version[q]
    BY <1>2, <1>3, <2>2
  <2>5. Dated'
    BY <1>1, <1>3, <2>1, <2>3, <2>4 DEF Dated
  <2> QED BY <1>1, <1>4, <1>6, <2>1, <2>5 DEF Capped, Held
<1>8. CASE StartThumbScan
  <2>1. /\ ThumbSpend("scans") /\ scanState' = "unchanged" /\ engineArt' = [p \in ThumbPaths |-> 0]
        /\ UNCHANGED <<version, analysed, thumbCache, shown>>
    BY <1>8 DEF StartThumbScan, guiVars
  <2>2. /\ thumbLeft' \in [{"edits", "scans", "deaths", "fails"} -> Nat]
        /\ thumbLeft'["edits"] = thumbLeft["edits"]
    BY <1>1, <2>1, SpendIs
  <2>3. \A q \in ThumbPaths : engineArt'[q] <= version[q]
    BY <1>2, <1>3, <2>1
  <2>4. Dated'
    BY <1>1, <1>3, <2>1, <2>2, <2>3 DEF Dated
  <2> QED BY <1>1, <1>4, <1>6, <2>1, <2>4 DEF Capped, Held
<1>9. CASE FinishThumbScan
  <2>1. /\ scanState' = "idle"
        /\ thumbCache' = IF scanState = "changed" THEN [p \in ThumbPaths |-> 0] ELSE thumbCache
        /\ UNCHANGED <<version, analysed, engineArt, shown, thumbLeft>>
    BY <1>9 DEF FinishThumbScan, storeVars
  <2>2. thumbCache' \in [ThumbPaths -> Nat] /\ \A q \in ThumbPaths : thumbCache'[q] <= version[q]
    BY <1>1, <1>2, <1>3, <2>1 DEF Dated
  <2>3. Dated'
    BY <1>1, <1>3, <2>1, <2>2 DEF Dated
  <2>4. Capped'
    <3>1. CASE thumbCache' = thumbCache
      BY <1>1, <1>4, <3>1 DEF Capped, Held
    <3>2. CASE thumbCache' = [p \in ThumbPaths |-> 0]
      <4>1. Held(thumbCache') = {}
        BY <3>2 DEF Held
      <4>2. Held(thumbCache)' = Held(thumbCache')
        BY DEF Held
      <4> QED BY <1>1, <1>4, <4>1, <4>2, FS_EmptySet, ThumbAssumption DEF Capped
    <3> QED BY <2>1, <3>1, <3>2
  <2> QED BY <1>6, <2>1, <2>3, <2>4
<1>10. CASE RefillRows
  <2>1. /\ shown' = thumbCache
        /\ UNCHANGED <<version, analysed, scanState, engineArt, thumbCache, thumbLeft>>
    BY <1>10 DEF RefillRows, scanVars, storeVars
  <2>2. Dated'
    BY <1>1, <2>1 DEF Dated
  <2> QED BY <1>1, <1>4, <1>6, <2>1, <2>2 DEF Capped, Held
<1>11. CASE ConnectionBack \/ LoadRoot
  <2>1. UNCHANGED <<version, analysed, scanState, engineArt, thumbCache, shown, thumbLeft>>
    BY <1>11 DEF ConnectionBack, LoadRoot, scanVars, storeVars, guiVars
  <2>2. Dated'
    BY <1>1, <2>1 DEF Dated
  <2> QED BY <1>1, <1>4, <1>6, <2>1, <2>2 DEF Capped, Held
<1> QED BY <1>5, <1>7, <1>8, <1>9, <1>10, <1>11

\* What is held of a file, in numbers.
LEMMA DatedNumbers ==
  ASSUME ThumbTypes, Dated
  PROVE  /\ \A p \in ThumbPaths :
              /\ version[p] \in Nat /\ analysed[p] \in Nat /\ engineArt[p] \in Nat
              /\ thumbCache[p] \in Nat /\ shown[p] \in Nat
         /\ \A i \in DOMAIN toBackend : toBackend[i] \in Requests
         /\ \A i \in DOMAIN toWindow : toWindow[i] \in Answers /\ toWindow[i].art \in Nat
<1>1. \A i \in DOMAIN toBackend : toBackend[i] \in Requests
  BY LenProperties, ElementOfSeq DEF ThumbTypes
<1>2. \A i \in DOMAIN toWindow : toWindow[i] \in Answers
  BY LenProperties, ElementOfSeq DEF ThumbTypes
<1> QED BY <1>1, <1>2 DEF ThumbTypes, Dated, Answers

\* A request: its new id is on no other request and on no answer.
LEMMA RequestDated ==
  ASSUME ThumbInv, ThumbTypes', NEW p \in ThumbPaths, RequestThumb(p)
  PROVE  Dated' /\ Stored' /\ Addressed' /\ Capped'
<1>1. ThumbTypes /\ Dated /\ Stored /\ Addressed /\ Capped /\ StoreServesTheWindow
  BY DEF ThumbInv, ExchangeInv
<1> PICK n \in Nat, v \in Nat : n = FreshId /\ v = version[p]
  BY <1>1, FreshIdIsNew DEF ThumbTypes
<1> DEFINE new == [id |-> n, path |-> p, asked |-> v]
           sent == [id |-> n, path |-> p]
<1>2. ~Wanted(n) /\ \A i \in DOMAIN toWindow : toWindow[i].id # n
  BY <1>1, FreshIdIsNew
<1>3. /\ pendingReq' = pendingReq \cup {new} /\ toBackend' = Append(toBackend, sent)
      /\ Cardinality(pendingReq) < PendingCap
      /\ UNCHANGED <<version, analysed, scanState, engineArt, memStore, serving, toWindow,
                     thumbCache, shown, thumbLeft>>
  BY DEF RequestThumb, scanVars, storeVars
<1>4. Dated' /\ Stored'
  BY <1>1, <1>3 DEF Dated, Stored
<1>5. sent \in Requests /\ toBackend \in Seq(Requests)
  BY <1>1 DEF Requests, ThumbTypes
<1>6. ASSUME NEW i \in DOMAIN toBackend' PROVE (i \in DOMAIN toBackend /\ toBackend'[i] = toBackend[i]) \/ toBackend'[i] = sent
  <2>1. /\ Len(toBackend) \in Nat /\ DOMAIN toBackend = 1 .. Len(toBackend)
        /\ \A j \in 1 .. Len(toBackend) : toBackend'[j] = toBackend[j]
        /\ toBackend'[Len(toBackend) + 1] = sent /\ DOMAIN toBackend' = 1 .. Len(toBackend) + 1
    BY <1>3, <1>5, AppendProperties, LenProperties
  <2> QED BY <2>1
<1>7. \A r \in pendingReq : r.id # n
  BY <1>2 DEF Wanted
<1>8. ASSUME NEW r \in pendingReq'
      PROVE  /\ \A i \in DOMAIN toBackend' : toBackend'[i].id = r.id => toBackend'[i].path = r.path
             /\ serving # Idle /\ serving.req.id = r.id => serving.req.path = r.path
             /\ \A i \in DOMAIN toWindow : toWindow[i].id = r.id => toWindow[i].art <= version[r.path]
  <2>1. CASE r \in pendingReq
    <3>1. r.id # n
      BY <1>7, <2>1
    <3> QED BY <1>1, <1>6, <2>1, <3>1 DEF Addressed
  <2>2. CASE r = new
    <3>1. r.id = n /\ r.path = p
      BY <2>2
    <3>2. \A i \in DOMAIN toBackend : toBackend[i].id # n
      BY <1>1, <1>2 DEF StoreServesTheWindow
    <3>3. serving # Idle => serving.req.id # n
      BY <1>1, <1>2 DEF StoreServesTheWindow
    <3> HIDE DEF new
    <3> QED BY <1>2, <1>6, <3>1, <3>2, <3>3
  <2> QED BY <1>3, <2>1, <2>2
<1>9. Addressed'
  BY <1>3, <1>8 DEF Addressed
<1>10. Capped'
  <2>1. IsFiniteSet(pendingReq) /\ Cardinality(pendingReq) \in Nat /\ PendingCap \in Nat
    BY <1>1, FS_CardinalityType, ThumbAssumption DEF ThumbTypes
  <2>2. Cardinality(pendingReq \cup {new}) <= Cardinality(pendingReq) + 1
    <3>1. new \notin pendingReq
      BY <1>7
    <3> HIDE DEF new
    <3>2. Cardinality(pendingReq \cup {new}) = Cardinality(pendingReq) + 1
      BY <2>1, <3>1, FS_AddElement
    <3> QED BY <2>1, <3>2
  <2>3. Cardinality(pendingReq') <= PendingCap
    <3> DEFINE c == Cardinality(pendingReq)
               d == Cardinality(pendingReq \cup {new})
    <3>1. d \in Nat
      BY <2>1, FS_AddElement, FS_CardinalityType
    <3>2. c \in Nat /\ c < PendingCap /\ d <= c + 1
      BY <1>3, <2>1, <2>2
    <3>3. Cardinality(pendingReq') = d
      BY <1>3
    <3> HIDE DEF c, d
    <3> QED BY <2>1, <3>1, <3>2, <3>3
  <2> QED BY <1>1, <1>3, <2>3 DEF Capped, Held
<1> QED BY <1>4, <1>9, <1>10

\* An answer that goes out shows no younger file than there is.
LEMMA AnswerAddressed ==
  ASSUME ThumbTypes, Addressed, serving # Idle, serving' = Idle, NEW art \in Nat,
         art <= version[serving.req.path], toWindow' = Answer(serving.req, art),
         UNCHANGED <<version, toBackend, pendingReq>>
  PROVE  Addressed'
<1> DEFINE a == [id |-> serving.req.id, art |-> art]
<1>1. serving.req \in Requests
  BY DEF ThumbTypes, Works
<1>2. a \in Answers /\ toWindow \in Seq(Answers) /\ toWindow' = Append(toWindow, a)
  BY <1>1 DEF Requests, Answers, ThumbTypes, Answer
<1>3. ASSUME NEW i \in DOMAIN toWindow'
      PROVE  (i \in DOMAIN toWindow /\ toWindow'[i] = toWindow[i]) \/ toWindow'[i] = a
  <2> HIDE DEF a
  <2>1. /\ Len(toWindow) \in Nat /\ DOMAIN toWindow = 1 .. Len(toWindow)
        /\ \A j \in 1 .. Len(toWindow) : toWindow'[j] = toWindow[j]
        /\ toWindow'[Len(toWindow) + 1] = a /\ DOMAIN toWindow' = 1 .. Len(toWindow) + 1
    BY <1>2, AppendProperties, LenProperties
  <2> QED BY <2>1
<1>4. a.id = serving.req.id /\ a.art = art
  OBVIOUS
<1> HIDE DEF a
<1>5. ASSUME NEW i \in DOMAIN toWindow', NEW r \in pendingReq, toWindow'[i].id = r.id
      PROVE  toWindow'[i].art <= version[r.path]
  <2>1. CASE i \in DOMAIN toWindow /\ toWindow'[i] = toWindow[i]
    BY <1>5, <2>1 DEF Addressed
  <2>2. CASE toWindow'[i] = a
    <3>1. r.path = serving.req.path
      BY <1>4, <1>5, <2>2 DEF Addressed
    <3> QED BY <1>4, <2>2, <3>1
  <2> QED BY <1>3, <2>1, <2>2
<1> QED BY <1>5 DEF Addressed

\* The store takes a request up, and answers it from what it holds or has drawn.
LEMMA StoreDated ==
  ASSUME ThumbInv, ThumbTypes',
         TakeRequest \/ ServeMemory \/ DrawArt \/ DrawFails \/ StoreArt
  PROVE  Dated' /\ Stored' /\ Addressed' /\ Capped'
<1>1. ThumbTypes /\ Dated /\ Stored /\ Addressed /\ Capped
  BY DEF ThumbInv, ExchangeInv
<1>2. UNCHANGED <<version, analysed, scanState, engineArt, pendingReq, thumbCache, shown>>
  BY DEF TakeRequest, ServeMemory, DrawArt, DrawFails, StoreArt, scanVars, guiVars
<1>3. Capped'
  BY <1>1, <1>2 DEF Capped, Held
<1>4. /\ \A p \in ThumbPaths :
            version[p] \in Nat /\ engineArt[p] \in Nat /\ engineArt[p] <= version[p]
      /\ \A i \in DOMAIN toBackend : toBackend[i] \in Requests
  BY <1>1, DatedNumbers DEF Dated
<1>5. ASSUME UNCHANGED thumbLeft PROVE Dated'
  BY <1>1, <1>2, <1>5 DEF Dated
<1>6. serving.step \in {"identified", "drawn"} =>
        /\ serving # Idle /\ serving.req \in Requests /\ serving.req.path \in ThumbPaths
        /\ serving.id \in Nat /\ serving.art \in Nat /\ serving.art <= version[serving.req.path]
  BY <1>1, WorkHasFields DEF Stored
<1>7. CASE TakeRequest
  <2> DEFINE r == toBackend[1]
  <2>1. /\ toBackend # <<>> /\ toBackend' = Tail(toBackend) /\ serving = Idle
        /\ memStore' = <<>> \/ memStore' = memStore
        /\ \/ toWindow' = Answer(Head(toBackend), 0) /\ serving' = Idle
           \/ /\ toWindow' = toWindow
              /\ serving' = Serving("identified", Head(toBackend), version[Head(toBackend).path], 0)
        /\ UNCHANGED thumbLeft \/ ThumbSpend("fails")
    BY <1>7 DEF TakeRequest, guiVars
  <2>2. /\ Head(toBackend) = r /\ 1 \in DOMAIN toBackend
        /\ \A i \in DOMAIN toBackend' : i + 1 \in DOMAIN toBackend /\ toBackend'[i] = toBackend[i + 1]
    <3>1. toBackend \in Seq(Requests) /\ toBackend' \in Seq(Requests)
      BY <1>1, <2>1, HeadTailProperties DEF ThumbTypes
    <3>2. Len(toBackend) \in Nat \ {0} /\ DOMAIN toBackend = 1 .. Len(toBackend)
      BY <2>1, <3>1, LenProperties, EmptySeq
    <3>3. /\ Len(toBackend') = Len(toBackend) - 1 /\ DOMAIN toBackend' = 1 .. Len(toBackend')
          /\ \A i \in 1 .. Len(toBackend') : toBackend'[i] = toBackend[i + 1]
      BY <2>1, <3>1, HeadTailProperties, LenProperties
    <3> QED BY <3>2, <3>3
  <2>3. r \in Requests /\ r.id \in Nat /\ r.path \in ThumbPaths /\ version[r.path] \in Nat
    BY <1>4, <2>2 DEF Requests
  <2>4. \A q \in pendingReq : r.id = q.id => r.path = q.path
    BY <1>1, <2>2 DEF Addressed
  <2>5. \A i \in DOMAIN toBackend' : \A q \in pendingReq : toBackend'[i].id = q.id => toBackend'[i].path = q.path
    BY <1>1, <2>2 DEF Addressed
  <2> HIDE DEF r
  <2>6. Dated'
    <3>1. CASE UNCHANGED thumbLeft
      BY <1>5, <3>1
    <3>2. CASE ThumbSpend("fails")
      <4>1. /\ thumbLeft' \in [{"edits", "scans", "deaths", "fails"} -> Nat]
            /\ thumbLeft'["edits"] = thumbLeft["edits"]
        BY <1>1, <3>2, SpendIs
      <4> QED BY <1>1, <1>2, <4>1 DEF Dated
    <3> QED BY <2>1, <3>1, <3>2
  <2>7. MemDated(memStore, version)'
    <3>1. CASE memStore' = memStore
      BY <1>1, <1>2, <3>1 DEF Stored, MemDated
    <3>2. CASE memStore' = <<>>
      BY <3>2, ThumbAssumption DEF MemDated
    <3> QED BY <2>1, <3>1, <3>2
  <2>8. CASE toWindow' = Answer(r, 0) /\ serving' = Idle
    <3> DEFINE a == [id |-> r.id, art |-> 0]
    <3>1. a \in Answers /\ a.id = r.id /\ a.art = 0
      BY <2>3 DEF Answers
    <3>2. toWindow' = Append(toWindow, a) /\ toWindow \in Seq(Answers)
      BY <1>1, <2>8 DEF Answer, ThumbTypes
    <3> HIDE DEF a
    <3>3. ASSUME NEW i \in DOMAIN toWindow'
          PROVE  (i \in DOMAIN toWindow /\ toWindow'[i] = toWindow[i]) \/ toWindow'[i] = a
      <4>1. /\ Len(toWindow) \in Nat /\ DOMAIN toWindow = 1 .. Len(toWindow)
            /\ \A j \in 1 .. Len(toWindow) : toWindow'[j] = toWindow[j]
            /\ toWindow'[Len(toWindow) + 1] = a /\ DOMAIN toWindow' = 1 .. Len(toWindow) + 1
        BY <3>1, <3>2, AppendProperties, LenProperties
      <4> QED BY <4>1
    <3>4. ASSUME NEW i \in DOMAIN toWindow', NEW q \in pendingReq, toWindow'[i].id = q.id
          PROVE  toWindow'[i].art <= version[q.path]
      <4>1. CASE i \in DOMAIN toWindow /\ toWindow'[i] = toWindow[i]
        BY <1>1, <3>4, <4>1 DEF Addressed
      <4>2. CASE toWindow'[i] = a
        <5>1. version[q.path] \in Nat
          BY <1>1 DEF ThumbTypes, Awaited
        <5> QED BY <3>1, <4>2, <5>1
      <4> QED BY <3>3, <4>1, <4>2
    <3>5. Addressed'
      BY <1>2, <2>5, <2>8, <3>4 DEF Addressed
    <3>6. Stored'
      BY <2>7, <2>8 DEF Stored
    <3> QED BY <1>3, <2>6, <3>5, <3>6
  <2>9. CASE toWindow' = toWindow /\ serving' = Serving("identified", r, version[r.path], 0)
    <3>1. serving'.req = r /\ serving'.art = 0
      BY <2>9 DEF Serving
    <3>2. Stored'
      <4>1. serving'.art <= version'[serving'.req.path]
        BY <1>2, <2>3, <3>1
      <4> QED BY <2>7, <4>1 DEF Stored
    <3>3. Addressed'
      <4>1. \A q \in pendingReq : serving'.req.id = q.id => serving'.req.path = q.path
        BY <2>4, <3>1
      <4>2. \A i \in DOMAIN toWindow : \A q \in pendingReq : toWindow[i].id = q.id => toWindow[i].art <= version[q.path]
        BY <1>1 DEF Addressed
      <4> QED BY <1>2, <2>5, <2>9, <4>1, <4>2 DEF Addressed
    <3> QED BY <1>3, <2>6, <3>2, <3>3
  <2> QED BY <2>1, <2>2, <2>8, <2>9
<1>8. CASE ServeMemory
  <2>1. PICK i \in MemHits(serving.req.path, serving.id) :
          /\ memStore' = <<memStore[i]>> \o RemoveAt(memStore, i)
          /\ toWindow' = Answer(serving.req, memStore[i][3])
    BY <1>8 DEF ServeMemory
  <2>2. serving.step = "identified" /\ serving' = Idle /\ UNCHANGED <<toBackend, thumbLeft>>
    BY <1>8 DEF ServeMemory, guiVars
  <2>3. i \in DOMAIN memStore /\ memStore[i][1] = serving.req.path
    BY <2>1 DEF MemHits
  <2>4. MemDated(memStore', version) /\ memStore[i][3] \in Nat
    BY <1>1, <2>1, <2>3, MemMovedDated, MemListMoved DEF Stored
  <2>5. memStore[i][3] <= version[serving.req.path]
    BY <1>1, <2>3 DEF Stored, MemDated
  <2>6. Addressed'
    BY <1>1, <1>2, <1>6, <2>1, <2>2, <2>4, <2>5, AnswerAddressed
  <2> QED BY <1>2, <1>3, <1>5, <2>2, <2>4, <2>6 DEF Stored
<1>9. CASE DrawArt
  <2> DEFINE p == serving.req.path
  <2>1. /\ serving.step = "identified" /\ UNCHANGED <<memStore, toBackend, toWindow, thumbLeft>>
        /\ \/ serving' = Serving("drawn", serving.req, serving.id, engineArt[p])
           \/ serving' = Serving("drawn", serving.req, serving.id, version[p])
    BY <1>9 DEF DrawArt, guiVars
  <2>2. serving'.req = serving.req /\ serving'.art \in {engineArt[p], version[p]}
    BY <2>1 DEF Serving
  <2>3. Stored'
    BY <1>1, <1>2, <1>4, <1>6, <2>1, <2>2 DEF Stored
  <2>4. Addressed'
    BY <1>1, <1>2, <1>6, <2>1, <2>2 DEF Addressed
  <2> QED BY <1>3, <1>5, <2>1, <2>3, <2>4
<1>10. CASE DrawFails
  <2>1. /\ serving.step = "identified" /\ serving' = Idle /\ UNCHANGED <<memStore, toBackend>>
        /\ ThumbSpend("fails") /\ toWindow' = Answer(serving.req, 0)
    BY <1>10 DEF DrawFails
  <2>2. /\ thumbLeft' \in [{"edits", "scans", "deaths", "fails"} -> Nat]
        /\ thumbLeft'["edits"] = thumbLeft["edits"]
    BY <1>1, <2>1, SpendIs
  <2>3. Dated'
    BY <1>1, <1>2, <2>1, <2>2 DEF Dated
  <2>4. 0 <= version[serving.req.path]
    BY <1>4, <1>6, <2>1
  <2>5. Addressed'
    BY <1>1, <1>2, <1>6, <2>1, <2>4, AnswerAddressed
  <2> QED BY <1>1, <1>2, <1>3, <2>1, <2>3, <2>5 DEF Stored
<1>11. CASE StoreArt
  <2> DEFINE p == serving.req.path
  <2>1. /\ serving.step = "drawn" /\ serving' = Idle /\ UNCHANGED <<toBackend, thumbLeft>>
        /\ memStore' = MemAdd(p, serving.id, serving.art)
        /\ toWindow' = Answer(serving.req, serving.art)
    BY <1>11 DEF StoreArt, guiVars
  <2>2. MemDated(memStore', version)
    BY <1>1, <1>6, <2>1, MemAddDated DEF Stored
  <2>3. Addressed'
    BY <1>1, <1>2, <1>6, <2>1, AnswerAddressed
  <2> QED BY <1>2, <1>3, <1>5, <2>1, <2>2, <2>3 DEF Stored
<1> QED BY <1>7, <1>8, <1>9, <1>10, <1>11

\* Over its limit the window's cache gives one picture up.
LEMMA EvictedIs ==
  ASSUME NEW cache \in [ThumbPaths -> Nat], NEW p \in ThumbPaths, NEW art \in Nat,
         IsFiniteSet(Held(cache)), Cardinality(Held(cache)) <= CacheMax,
         NEW new \in Evicted([cache EXCEPT ![p] = art])
  PROVE  /\ new \in [ThumbPaths -> Nat]
         /\ \A q \in ThumbPaths : new[q] \in {0, cache[q]} \/ (q = p /\ new[q] = art)
         /\ IsFiniteSet(Held(new)) /\ Cardinality(Held(new)) <= CacheMax
<1> DEFINE c == [cache EXCEPT ![p] = art]
<1>1. c \in [ThumbPaths -> Nat] /\ \A q \in ThumbPaths : c[q] = IF q = p THEN art ELSE cache[q]
  OBVIOUS
<1>2. Held(c) \subseteq Held(cache) \cup {p}
  BY <1>1 DEF Held
<1>3. /\ IsFiniteSet(Held(cache) \cup {p})
      /\ Cardinality(Held(cache) \cup {p}) <= Cardinality(Held(cache)) + 1
  <2>1. IsFiniteSet(Held(cache) \cup {p}) /\
        Cardinality(Held(cache) \cup {p}) = IF p \in Held(cache) THEN Cardinality(Held(cache)) ELSE Cardinality(Held(cache)) + 1
    BY FS_AddElement
  <2>2. Cardinality(Held(cache)) \in Nat
    BY FS_CardinalityType
  <2> QED BY <2>1, <2>2
<1>4. IsFiniteSet(Held(c)) /\ Cardinality(Held(c)) <= Cardinality(Held(cache) \cup {p})
  BY <1>2, <1>3, FS_Subset
<1>5. new \in IF Cardinality(Held(c)) > CacheMax THEN {[c EXCEPT ![q] = 0] : q \in Held(c)} ELSE {c}
  BY DEF Evicted, Held
<1> DEFINE k == Cardinality(Held(c))
           m == Cardinality(Held(cache))
           o == Cardinality(Held(cache) \cup {p})
<1>6. k \in Nat /\ m \in Nat /\ o \in Nat /\ m <= CacheMax /\ o <= m + 1 /\ k <= o /\ CacheMax \in Nat
  BY <1>3, <1>4, FS_CardinalityType, ThumbAssumption
<1> HIDE DEF c
<1>7. CASE ~(k > CacheMax)
  BY <1>1, <1>4, <1>5, <1>6, <1>7
<1>8. CASE k > CacheMax
  <2>1. PICK q \in Held(c) : new = [c EXCEPT ![q] = 0]
    BY <1>5, <1>8
  <2>2. q \in ThumbPaths
    BY DEF Held
  <2>3. new \in [ThumbPaths -> Nat] /\ \A u \in ThumbPaths : new[u] = IF u = q THEN 0 ELSE c[u]
    BY <1>1, <2>1, <2>2
  <2>4. Held(new) = Held(c) \ {q}
    BY <2>2, <2>3 DEF Held
  <2>5. IsFiniteSet(Held(new)) /\ Cardinality(Held(new)) = k - 1
    BY <1>4, <2>4, FS_RemoveElement
  <2>6. k - 1 <= CacheMax
    BY <1>6
  <2> QED BY <1>1, <2>3, <2>5, <2>6
<1> QED BY <1>7, <1>8

\* An answer arrives: the picture that is shown is of a version the file has had.
LEMMA ReadyDated ==
  ASSUME ThumbInv, ThumbTypes', ThumbReady
  PROVE  Dated' /\ Stored' /\ Addressed' /\ Capped'
<1> DEFINE a == Head(toWindow)
<1>1. ThumbTypes /\ Dated /\ Stored /\ Addressed /\ Capped
  BY DEF ThumbInv, ExchangeInv
<1>2. /\ toWindow # <<>> /\ toWindow' = Tail(toWindow)
      /\ UNCHANGED <<version, analysed, scanState, engineArt, memStore, serving, toBackend, thumbLeft>>
      /\ \/ UNCHANGED <<pendingReq, thumbCache, shown>>
         \/ \E r \in pendingReq :
            /\ r.id = a.id /\ pendingReq' = pendingReq \ {r}
            /\ \/ UNCHANGED <<thumbCache, shown>>
               \/ /\ thumbCache' \in Evicted([thumbCache EXCEPT ![r.path] = a.art])
                  /\ shown' = [shown EXCEPT ![r.path] = a.art]
  BY DEF ThumbReady, scanVars, storeVars
<1>3. /\ a = toWindow[1] /\ 1 \in DOMAIN toWindow
      /\ \A i \in DOMAIN toWindow' : i + 1 \in DOMAIN toWindow /\ toWindow'[i] = toWindow[i + 1]
  <2>1. toWindow \in Seq(Answers) /\ toWindow' \in Seq(Answers)
    BY <1>1, <1>2, HeadTailProperties DEF ThumbTypes
  <2>2. Len(toWindow) \in Nat \ {0} /\ DOMAIN toWindow = 1 .. Len(toWindow)
    BY <1>2, <2>1, LenProperties, EmptySeq
  <2>3. /\ Len(toWindow') = Len(toWindow) - 1 /\ DOMAIN toWindow' = 1 .. Len(toWindow')
        /\ \A i \in 1 .. Len(toWindow') : toWindow'[i] = toWindow[i + 1]
    BY <1>2, <2>1, HeadTailProperties, LenProperties
  <2> QED BY <2>1, <2>2, <2>3
<1>4. a.art \in Nat
  BY <1>1, <1>3, DatedNumbers
<1> HIDE DEF a
<1>5. pendingReq' \subseteq pendingReq
  BY <1>2
<1>6. Stored' /\ Addressed'
  BY <1>1, <1>2, <1>3, <1>5 DEF Stored, Addressed
<1>7. Cardinality(pendingReq') <= PendingCap
  <2>1. /\ IsFiniteSet(pendingReq) /\ IsFiniteSet(pendingReq')
        /\ Cardinality(pendingReq') <= Cardinality(pendingReq) /\ Cardinality(pendingReq) <= PendingCap
    BY <1>1, <1>5, FS_Subset DEF ThumbTypes, Capped
  <2>2. Cardinality(pendingReq) \in Nat /\ Cardinality(pendingReq') \in Nat /\ PendingCap \in Nat
    BY <2>1, FS_CardinalityType, ThumbAssumption
  <2> QED BY <2>1, <2>2
<1>8. CASE UNCHANGED <<thumbCache, shown>>
  BY <1>1, <1>2, <1>6, <1>7, <1>8 DEF Dated, Capped, Held
<1>9. CASE ~UNCHANGED <<thumbCache, shown>>
  <2>1. PICK r \in pendingReq :
          /\ r.id = a.id
          /\ thumbCache' \in Evicted([thumbCache EXCEPT ![r.path] = a.art])
          /\ shown' = [shown EXCEPT ![r.path] = a.art]
    BY <1>2, <1>9
  <2>2. r.path \in ThumbPaths /\ a.art <= version[r.path]
    BY <1>1, <1>3, <2>1 DEF ThumbTypes, Awaited, Addressed
  <2>3. /\ thumbCache' \in [ThumbPaths -> Nat]
        /\ \A q \in ThumbPaths : thumbCache'[q] \in {0, thumbCache[q]} \/ (q = r.path /\ thumbCache'[q] = a.art)
        /\ IsFiniteSet(Held(thumbCache')) /\ Cardinality(Held(thumbCache')) <= CacheMax
    <3>1. PICK p \in ThumbPaths, v \in Nat : p = r.path /\ v = a.art
      BY <1>4, <2>2
    <3>2. thumbCache' \in Evicted([thumbCache EXCEPT ![p] = v])
      BY <2>1, <3>1
    <3>3. thumbCache \in [ThumbPaths -> Nat] /\ IsFiniteSet(Held(thumbCache)) /\ Cardinality(Held(thumbCache)) <= CacheMax
      BY <1>1 DEF Dated, Capped
    <3>4. /\ thumbCache' \in [ThumbPaths -> Nat]
          /\ \A q \in ThumbPaths : thumbCache'[q] \in {0, thumbCache[q]} \/ (q = p /\ thumbCache'[q] = v)
          /\ IsFiniteSet(Held(thumbCache')) /\ Cardinality(Held(thumbCache')) <= CacheMax
      BY <3>2, <3>3, EvictedIs
    <3> QED BY <3>1, <3>4
  <2>4. \A q \in ThumbPaths : version[q] \in Nat /\ thumbCache[q] <= version[q] /\ shown[q] <= version[q]
    BY <1>1 DEF ThumbTypes, Dated
  <2>5. \A q \in ThumbPaths : thumbCache'[q] <= version[q]
    BY <2>2, <2>3, <2>4
  <2>6. shown' \in [ThumbPaths -> Nat] /\ \A q \in ThumbPaths : shown'[q] <= version[q]
    BY <1>1, <1>4, <2>1, <2>2, <2>4 DEF Dated
  <2>7. Dated'
    BY <1>1, <1>2, <2>3, <2>5, <2>6 DEF Dated
  <2>8. Held(thumbCache)' = Held(thumbCache')
    BY DEF Held
  <2>9. Capped'
    BY <1>7, <2>3, <2>8 DEF Capped
  <2> QED BY <1>6, <2>7, <2>9
<1> QED BY <1>8, <1>9

\* The backend is lost with what it held, and the window forgets its requests.
LEMMA LossDated ==
  ASSUME ThumbInv, ThumbTypes', ThumbBackendDies \/ ConnectionLost
  PROVE  Dated' /\ Stored' /\ Addressed' /\ Capped'
<1>1. ThumbTypes /\ Dated /\ Stored /\ Addressed /\ Capped
  BY DEF ThumbInv, ExchangeInv
<1>2. CASE ThumbBackendDies
  <2>1. /\ ThumbSpend("deaths") /\ toBackend' = <<>> /\ serving' = Idle /\ memStore' = <<>>
        /\ scanState' = "idle" /\ engineArt' = [p \in ThumbPaths |-> 0]
        /\ UNCHANGED <<version, analysed, toWindow, pendingReq, thumbCache, shown>>
    BY <1>2 DEF ThumbBackendDies, guiVars
  <2>2. /\ thumbLeft' \in [{"edits", "scans", "deaths", "fails"} -> Nat]
        /\ thumbLeft'["edits"] = thumbLeft["edits"]
    BY <1>1, <2>1, SpendIs
  <2>3. \A q \in ThumbPaths : engineArt'[q] = 0 /\ 0 <= version[q]
    BY <1>1, <2>1 DEF ThumbTypes
  <2>4. Dated'
    BY <1>1, <2>1, <2>2, <2>3 DEF Dated
  <2>5. Stored'
    BY <2>1, ThumbAssumption DEF Stored, MemDated
  <2>6. Addressed'
    BY <1>1, <2>1 DEF Addressed
  <2> QED BY <1>1, <2>1, <2>4, <2>5, <2>6 DEF Capped, Held
<1>3. CASE ConnectionLost
  <2>1. /\ pendingReq' = {}
        /\ UNCHANGED <<version, analysed, scanState, engineArt, memStore, serving, toBackend, toWindow,
                       thumbCache, shown, thumbLeft>>
    BY <1>3 DEF ConnectionLost, scanVars, storeVars
  <2>2. Dated' /\ Stored'
    BY <1>1, <2>1 DEF Dated, Stored
  <2>3. Addressed'
    BY <2>1 DEF Addressed
  <2>4. Cardinality(pendingReq') <= PendingCap
    BY <2>1, FS_EmptySet, ThumbAssumption
  <2> QED BY <1>1, <2>1, <2>2, <2>3, <2>4 DEF Capped, Held
<1> QED BY <1>2, <1>3

\* Every step of the thumbnails keeps their invariant.
LEMMA ThumbStepInv == ThumbInv /\ [ThumbNext]_thumbVars => ThumbInv'
<1> SUFFICES ASSUME ThumbInv, [ThumbNext]_thumbVars PROVE ThumbInv'
  OBVIOUS
<1>1. ExchangeInv' /\ ThumbTypes'
  BY ExchangeStep DEF ThumbInv, ExchangeInv
<1> SUFFICES Dated' /\ Stored' /\ Addressed' /\ Capped'
  BY <1>1 DEF ThumbInv
<1>2. CASE \E p \in ThumbPaths : RequestThumb(p)
  BY <1>1, <1>2, RequestDated
<1>3. CASE \/ \E p \in ThumbPaths : EditFile(p) \/ AnalyseFile(p)
           \/ StartThumbScan \/ LoadRoot \/ FinishThumbScan \/ RefillRows \/ ConnectionBack
  BY <1>1, <1>3, AroundDated
<1>4. CASE TakeRequest \/ ServeMemory \/ DrawArt \/ DrawFails \/ StoreArt
  BY <1>1, <1>4, StoreDated
<1>5. CASE ThumbReady
  BY <1>1, <1>5, ReadyDated
<1>6. CASE ThumbBackendDies \/ ConnectionLost
  BY <1>1, <1>6, LossDated
<1>7. CASE UNCHANGED thumbVars
  BY <1>7 DEF ThumbInv, Dated, Stored, Addressed, Capped, Held, thumbVars, scanVars, storeVars, guiVars
<1> QED BY <1>2, <1>3, <1>4, <1>5, <1>6, <1>7 DEF ThumbNext

\* The invariant gives the types.
LEMMA ThumbInvTypes == ThumbInv => ThumbTypeOK
<1> SUFFICES ASSUME ThumbInv PROVE ThumbTypeOK
  OBVIOUS
<1>1. ThumbTypes /\ Dated /\ Stored /\ Capped
  BY DEF ThumbInv, ExchangeInv
<1>2. \A p \in ThumbPaths :
        /\ version[p] \in Nat /\ analysed[p] \in Nat /\ engineArt[p] \in Nat
        /\ thumbCache[p] \in Nat /\ shown[p] \in Nat
  BY <1>1, DatedNumbers
<1>3. thumbLeft["edits"] \in Nat /\ MaxEdits \in Nat
  BY <1>1, ThumbAssumption DEF Dated
<1>4. ASSUME NEW p \in ThumbPaths
      PROVE  /\ version[p] \in 1 .. 1 + MaxEdits
             /\ {analysed[p], engineArt[p], thumbCache[p], shown[p]} \subseteq 0 .. version[p]
  BY <1>1, <1>2, <1>3 DEF Dated
<1>5. connected \in {"up", "lost", "down"} /\ rooted \in BOOLEAN /\ scanState \in {"idle", "unchanged", "changed"}
  BY <1>1 DEF ThumbTypes, Dated
<1>6. /\ Len(memStore) <= MemMax /\ Cardinality(pendingReq) <= PendingCap
      /\ Cardinality({p \in ThumbPaths : thumbCache[p] # 0}) <= CacheMax
  BY <1>1 DEF Stored, MemDated, Capped, Held
<1> QED BY <1>4, <1>5, <1>6 DEF ThumbTypeOK

\* No picture the window, the store or the engine holds is of a version
\* its file has not had, and the requests in flight (2000), the window's cache
\* (3000) and the store's list keep within their limits, for any limits: fileThumb,
\* onThumbReady's eviction and memInsert.
THEOREM ThumbsAreTyped == ThumbSpec => []ThumbTypeOK
<1> QED BY ThumbInitInv, ThumbStepInv, ThumbInvTypes, PTL DEF ThumbSpec

-----------------------------------------------------------------------------
(* The window.                                                               *)

\* A step of the window is one of the supervisor's, of the thumbnails' and of the
\* lists', or leaves each of them alone.
WindowInv == TypeOK /\ Safety /\ ThumbInv /\ ViewInv

\* Whichever of the three takes a step, all keep what they keep.
LEMMA WindowStep == WindowInv /\ [WindowNext]_windowVars => WindowInv'
<1> SUFFICES ASSUME WindowInv, [WindowNext]_windowVars PROVE WindowInv'
  OBVIOUS
<1>1. [Next]_vars /\ [ThumbNext]_thumbVars /\ [ViewNext]_viewVars
  BY DEF WindowNext, windowVars
<1>2. TypeOK' /\ Safety'
  BY <1>1, StepSafe DEF WindowInv
<1>3. ThumbInv'
  BY <1>1, ThumbStepInv DEF WindowInv
<1>4. ViewInv'
  BY <1>1, ViewStepInv DEF WindowInv
<1> QED BY <1>2, <1>3, <1>4 DEF WindowInv

\* At first the supervisor has started its process, and there is neither a
\* thumbnail nor a list.
LEMMA WindowStart == WindowInit => WindowInv
BY InitSafe, ThumbInitInv, ViewInitInv DEF WindowInit, WindowInv

\* The supervisor, the thumbnails and the lists keep their types and limits, for
\* every number of files, matches and retries and every size of the caches and chunks.
THEOREM WindowIsTyped == WindowSpec => []WindowTypeOK
<1>1. WindowInv => WindowTypeOK
  BY ThumbInvTypes, ViewInvIs DEF WindowInv, WindowTypeOK
<1> QED BY <1>1, WindowStart, WindowStep, PTL DEF WindowSpec

\* What the run of the window checks of its lists holds of every such window.
THEOREM WindowListsAreTrue == WindowSpec => []ListsTrue
<1>1. WindowInv => ListsTrue
  BY ViewInvIs DEF WindowInv
<1> QED BY <1>1, WindowStart, WindowStep, PTL DEF WindowSpec
================================================================================
