----------------------------- MODULE AnalysisProofs -----------------------------
(***************************************************************************)
(* The analysis: the candidate pairs of the final pass and what it reports  *)
(* of them are exact (PairsAreExact), what the cache of the videos'         *)
(* fingerprints and the buffers of the verification serve is true           *)
(* (CachesAreTrue), and the frames that a decoder's sweep delivers are those *)
(* its own plan asks for (SweepIsTrue).                                     *)
(*                                                                         *)
(* The parts share no variable, so that each has an invariant of its own:   *)
(* CandidateInv, PassInv, VideoInv, VerifyInv and SweepInv.                 *)
(***************************************************************************)
EXTENDS MCAnalysis, SequenceTheorems, FunctionTheorems, FiniteSetTheorems, TLAPS

-----------------------------------------------------------------------------
(* The lists of the caches, the most recent first.                             *)

\* An entry that moves to the front leaves the others in their order.
LEMMA MovedToFront ==
    ASSUME NEW S, NEW s \in Seq(S), NEW i \in 1..Len(s)
    PROVE  /\ Fronted(s, i) \in Seq(S) /\ Len(Fronted(s, i)) = Len(s)
           /\ \A j \in 1..Len(s) :
                 Fronted(s, i)[j] = IF j = 1 THEN s[i] ELSE IF j <= i THEN s[j - 1] ELSE s[j]
<1> DEFINE o == <<s[i]>>
           a == SubSeq(s, 1, i - 1)
           b == SubSeq(s, i + 1, Len(s))
           h == o \o a
<1>1. Len(s) \in Nat /\ \A j \in 1..Len(s) : s[j] \in S
  OBVIOUS
<1>2. a \in Seq(S) /\ Len(a) = i - 1 /\ \A j \in 1..(i - 1) : a[j] = s[j]
  <2>1. \A j \in 1..(i - 1) : s[j] \in S
    BY <1>1
  <2>2. /\ a \in Seq(S) /\ Len(a) = IF 1 <= i - 1 THEN i - 1 - 1 + 1 ELSE 0
        /\ \A j \in 1..i - 1 - 1 + 1 : a[j] = s[1 + j - 1]
    BY <1>1, <2>1, SubSeqProperties
  <2> HIDE DEF a
  <2> QED BY <1>1, <2>2
<1>3. b \in Seq(S) /\ Len(b) = Len(s) - i /\ \A j \in 1..(Len(s) - i) : b[j] = s[j + i]
  <2>1. \A j \in (i + 1)..Len(s) : s[j] \in S
    BY <1>1
  <2>2. /\ b \in Seq(S) /\ Len(b) = IF i + 1 <= Len(s) THEN Len(s) - (i + 1) + 1 ELSE 0
        /\ \A j \in 1..Len(s) - (i + 1) + 1 : b[j] = s[i + 1 + j - 1]
    BY <1>1, <2>1, SubSeqProperties
  <2> HIDE DEF b
  <2> QED BY <1>1, <2>2
<1>4. o \in Seq(S) /\ Len(o) = 1 /\ o[1] = s[i]
  BY <1>1
<1> HIDE DEF o, a, b
<1>5. h \in Seq(S) /\ Len(h) = i /\ \A j \in 1..i : h[j] = IF j = 1 THEN s[i] ELSE s[j - 1]
  <2>1. /\ h \in Seq(S) /\ Len(h) = Len(o) + Len(a)
        /\ \A j \in 1..Len(o) + Len(a) : h[j] = IF j <= Len(o) THEN o[j] ELSE a[j - Len(o)]
    BY <1>2, <1>4, ConcatProperties
  <2> HIDE DEF h
  <2>2. h \in Seq(S) /\ Len(h) = i
    BY <1>1, <1>2, <1>4, <2>1
  <2>3. ASSUME NEW j \in 1..i PROVE h[j] = IF j = 1 THEN s[i] ELSE s[j - 1]
    <3>1. h[j] = IF j <= 1 THEN o[j] ELSE a[j - 1]
      BY <1>1, <1>2, <1>4, <2>1
    <3>2. CASE j = 1
      BY <1>4, <3>1, <3>2
    <3>3. CASE j # 1
      <4>1. j - 1 \in 1..(i - 1) /\ ~(j <= 1)
        BY <1>1, <3>3
      <4> QED BY <1>2, <3>1, <3>3, <4>1
    <3> QED BY <3>2, <3>3
  <2> QED BY <2>2, <2>3
<1> HIDE DEF h
<1>0. h \in Seq(S) /\ b \in Seq(S)
  BY <1>3, <1>5
<1>6. /\ h \o b \in Seq(S) /\ Len(h \o b) = Len(h) + Len(b)
      /\ \A j \in 1..Len(h) + Len(b) : (h \o b)[j] = IF j <= Len(h) THEN h[j] ELSE b[j - Len(h)]
  BY <1>0, ConcatProperties
<1> DEFINE q == h \o b
<1> HIDE DEF q
<1>7. /\ q \in Seq(S) /\ Len(q) = Len(s)
      /\ \A j \in 1..Len(s) : q[j] = IF j = 1 THEN s[i] ELSE IF j <= i THEN s[j - 1] ELSE s[j]
  BY <1>1, <1>3, <1>5, <1>6 DEF q
<1> QED BY <1>7 DEF q, h, o, a, b, Fronted

\* An entry that is put in front moves the others back by one, and the last goes when there is no
\* room.
LEMMA PutInFront ==
    ASSUME NEW S, NEW s \in Seq(S), NEW e \in S, NEW n \in 0..Len(s)
    PROVE  LET r == <<e>> \o SubSeq(s, 1, n)
           IN  /\ r \in Seq(S) /\ Len(r) = n + 1
               /\ \A j \in 1..(n + 1) : r[j] = IF j = 1 THEN e ELSE s[j - 1]
<1> DEFINE o == <<e>>
           a == SubSeq(s, 1, n)
           r == o \o a
<1>1. Len(s) \in Nat /\ \A j \in 1..n : s[j] \in S
  OBVIOUS
<1>2. /\ a \in Seq(S) /\ Len(a) = IF 1 <= n THEN n - 1 + 1 ELSE 0
      /\ \A j \in 1..n - 1 + 1 : a[j] = s[1 + j - 1]
  BY <1>1, SubSeqProperties
<1>3. o \in Seq(S) /\ Len(o) = 1 /\ o[1] = e
  OBVIOUS
<1> HIDE DEF o, a
<1>4. /\ r \in Seq(S) /\ Len(r) = Len(o) + Len(a)
      /\ \A j \in 1..Len(o) + Len(a) : r[j] = IF j <= Len(o) THEN o[j] ELSE a[j - Len(o)]
  BY <1>2, <1>3, ConcatProperties
<1> HIDE DEF r
<1>5. /\ r \in Seq(S) /\ Len(r) = n + 1
      /\ \A j \in 1..(n + 1) : r[j] = IF j = 1 THEN e ELSE s[j - 1]
  BY <1>1, <1>2, <1>3, <1>4
<1> QED BY <1>5 DEF r, o, a

\* Two lists have the same entries, in some order.
Permuted(r, s) ==
    /\ Len(r) = Len(s)
    /\ \E at \in [1..Len(s) -> 1..Len(s)] :
          /\ \A j \in 1..Len(s) : r[j] = s[at[j]]
          /\ \A j, l \in 1..Len(s) : at[j] = at[l] => j = l
          /\ \A l \in 1..Len(s) : \E j \in 1..Len(s) : at[j] = l

\* To move an entry to the front is to permute the entries.
LEMMA FrontPermutes ==
    ASSUME NEW S, NEW s \in Seq(S), NEW i \in 1..Len(s)
    PROVE  Fronted(s, i) \in Seq(S) /\ Permuted(Fronted(s, i), s)
<1> DEFINE r == Fronted(s, i)
           at == [j \in 1..Len(s) |-> IF j = 1 THEN i ELSE IF j <= i THEN j - 1 ELSE j]
<1>1. /\ r \in Seq(S) /\ Len(r) = Len(s) /\ Len(s) \in Nat
      /\ \A j \in 1..Len(s) : r[j] = IF j = 1 THEN s[i] ELSE IF j <= i THEN s[j - 1] ELSE s[j]
  BY MovedToFront
<1> HIDE DEF r
<1>2. at \in [1..Len(s) -> 1..Len(s)]
  BY <1>1
<1>3. \A j \in 1..Len(s) : r[j] = s[at[j]]
  BY <1>1
<1>4. \A j, l \in 1..Len(s) : at[j] = at[l] => j = l
  BY <1>1
<1>5. ASSUME NEW l \in 1..Len(s) PROVE \E j \in 1..Len(s) : at[j] = l
  <2> DEFINE j == IF l = i THEN 1 ELSE IF l < i THEN l + 1 ELSE l
  <2>1. j \in 1..Len(s) /\ at[j] = l
    BY <1>1
  <2> QED BY <2>1
<1> HIDE DEF at
<1>6. Permuted(r, s)
  BY <1>1, <1>2, <1>3, <1>4, <1>5 DEF Permuted
<1> QED BY <1>1, <1>6 DEF r

\* What holds of each entry holds after the move, and no two have become alike.
LEMMA PermutedApart ==
    ASSUME NEW r, NEW s, Permuted(r, s), \A j, l \in 1..Len(s) : s[j].file = s[l].file => j = l,
           NEW i \in 1..Len(s), NEW k \in 1..Len(s), r[i].file = r[k].file
    PROVE  i = k
<1>1. PICK at \in [1..Len(s) -> 1..Len(s)] :
         (\A j \in 1..Len(s) : r[j] = s[at[j]]) /\ \A j, l \in 1..Len(s) : at[j] = at[l] => j = l
  <2>1. \E at \in [1..Len(s) -> 1..Len(s)] :
          /\ \A j \in 1..Len(s) : r[j] = s[at[j]]
          /\ \A j, l \in 1..Len(s) : at[j] = at[l] => j = l
          /\ \A l \in 1..Len(s) : \E j \in 1..Len(s) : at[j] = l
    BY DEF Permuted
  <2> QED BY <2>1, Zenon
<1>2. at[i] \in 1..Len(s) /\ at[k] \in 1..Len(s) /\ r[i] = s[at[i]] /\ r[k] = s[at[k]]
  BY <1>1
<1>3. at[i] = at[k]
  BY <1>2
<1> QED BY <1>1, <1>3

-----------------------------------------------------------------------------
(* VideoCache: an answer is of the file as it was asked for.                   *)

\* A fingerprint that is filed is of a version between the stamps it is filed under.
EntryTrue(e) ==
    /\ e.print.of \in e.stat..e.quick /\ e.quick <= version[e.file]
    /\ e.print.under = policy
RowTrue(r, f) ==
    /\ r.print.of \in r.stat..r.quick /\ r.quick <= version[f]
    /\ r.print.under = r.policyId
CallTrue(c) ==
    /\ c.stat <= version[c.file]
    /\ c.at \in {"keep", "store", "save", "done"} =>
          c.print.of \in c.stat..version[c.file] /\ c.print.under = policy

VideoInv ==
    /\ VideoTypeOK
    /\ \A i \in 1..Len(memory) : EntryTrue(memory[i])
    /\ \A f \in Videos : \A r \in rows[f] : RowTrue(r, f)
    /\ \A w \in VWorkers : CallTrue(call[w])

\* The first state.
LEMMA VideoInvInit == VideoInit => VideoInv
<1> SUFFICES ASSUME VideoInit PROVE VideoInv
  OBVIOUS
<1>1. 1 \in Versions /\ \A v \in Versions : v \in Nat
  BY VideoAssumption DEF Versions
<1>2. \A f \in Videos : rows[f] = {} \/ \E r \in Rows : rows[f] = {r} /\ RowTrue(r, f)
  <2> SUFFICES ASSUME NEW f \in Videos, rows[f] # {} PROVE \E r \in Rows : rows[f] = {r} /\ RowTrue(r, f)
    OBVIOUS
  <2>1. PICK q \in Policies, c \in {NoCrop, 1} :
           rows[f] = {[stat |-> 1, quick |-> 1, policyId |-> q, print |-> [of |-> 1, under |-> q], crop |-> c]}
    BY DEF VideoInit, Leftovers
  <2> DEFINE r == [stat |-> 1, quick |-> 1, policyId |-> q, print |-> [of |-> 1, under |-> q], crop |-> c]
  <2>2. r \in Rows
    BY <1>1 DEF Rows, Prints
  <2>3. RowTrue(r, f)
    BY DEF RowTrue, VideoInit
  <2> QED BY <2>1, <2>2, <2>3
<1>3. \A f \in Videos : \A r \in rows[f] : RowTrue(r, f)
  BY <1>2
<1>4. version \in [Videos -> Versions] /\ memory = <<>> /\ policy \in Policies
  BY <1>1 DEF VideoInit
<1>5. call \in [VWorkers -> Calls] /\ \A w \in VWorkers : call[w].at = "idle" /\ call[w].stat = 1 /\ call[w].file \in Videos
  BY <1>1, <1>4 DEF VideoInit, Calls, Steps, Prints
<1>6. \A w \in VWorkers : CallTrue(call[w])
  BY <1>5 DEF CallTrue, VideoInit
<1>7. VideoTypeOK
  BY <1>2, <1>4, <1>5, VideoAssumption DEF VideoTypeOK
<1> QED BY <1>3, <1>4, <1>6, <1>7 DEF VideoInv

\* What memoryStore files is as true as the call's own fingerprint.
LEMMA StoredIsTrue ==
    ASSUME VideoInv, NEW w \in VWorkers, NEW given \in BOOLEAN,
           call[w].at \in {"keep", "store"}, memory' = Stored(call[w], given), UNCHANGED <<version, policy>>
    PROVE  /\ memory' \in Seq(Entries) /\ Len(memory') <= MemoryCap
           /\ \A i, j \in 1..Len(memory') : memory'[i].file = memory'[j].file => i = j
           /\ \A i \in 1..Len(memory') : EntryTrue(memory[i])'
<1> DEFINE c == call[w]
           at == {i \in 1..Len(memory) : memory[i].file = c.file}
           fresh == [file |-> c.file, stat |-> c.stat, quick |-> version[c.file],
                     print |-> c.print, crop |-> IF given THEN c.crop ELSE NoCrop,
                     hasCrop |-> given, policyId |-> policy]
           n == IF Len(memory) < MemoryCap THEN Len(memory) ELSE MemoryCap - 1
           k == CHOOSE i \in at : TRUE
           kept == [fresh EXCEPT !.policyId = memory[k].policyId,
                                 !.crop = IF given THEN c.crop ELSE memory[k].crop,
                                 !.hasCrop = given \/ memory[k].hasCrop]
<1>1. /\ memory \in Seq(Entries) /\ Len(memory) \in Nat /\ Len(memory) <= MemoryCap
      /\ \A i, j \in 1..Len(memory) : memory[i].file = memory[j].file => i = j
      /\ policy \in Policies /\ version \in [Videos -> Versions] /\ c \in Calls
      /\ MemoryCap \in Nat \ {0} /\ \A v \in Versions : v \in Nat
      /\ \A i \in 1..Len(memory) : EntryTrue(memory[i])
      /\ c.print.of \in c.stat..version[c.file] /\ c.print.under = policy
  BY VideoAssumption DEF VideoInv, VideoTypeOK, CallTrue, Versions
<1>2. c.file \in Videos /\ c.stat \in Versions /\ c.print \in Prints /\ c.crop \in Versions \cup {NoCrop}
  BY <1>1 DEF Calls
<1>3. memory' = IF at # {} THEN Fronted([memory EXCEPT ![k] = kept], k) ELSE <<fresh>> \o SubSeq(memory, 1, n)
  BY DEF Stored
<1>4. fresh \in Entries /\ fresh.file = c.file
  BY <1>1, <1>2 DEF Entries
<1>5. EntryTrue(fresh)
  BY <1>1, <1>2 DEF EntryTrue
<1>6. CASE at # {}
  <2>1. k \in at
    BY <1>6
  <2>2. k \in 1..Len(memory) /\ memory[k].file = c.file /\ memory[k] \in Entries
    BY <2>1, <1>1
  <2>3. kept \in Entries /\ kept.file = c.file
    BY <1>1, <1>2, <2>2, ZenonT(30) DEF Entries
  <2>4. EntryTrue(kept)
    BY <1>1, <1>2 DEF EntryTrue
  <2> HIDE DEF kept, k, at, fresh
  <2> DEFINE m == [memory EXCEPT ![k] = kept]
  <2>5. /\ m \in Seq(Entries) /\ Len(m) = Len(memory)
        /\ \A i \in 1..Len(memory) : m[i] = IF i = k THEN kept ELSE memory[i]
    BY <1>1, <2>2, <2>3, ExceptSeq
  <2>6. \A i, j \in 1..Len(m) : m[i].file = m[j].file => i = j
    BY <1>1, <2>2, <2>3, <2>5
  <2>7. \A i \in 1..Len(m) : EntryTrue(m[i])
    BY <1>1, <2>4, <2>5
  <2> HIDE DEF m
  <2>8. m \in Seq(Entries) /\ k \in 1..Len(m)
    BY <2>2, <2>5
  <2>9. Fronted(m, k) \in Seq(Entries) /\ Permuted(Fronted(m, k), m)
    BY <2>8, FrontPermutes
  <2>10. memory' = Fronted(m, k)
    BY <1>3, <1>6 DEF m
  <2>11. memory' \in Seq(Entries) /\ Permuted(memory', m) /\ Len(memory') = Len(m)
    <3>1. memory' \in Seq(Entries) /\ Permuted(memory', m)
      BY <2>9, <2>10
    <3> QED BY <3>1 DEF Permuted
  <2>12. ASSUME NEW j \in 1..Len(m) PROVE EntryTrue(memory'[j])
    <3>1. PICK i \in 1..Len(m) : memory'[j] = m[i]
      BY <2>11 DEF Permuted
    <3> QED BY <2>7, <3>1
  <2>13. ASSUME NEW i \in 1..Len(m), NEW j \in 1..Len(m), memory'[i].file = memory'[j].file PROVE i = j
    BY <2>6, <2>11, <2>13, PermutedApart
  <2> QED BY <1>1, <2>5, <2>11, <2>12, <2>13 DEF EntryTrue
<1>7. CASE at = {}
  <2>1. n \in 0..Len(memory) /\ n + 1 <= MemoryCap
    BY <1>1
  <2>2. \A i \in 1..Len(memory) : memory[i].file # c.file
    BY <1>7
  <2> HIDE DEF n, fresh, at
  <2>3. /\ memory' \in Seq(Entries) /\ Len(memory') = n + 1
        /\ \A j \in 1..(n + 1) : memory'[j] = IF j = 1 THEN fresh ELSE memory[j - 1]
    BY <1>1, <1>3, <1>4, <1>7, <2>1, PutInFront, SMTT(30)
  <2>4. ASSUME NEW j \in 1..(n + 1) PROVE EntryTrue(memory'[j])
    <3>1. CASE j = 1
      BY <1>5, <2>3, <3>1
    <3>2. CASE j # 1
      <4>1. j - 1 \in 1..Len(memory) /\ memory'[j] = memory[j - 1]
        BY <1>1, <2>1, <2>3, <3>2
      <4> QED BY <1>1, <4>1
    <3> QED BY <3>1, <3>2
  <2>5. ASSUME NEW i \in 1..(n + 1), NEW j \in 1..(n + 1), memory'[i].file = memory'[j].file PROVE i = j
    <3>1. \A l \in 2..(n + 1) : l - 1 \in 1..Len(memory) /\ memory'[l] = memory[l - 1]
      BY <1>1, <2>1, <2>3
    <3>2. \A l \in 2..(n + 1) : memory'[l].file # fresh.file
      BY <1>4, <2>2, <3>1
    <3>3. memory'[1] = fresh
      BY <2>1, <2>3
    <3>4. CASE i = 1 \/ j = 1
      BY <2>1, <2>5, <3>2, <3>3, <3>4
    <3>5. CASE i # 1 /\ j # 1
      <4>1. i \in 2..(n + 1) /\ j \in 2..(n + 1)
        BY <2>1, <3>5
      <4>2. memory[i - 1].file = memory[j - 1].file
        BY <2>5, <3>1, <4>1
      <4>3. i - 1 = j - 1
        BY <1>1, <3>1, <4>1, <4>2
      <4> QED BY <4>1, <4>3
    <3> QED BY <3>4, <3>5
  <2> QED BY <1>1, <2>1, <2>3, <2>4, <2>5 DEF EntryTrue
<1> QED BY <1>6, <1>7

\* A step of a call leaves the caches true.
LEMMA CallStep ==
    ASSUME VideoInv, NEW w \in VWorkers,
           \/ \E f \in Asks[w], full \in BOOLEAN : Begin(w, f, full)
           \/ LookupMemory(w) \/ LoadRow(w) \/ KeepRow(w) \/ Decode(w) \/ DecodeFails(w)
           \/ StoreMemory(w) \/ SaveRow(w) \/ SaveFails(w)
    PROVE  VideoInv'
<1> DEFINE c == call[w]
<1>1. /\ memory \in Seq(Entries) /\ Len(memory) \in Nat /\ Len(memory) <= MemoryCap
      /\ \A i, j \in 1..Len(memory) : memory[i].file = memory[j].file => i = j
      /\ policy \in Policies /\ version \in [Videos -> Versions] /\ call \in [VWorkers -> Calls]
      /\ \A v \in Versions : v \in Nat
      /\ \A i \in 1..Len(memory) : EntryTrue(memory[i])
      /\ \A f \in Videos : \A r \in rows[f] : RowTrue(r, f)
      /\ \A u \in VWorkers : CallTrue(call[u])
      /\ \A f \in Videos : rows[f] = {} \/ \E r \in Rows : rows[f] = {r}
  BY VideoAssumption DEF VideoInv, VideoTypeOK, Versions
<1>2. /\ c \in Calls /\ c.file \in Videos /\ c.stat \in Versions /\ c.print \in Prints
      /\ c.crop \in Versions \cup {NoCrop} /\ version[c.file] \in Versions /\ CallTrue(c)
  BY <1>1 DEF Calls
<1>3. UNCHANGED <<version, policy>>
  BY DEF Begin, LookupMemory, LoadRow, KeepRow, Decode, DecodeFails, StoreMemory, SaveRow, SaveFails
<1>4. call' \in [VWorkers -> Calls] /\ (\A u \in VWorkers \ {w} : call'[u] = call[u]) /\ CallTrue(call'[w])
  <2>1. CASE \E f \in Asks[w], full \in BOOLEAN : Begin(w, f, full)
    <3>1. PICK f \in Videos, full \in BOOLEAN : Begin(w, f, full)
      BY <2>1, VideoAssumption
    <3> DEFINE d == [c EXCEPT !.full = full, !.file = f, !.at = "memory", !.stat = version[f],
                              !.crop = NoCrop, !.print = [of |-> version[f], under |-> policy]]
    <3>2. call' = [call EXCEPT ![w] = d]
      BY <3>1 DEF Begin
    <3>3. d \in Calls /\ d.at = "memory" /\ d.stat = version[f] /\ d.file = f
      BY <1>1, <1>2 DEF Calls, Steps, Prints
    <3>4. CallTrue(d)
      BY <1>1, <3>3 DEF CallTrue
    <3> QED BY <1>1, <3>2, <3>3, <3>4
  <2>2. CASE LookupMemory(w)
    <3>1. CASE \E i \in 1..Len(memory) :
                 /\ Usable(memory[i], c)
                 /\ call' = [call EXCEPT ![w].at = "done", ![w].print = memory[i].print,
                                         ![w].crop = IF c.full THEN memory[i].crop ELSE NoCrop]
      <4>1. PICK i \in 1..Len(memory) :
                 /\ Usable(memory[i], c)
                 /\ call' = [call EXCEPT ![w].at = "done", ![w].print = memory[i].print,
                                         ![w].crop = IF c.full THEN memory[i].crop ELSE NoCrop]
        BY <3>1
      <4> DEFINE d == [c EXCEPT !.at = "done", !.print = memory[i].print,
                                !.crop = IF c.full THEN memory[i].crop ELSE NoCrop]
      <4>2. memory[i] \in Entries /\ EntryTrue(memory[i])
        BY <1>1
      <4>3. d \in Calls /\ d.print = memory[i].print /\ d.stat = c.stat /\ d.file = c.file
        BY <1>2, <4>2 DEF Calls, Steps, Entries
      <4>4. CallTrue(d)
        BY <1>1, <1>2, <4>1, <4>2, <4>3 DEF CallTrue, EntryTrue, Usable, Entries, Prints
      <4>5. call' = [call EXCEPT ![w] = d]
        BY <1>1, <4>1
      <4> QED BY <1>1, <4>3, <4>4, <4>5
    <3>2. CASE Goes(w, "row")
      BY <1>1, <1>2, <3>2 DEF Goes, Calls, Steps, CallTrue
    <3> QED BY <2>2, <3>1, <3>2 DEF LookupMemory
  <2>3. CASE LoadRow(w)
    <3>1. CASE \E r \in MatchingRows(c) :
                 call' = [call EXCEPT ![w].at = "keep", ![w].print = r.print, ![w].crop = r.crop]
      <4>1. PICK r \in MatchingRows(c) :
                 call' = [call EXCEPT ![w].at = "keep", ![w].print = r.print, ![w].crop = r.crop]
        BY <3>1
      <4> DEFINE d == [c EXCEPT !.at = "keep", !.print = r.print, !.crop = r.crop]
      <4>2. r \in rows[c.file] /\ r \in Rows /\ RowTrue(r, c.file)
            /\ r.stat = c.stat /\ r.quick = version[c.file] /\ r.policyId = policy
        <5>1. r \in rows[c.file] /\ r.stat = c.stat /\ r.quick = version[c.file] /\ r.policyId = policy
          BY <4>1 DEF MatchingRows
        <5>2. r \in Rows
          <6>1. PICK q \in Rows : rows[c.file] = {q}
            BY <1>1, <1>2, <5>1
          <6> QED BY <5>1, <6>1
        <5>3. RowTrue(r, c.file)
          BY <1>1, <1>2, <5>1
        <5> QED BY <5>1, <5>2, <5>3
      <4>3. d \in Calls /\ d.print = r.print /\ d.stat = c.stat /\ d.file = c.file
        BY <1>2, <4>2 DEF Calls, Steps, Rows
      <4>4. CallTrue(d)
        BY <1>1, <1>2, <4>2, <4>3 DEF CallTrue, RowTrue
      <4>5. call' = [call EXCEPT ![w] = d]
        BY <1>1, <4>1
      <4> QED BY <1>1, <4>3, <4>4, <4>5
    <3>2. CASE Goes(w, "decode")
      BY <1>1, <1>2, <3>2 DEF Goes, Calls, Steps, CallTrue
    <3> QED BY <2>3, <3>1, <3>2 DEF LoadRow
  <2>4. CASE Decode(w)
    <3> DEFINE v == version[c.file]
               d == [c EXCEPT !.at = "store", !.print = [of |-> v, under |-> policy],
                              !.crop = IF c.full THEN v ELSE NoCrop]
    <3>1. d \in Calls /\ d.print = [of |-> v, under |-> policy] /\ d.stat = c.stat /\ d.file = c.file
      BY <1>1, <1>2 DEF Calls, Steps, Prints
    <3>2. CallTrue(d)
      BY <1>1, <1>2, <3>1 DEF CallTrue
    <3>3. call' = [call EXCEPT ![w] = d]
      BY <1>1, <2>4 DEF Decode
    <3> QED BY <1>1, <3>1, <3>2, <3>3
  <2>5. CASE KeepRow(w) \/ StoreMemory(w) \/ SaveRow(w) \/ SaveFails(w)
    <3>1. c.at \in {"keep", "store", "save"} /\ \E s \in {"done", "save"} : call' = [call EXCEPT ![w].at = s]
      BY <2>5 DEF KeepRow, StoreMemory, SaveRow, SaveFails, Goes
    <3>2. PICK s \in {"done", "save"} : call' = [call EXCEPT ![w] = [c EXCEPT !.at = s]]
      BY <1>1, <3>1
    <3> DEFINE d == [c EXCEPT !.at = s]
    <3>3. d \in Calls /\ d.stat = c.stat /\ d.file = c.file /\ d.print = c.print
      BY <1>2 DEF Calls, Steps
    <3>4. CallTrue(d)
      BY <1>2, <3>1, <3>3 DEF CallTrue
    <3> QED BY <1>1, <3>2, <3>3, <3>4
  <2>6. CASE DecodeFails(w)
    BY <1>1, <1>2, <2>6 DEF DecodeFails, Goes, Calls, Steps, CallTrue
  <2> QED BY <2>1, <2>2, <2>3, <2>4, <2>5, <2>6
<1>5. \A u \in VWorkers : CallTrue(call[u])'
  BY <1>1, <1>3, <1>4 DEF CallTrue
<1>6. /\ memory' \in Seq(Entries) /\ Len(memory') <= MemoryCap
      /\ \A i, j \in 1..Len(memory') : memory'[i].file = memory'[j].file => i = j
      /\ \A i \in 1..Len(memory') : EntryTrue(memory[i])'
  <2>1. CASE memory' = memory
    BY <1>1, <1>3, <2>1 DEF EntryTrue
  <2>2. CASE \E k \in 1..Len(memory) : memory' = Fronted(memory, k)
    <3>1. PICK k \in 1..Len(memory) : memory' = Fronted(memory, k)
      BY <2>2
    <3>2. memory' \in Seq(Entries) /\ Permuted(memory', memory) /\ Len(memory') = Len(memory)
      <4>1. Fronted(memory, k) \in Seq(Entries) /\ Permuted(Fronted(memory, k), memory)
        BY <1>1, FrontPermutes
      <4>2. memory' \in Seq(Entries) /\ Permuted(memory', memory)
        BY <3>1, <4>1
      <4> QED BY <4>2 DEF Permuted
    <3>3. ASSUME NEW j \in 1..Len(memory) PROVE EntryTrue(memory'[j])
      <4>1. PICK i \in 1..Len(memory) : memory'[j] = memory[i]
        BY <3>2 DEF Permuted
      <4> QED BY <1>1, <4>1
    <3>4. ASSUME NEW i \in 1..Len(memory), NEW j \in 1..Len(memory), memory'[i].file = memory'[j].file PROVE i = j
      BY <1>1, <3>2, <3>4, PermutedApart
    <3> QED BY <1>1, <1>3, <3>2, <3>3, <3>4 DEF EntryTrue
  <2>3. CASE KeepRow(w)
    BY <1>3, <2>3, StoredIsTrue DEF KeepRow
  <2>4. CASE StoreMemory(w)
    <3>1. c.full \in BOOLEAN
      BY <1>2 DEF Calls
    <3> QED BY <1>3, <2>4, <3>1, StoredIsTrue DEF StoreMemory
  <2> QED BY <2>1, <2>2, <2>3, <2>4
          DEF Begin, LookupMemory, LoadRow, Decode, DecodeFails, SaveRow, SaveFails
<1>7. /\ \A f \in Videos : rows'[f] = {} \/ \E r \in Rows : rows'[f] = {r}
      /\ \A f \in Videos : \A r \in rows'[f] : RowTrue(r, f)'
  <2>1. CASE rows' = rows
    BY <1>1, <1>3, <2>1 DEF RowTrue
  <2>2. CASE SaveRow(w)
    <3> DEFINE s == [stat |-> c.stat, quick |-> version[c.file],
                     policyId |-> policy, print |-> c.print, crop |-> c.crop]
    <3>1. s \in Rows /\ RowTrue(s, c.file)
      BY <1>1, <1>2, <2>2 DEF Rows, RowTrue, SaveRow, CallTrue
    <3>2. rows' = [rows EXCEPT ![c.file] = {s}]
      BY <2>2 DEF SaveRow
    <3>3. \A f \in Videos : rows'[f] = rows[f] \/ (f = c.file /\ rows'[f] = {s})
      BY <3>2
    <3> HIDE DEF s
    <3> QED BY <1>1, <1>3, <3>1, <3>3 DEF RowTrue
  <2> QED BY <2>1, <2>2 DEF Begin, LookupMemory, LoadRow, KeepRow, Decode, DecodeFails, StoreMemory, SaveFails
<1> QED BY <1>1, <1>3, <1>4, <1>5, <1>6, <1>7 DEF VideoInv, VideoTypeOK

\* Every step of the video caches.
LEMMA VideoInvKept == VideoInv /\ [VideoNext]_videoVars => VideoInv'
<1> SUFFICES ASSUME VideoInv, [VideoNext]_videoVars PROVE VideoInv'
  OBVIOUS
<1>1. CASE UNCHANGED videoVars
  BY <1>1 DEF VideoInv, VideoTypeOK, EntryTrue, RowTrue, CallTrue, videoVars
<1>2. CASE \E f \in Rewritten : EditVideo(f)
  <2>1. PICK f \in Videos : EditVideo(f)
    BY <1>2, VideoAssumption
  <2>2. version \in [Videos -> Versions] /\ \A v \in Versions : v \in Nat
    BY VideoAssumption DEF VideoInv, VideoTypeOK, Versions
  <2>3. version' \in [Videos -> Versions] /\ \A g \in Videos : version[g] <= version'[g]
    BY <2>1, <2>2, VideoAssumption DEF EditVideo, Versions
  <2>4. UNCHANGED <<memory, rows, policy, call>>
    BY <2>1 DEF EditVideo
  <2>5. VideoTypeOK'
    BY <2>3, <2>4 DEF VideoInv, VideoTypeOK
  <2>6. ASSUME NEW i \in 1..Len(memory) PROVE EntryTrue(memory[i])'
    <3>1. memory[i] \in Entries /\ EntryTrue(memory[i])
      BY DEF VideoInv, VideoTypeOK
    <3> QED BY <2>2, <2>3, <2>4, <3>1 DEF EntryTrue, Entries
  <2>7. ASSUME NEW g \in Videos, NEW r \in rows[g] PROVE RowTrue(r, g)'
    <3>1. r \in Rows /\ RowTrue(r, g)
      BY DEF VideoInv, VideoTypeOK
    <3> QED BY <2>2, <2>3, <3>1 DEF RowTrue, Rows
  <2>8. ASSUME NEW w \in VWorkers PROVE CallTrue(call[w])'
    <3>1. call[w] \in Calls /\ CallTrue(call[w])
      BY DEF VideoInv, VideoTypeOK
    <3> QED BY <2>2, <2>3, <2>4, <3>1 DEF CallTrue, Calls, Prints
  <2> QED BY <2>4, <2>5, <2>6, <2>7, <2>8 DEF VideoInv
<1>3. CASE \E w \in VWorkers :
             \/ \E f \in Asks[w], full \in BOOLEAN : Begin(w, f, full)
             \/ LookupMemory(w) \/ LoadRow(w) \/ KeepRow(w) \/ Decode(w) \/ DecodeFails(w)
             \/ StoreMemory(w) \/ SaveRow(w) \/ SaveFails(w)
  BY <1>3, CallStep
<1> QED BY <1>1, <1>2, <1>3 DEF VideoNext


\* What is handed out is what the invariant says of a call.
LEMMA VideoInvMeans == VideoInv => PrintTrue
BY DEF VideoInv, CallTrue, PrintTrue

-----------------------------------------------------------------------------
(* VerifyCache: a pair is scored on buffers of its own images.                 *)

\* A node shows an edition its image had since the stamp of its key.
NodeTrue(n) == n.shows \in n.key[2]..edition[n.key[1]]

\* A verification is true to the image it is busy with, and to those it has.
JobTrue(j) ==
    LET m == j.pair[Len(j.got) + 1]
    IN  /\ j.at \in {"stat", "lookup", "decode", "store"} => Len(j.got) < 2
        /\ j.at \in {"lookup", "decode", "store"} => j.stamp <= edition[m]
        /\ j.at = "store" => j.shows \in j.stamp..edition[m]
        /\ \A i \in 1..Len(j.got) : j.got[i].shows \in j.got[i].stamp..edition[j.got[i].image]

\* The list without two nodes at one address, and the map that leads to its nodes.
ListApart == Len(nodes) <= VerifyMax /\ \A i, k \in 1..Len(nodes) : nodes[i].id = nodes[k].id => i = k
MapTrue   == \A k \in Keys : index[k] # 0 => \E i \in 1..Len(nodes) : nodes[i].id = index[k] /\ nodes[i].key = k

VerifyInv ==
    /\ VerifyTypeOK
    /\ ListApart /\ MapTrue
    /\ \A i \in 1..Len(nodes) : NodeTrue(nodes[i])
    /\ \A v \in Verifiers : JobTrue(job[v])

\* What the invariant is for.
LEMMA VerifyInvMeans == VerifyInv => MapLeadsToNodes /\ BuffersTrue
BY DEF VerifyInv, ListApart, MapTrue, JobTrue, MapLeadsToNodes, BuffersTrue

\* The first state.
LEMMA VerifyInvInit == VerifyInit => VerifyInv
<1> SUFFICES ASSUME VerifyInit PROVE VerifyInv
  OBVIOUS
<1>1. PICK m \in Images :
         job = [v \in Verifiers |-> [pair |-> <<m, m>>, at |-> "idle", stamp |-> 1, shows |-> 1, got |-> <<>>]]
  BY DEF VerifyInit
<1>2. 1 \in Editions /\ VerifyMax \in Nat
  BY VerifyAssumption DEF Editions
<1>3. nodes = <<>> /\ edition \in [Images -> Editions] /\ index \in [Keys -> Addresses \cup {0}]
      /\ \A k \in Keys : index[k] = 0
  BY <1>2 DEF VerifyInit
<1>4. [pair |-> <<m, m>>, at |-> "idle", stamp |-> 1, shows |-> 1, got |-> <<>>] \in Jobs
  BY <1>2 DEF Jobs
<1>5. job \in [Verifiers -> Jobs] /\ \A v \in Verifiers : job[v].at = "idle" /\ job[v].got = <<>>
  BY <1>1, <1>4
<1>6. VerifyTypeOK
  BY <1>3, <1>5 DEF VerifyTypeOK
<1>7. ListApart /\ MapTrue /\ \A i \in 1..Len(nodes) : NodeTrue(nodes[i])
  BY <1>2, <1>3 DEF ListApart, MapTrue
<1>8. \A v \in Verifiers : JobTrue(job[v])
  BY <1>5 DEF JobTrue
<1> QED BY <1>6, <1>7, <1>8 DEF VerifyInv

\* There is always an address no node has.
LEMMA FreeAddress ==
    ASSUME VerifyInv
    PROVE  \E a \in Addresses : \A i \in 1..Len(nodes) : nodes[i].id # a
<1> DEFINE n == Len(nodes)
           f == [i \in 1..n |-> nodes[i].id]
           A == {f[i] : i \in 1..n}
<1>1. n \in Nat /\ n <= VerifyMax /\ VerifyMax \in Nat
  BY VerifyAssumption DEF VerifyInv, ListApart, VerifyTypeOK
<1> HIDE DEF n
<1>2. IsFiniteSet(1..n) /\ Cardinality(1..n) = n
  <2>1. IsFiniteSet(1..n) /\ Cardinality(1..n) = IF 1 > n THEN 0 ELSE n - 1 + 1
    BY <1>1, FS_Interval
  <2> QED BY <1>1, <2>1
<1>3. f \in Surjection(1..n, A)
  BY Fun_IsSurj
<1>4. IsFiniteSet(A) /\ Cardinality(A) <= n
  <2> HIDE DEF f, A
  <2>1. IsFiniteSet(A) /\ Cardinality(A) <= Cardinality(1..n)
    BY <1>2, <1>3, FS_Surjection
  <2> QED BY <1>2, <2>1
<1>5. \E a \in Addresses : a \notin A
  <2> SUFFICES ASSUME Addresses \subseteq A PROVE FALSE
    OBVIOUS
  <2> HIDE DEF A
  <2>1. Cardinality(Addresses) = VerifyMax + 1
    <3>1. Cardinality(1..VerifyMax + 1) = IF 1 > VerifyMax + 1 THEN 0 ELSE VerifyMax + 1 - 1 + 1
      BY <1>1, FS_Interval
    <3> QED BY <1>1, <3>1 DEF Addresses
  <2>2. Cardinality(Addresses) <= Cardinality(A)
    BY <1>4, FS_Subset
  <2>3. Cardinality(A) \in Nat
    BY <1>4, FS_CardinalityType
  <2> QED BY <1>1, <1>4, <2>1, <2>2, <2>3
<1>6. PICK a \in Addresses : a \notin A
  BY <1>5
<1>7. \A i \in 1..n : nodes[i].id \in A
  OBVIOUS
<1> QED BY <1>6, <1>7 DEF n

\* A thread that has got its buffers.
LEMMA ReceivedTrue ==
    ASSUME VerifyInv, NEW v \in Verifiers, NEW s \in Editions, job[v].at \in {"lookup", "store"},
           s \in job[v].stamp..edition[ImageOf(v)], Received(v, s), UNCHANGED edition
    PROVE  /\ job' \in [Verifiers -> Jobs] /\ (\A u \in Verifiers : Len(job'[u].got) <= 2)
           /\ \A u \in Verifiers : JobTrue(job[u])'
<1> DEFINE j == job[v]
           b == [image |-> ImageOf(v), stamp |-> j.stamp, shows |-> s]
           g == Append(j.got, b)
           d == [j EXCEPT !.got = g, !.at = IF Len(g) = 2 THEN "scored" ELSE "stat", !.stamp = 1, !.shows = 1]
<1>1. /\ job \in [Verifiers -> Jobs] /\ (\A u \in Verifiers : Len(job[u].got) <= 2)
      /\ \A u \in Verifiers : JobTrue(job[u])
      /\ j \in Jobs /\ Len(j.got) < 2 /\ Len(j.got) \in Nat
      /\ \A i \in 1..Len(j.got) : j.got[i].shows \in j.got[i].stamp..edition[j.got[i].image]
  BY DEF VerifyInv, VerifyTypeOK, JobTrue, Jobs
<1>2. j.got \in Seq(Buffers) /\ j.stamp \in Editions /\ ImageOf(v) \in Images /\ 1 \in Editions
  BY <1>1, VerifyAssumption DEF Jobs, ImageOf, Editions
<1>3. b \in Buffers
  BY <1>2 DEF Buffers
<1> HIDE DEF b
<1>4. /\ g \in Seq(Buffers) /\ Len(g) = Len(j.got) + 1
      /\ (\A i \in 1..Len(j.got) : g[i] = j.got[i]) /\ g[Len(j.got) + 1] = b
  BY <1>2, <1>3, AppendProperties
<1>5. job' = [job EXCEPT ![v] = d]
  BY <1>1 DEF Received, b
<1> HIDE DEF g
<1>6. d \in Jobs /\ d.got = g /\ d.at \in {"scored", "stat"} /\ d.at = (IF Len(g) = 2 THEN "scored" ELSE "stat")
  BY <1>1, <1>2, <1>4 DEF Jobs
<1>7. \A i \in 1..Len(g) : g[i].shows \in g[i].stamp..edition[g[i].image]
  <2>1. b.shows \in b.stamp..edition[b.image]
    BY DEF b
  <2> QED BY <1>1, <1>4, <2>1, SMTT(30)
<1>8. JobTrue(d)
  BY <1>1, <1>4, <1>6, <1>7 DEF JobTrue
<1> HIDE DEF d
<1>9. Len(d.got) <= 2
  BY <1>1, <1>4, <1>6
<1>10. \A u \in Verifiers : job'[u] = (IF u = v THEN d ELSE job[u])
  BY <1>1, <1>5
<1>11. \A u \in Verifiers : JobTrue(job'[u])
  BY <1>1, <1>8, <1>10
<1> QED BY <1>1, <1>5, <1>6, <1>9, <1>10, <1>11 DEF JobTrue

\* A hit moves its node to the front.
LEMMA HitKept == ASSUME VerifyInv, NEW v \in Verifiers, Hit(v) PROVE VerifyInv'
<1>1. PICK i \in 1..Len(nodes) :
         /\ nodes[i].id = index[KeyOf(v)]
         /\ nodes' = <<nodes[i]>> \o SubSeq(nodes, 1, i - 1) \o SubSeq(nodes, i + 1, Len(nodes))
         /\ Received(v, nodes[i].shows)
  BY DEF Hit
<1>2. job[v].at = "lookup" /\ index[KeyOf(v)] # 0 /\ UNCHANGED <<edition, index>>
  BY DEF Hit
<1>3. /\ nodes \in Seq(Nodes) /\ Len(nodes) \in Nat /\ Len(nodes) <= VerifyMax
      /\ \A k, l \in 1..Len(nodes) : nodes[k].id = nodes[l].id => k = l
      /\ \A k \in 1..Len(nodes) : NodeTrue(nodes[k]) /\ nodes[k] \in Nodes
      /\ edition \in [Images -> Editions] /\ index \in [Keys -> Addresses \cup {0}]
      /\ job[v] \in Jobs /\ Len(job[v].got) < 2 /\ Len(job[v].got) \in Nat
  <2>1. /\ nodes \in Seq(Nodes) /\ Len(nodes) <= VerifyMax
        /\ edition \in [Images -> Editions] /\ index \in [Keys -> Addresses \cup {0}]
        /\ job[v] \in Jobs
        /\ \A k, l \in 1..Len(nodes) : nodes[k].id = nodes[l].id => k = l
        /\ \A k \in 1..Len(nodes) : NodeTrue(nodes[k])
    BY DEF VerifyInv, VerifyTypeOK, ListApart
  <2>2. Len(nodes) \in Nat /\ \A k \in 1..Len(nodes) : nodes[k] \in Nodes
    BY <2>1
  <2>3. Len(job[v].got) < 2
    BY <1>2 DEF VerifyInv, JobTrue
  <2>4. Len(job[v].got) \in Nat
    BY <2>1 DEF Jobs
  <2> QED BY <2>1, <2>2, <2>3, <2>4
<1>4. ImageOf(v) \in Images /\ job[v].stamp \in Editions /\ KeyOf(v) \in Keys
      /\ KeyOf(v)[1] = ImageOf(v) /\ KeyOf(v)[2] = job[v].stamp
  BY <1>3 DEF Jobs, ImageOf, KeyOf, Keys
<1>5. nodes[i].key = KeyOf(v)
  <2>1. PICK k \in 1..Len(nodes) : nodes[k].id = index[KeyOf(v)] /\ nodes[k].key = KeyOf(v)
    BY <1>2, <1>4 DEF VerifyInv, MapTrue
  <2> QED BY <1>1, <1>3, <2>1
<1>6. nodes[i].shows \in Editions /\ nodes[i].shows \in job[v].stamp..edition[ImageOf(v)]
  BY <1>3, <1>4, <1>5 DEF NodeTrue, Nodes
<1>7. /\ job' \in [Verifiers -> Jobs] /\ (\A u \in Verifiers : Len(job'[u].got) <= 2)
      /\ \A u \in Verifiers : JobTrue(job[u])'
  BY <1>1, <1>2, <1>6, ReceivedTrue
<1>8. nodes' \in Seq(Nodes) /\ Len(nodes') = Len(nodes) /\ Permuted(nodes', nodes)
  <2>1. Fronted(nodes, i) \in Seq(Nodes) /\ Permuted(Fronted(nodes, i), nodes)
    BY <1>3, FrontPermutes
  <2>2. nodes' = Fronted(nodes, i)
    BY <1>1 DEF Fronted
  <2>3. nodes' \in Seq(Nodes) /\ Permuted(nodes', nodes)
    BY <2>1, <2>2
  <2> QED BY <2>3 DEF Permuted
<1>9. PICK at \in [1..Len(nodes) -> 1..Len(nodes)] :
          /\ \A k \in 1..Len(nodes) : nodes'[k] = nodes[at[k]]
          /\ \A k, l \in 1..Len(nodes) : at[k] = at[l] => k = l
          /\ \A l \in 1..Len(nodes) : \E k \in 1..Len(nodes) : at[k] = l
  BY <1>8 DEF Permuted
<1>10. ListApart'
  <2>1. ASSUME NEW k \in 1..Len(nodes), NEW l \in 1..Len(nodes), nodes'[k].id = nodes'[l].id PROVE k = l
    <3>1. at[k] \in 1..Len(nodes) /\ at[l] \in 1..Len(nodes) /\ nodes'[k] = nodes[at[k]] /\ nodes'[l] = nodes[at[l]]
      BY <1>9
    <3>2. at[k] = at[l]
      BY <1>3, <2>1, <3>1
    <3> QED BY <1>9, <3>2
  <2> QED BY <1>3, <1>8, <2>1 DEF ListApart
<1>11. MapTrue'
  <2>1. ASSUME NEW k \in Keys, index[k] # 0 PROVE \E q \in 1..Len(nodes) : nodes'[q].id = index[k] /\ nodes'[q].key = k
    <3>1. PICK l \in 1..Len(nodes) : nodes[l].id = index[k] /\ nodes[l].key = k
      BY <2>1 DEF VerifyInv, MapTrue
    <3>2. PICK q \in 1..Len(nodes) : at[q] = l
      BY <1>9
    <3>3. nodes'[q] = nodes[l]
      BY <1>9, <3>2
    <3> QED BY <3>1, <3>3
  <2> QED BY <1>2, <1>8, <2>1 DEF MapTrue
<1>12. ASSUME NEW k \in 1..Len(nodes) PROVE NodeTrue(nodes'[k])
  <2>1. at[k] \in 1..Len(nodes) /\ nodes'[k] = nodes[at[k]]
    BY <1>9
  <2>2. NodeTrue(nodes[at[k]])
    BY <1>3, <2>1
  <2> QED BY <2>1, <2>2
<1>13. \A k \in 1..Len(nodes') : NodeTrue(nodes[k])'
  BY <1>2, <1>8, <1>12 DEF NodeTrue
<1> QED BY <1>2, <1>3, <1>7, <1>8, <1>10, <1>11, <1>13 DEF VerifyInv, VerifyTypeOK

\* An element in front of a sequence.
LEMMA InFront ==
    ASSUME NEW S, NEW e \in S, NEW s \in Seq(S)
    PROVE  /\ <<e>> \o s \in Seq(S) /\ Len(<<e>> \o s) = Len(s) + 1
           /\ (<<e>> \o s)[1] = e
           /\ \A i \in 2..(Len(s) + 1) : i - 1 \in 1..Len(s) /\ (<<e>> \o s)[i] = s[i - 1]
<1> DEFINE o == <<e>>
<1>1. o \in Seq(S) /\ Len(o) = 1 /\ o[1] = e
  OBVIOUS
<1> HIDE DEF o
<1>2. /\ o \o s \in Seq(S) /\ Len(o \o s) = Len(o) + Len(s)
      /\ \A i \in 1..Len(o) + Len(s) : (o \o s)[i] = IF i <= Len(o) THEN o[i] ELSE s[i - Len(o)]
  BY <1>1, ConcatProperties
<1> DEFINE q == o \o s
<1> HIDE DEF q
<1>3. /\ q \in Seq(S) /\ Len(q) = Len(s) + 1
      /\ q[1] = e /\ \A i \in 2..(Len(s) + 1) : i - 1 \in 1..Len(s) /\ q[i] = s[i - 1]
  <2>1. Len(s) \in Nat
    OBVIOUS
  <2> QED BY <1>1, <1>2, <2>1 DEF q
<1> QED BY <1>3 DEF q, o

\* The list with a node in front, before and after the eviction.
LEMMA EvictKept ==
    ASSUME VerifyInv, NEW n \in Nodes, \A i \in 1..Len(nodes) : nodes[i].id # n.id,
           NodeTrue(n), UNCHANGED edition,
           LET kept == Evict(<<n>> \o nodes, [index EXCEPT ![n.key] = n.id])
           IN  nodes' = kept.list /\ index' = kept.map
    PROVE  /\ nodes' \in Seq(Nodes) /\ index' \in [Keys -> Addresses \cup {0}]
           /\ ListApart' /\ MapTrue' /\ \A i \in 1..Len(nodes') : NodeTrue(nodes[i])'
<1> DEFINE list == <<n>> \o nodes
           map == [index EXCEPT ![n.key] = n.id]
           len == Len(nodes)
<1>1. /\ nodes \in Seq(Nodes) /\ len \in Nat /\ len <= VerifyMax /\ VerifyMax \in Nat \ {0}
      /\ (\A k, l \in 1..len : nodes[k].id = nodes[l].id => k = l)
      /\ (\A k \in 1..len : NodeTrue(nodes[k]) /\ nodes[k] \in Nodes)
      /\ index \in [Keys -> Addresses \cup {0}]
      /\ n.key \in Keys /\ n.id \in Addresses /\ n.id # 0
  <2>1. nodes \in Seq(Nodes) /\ len \in Nat /\ len <= VerifyMax /\ VerifyMax \in Nat \ {0}
    BY VerifyAssumption DEF VerifyInv, VerifyTypeOK, ListApart
  <2>2. \A k, l \in 1..len : nodes[k].id = nodes[l].id => k = l
    BY DEF VerifyInv, ListApart
  <2>3. \A k \in 1..len : NodeTrue(nodes[k]) /\ nodes[k] \in Nodes
    BY <2>1 DEF VerifyInv
  <2>4. index \in [Keys -> Addresses \cup {0}]
    BY DEF VerifyInv, VerifyTypeOK
  <2>5. n.key \in Keys /\ n.id \in Addresses /\ n.id # 0
    BY <2>1 DEF Nodes, Addresses
  <2> QED BY <2>1, <2>2, <2>3, <2>4, <2>5
<1>2. /\ list \in Seq(Nodes) /\ Len(list) = len + 1
      /\ list[1] = n /\ \A i \in 2..(len + 1) : i - 1 \in 1..len /\ list[i] = nodes[i - 1]
  <2>1. n \in Nodes /\ nodes \in Seq(Nodes)
    BY <1>1
  <2> QED BY <2>1, InFront
<1>3. nodes' = Evict(list, map).list /\ index' = Evict(list, map).map
  OBVIOUS
<1> HIDE DEF list, map
<1>4. /\ map \in [Keys -> Addresses \cup {0}] /\ map[n.key] = n.id
      /\ \A k \in Keys : k # n.key => map[k] = index[k]
  BY <1>1 DEF map
<1>5. \A i, k \in 1..(len + 1) : list[i].id = list[k].id => i = k
  <2> SUFFICES ASSUME NEW i \in 1..(len + 1), NEW k \in 1..(len + 1), list[i].id = list[k].id PROVE i = k
    OBVIOUS
  <2>1. \A l \in 2..(len + 1) : list[l].id # n.id
    BY <1>2
  <2>2. CASE i = 1 \/ k = 1
    BY <1>1, <1>2, <2>1, <2>2
  <2>3. CASE i # 1 /\ k # 1
    <3>1. i \in 2..(len + 1) /\ k \in 2..(len + 1)
      BY <1>1, <2>3
    <3>2. /\ i - 1 \in 1..len /\ k - 1 \in 1..len
          /\ list[i] = nodes[i - 1] /\ list[k] = nodes[k - 1]
      BY <1>2, <3>1
    <3>3. nodes[i - 1].id = nodes[k - 1].id
      BY <3>2
    <3>4. i - 1 = k - 1
      BY <1>1, <3>2, <3>3
    <3> QED BY <3>1, <3>4
  <2> QED BY <2>2, <2>3
<1>6. \A i \in 1..(len + 1) : NodeTrue(list[i])
  <2> SUFFICES ASSUME NEW i \in 1..(len + 1) PROVE NodeTrue(list[i])
    OBVIOUS
  <2>1. CASE i = 1
    BY <1>2, <2>1
  <2>2. CASE i # 1
    <3>1. i \in 2..(len + 1)
      BY <1>1, <2>2
    <3> QED BY <1>1, <1>2, <3>1
  <2> QED BY <2>1, <2>2
<1>7. ASSUME NEW k \in Keys, map[k] # 0 PROVE \E i \in 1..(len + 1) : list[i].id = map[k] /\ list[i].key = k
  <2>1. CASE k = n.key
    BY <1>1, <1>2, <1>4, <2>1
  <2>2. CASE k # n.key
    <3>1. PICK i \in 1..len : nodes[i].id = index[k] /\ nodes[i].key = k
      BY <1>4, <1>7, <2>2 DEF VerifyInv, MapTrue
    <3>2. i + 1 \in 2..(len + 1) /\ i + 1 \in 1..(len + 1) /\ (i + 1) - 1 = i
      BY <1>1
    <3>3. list[i + 1] = nodes[i]
      BY <1>2, <3>2
    <3> QED BY <1>4, <2>2, <3>1, <3>2, <3>3
  <2> QED BY <2>1, <2>2
<1>8. CASE len + 1 <= VerifyMax
  <2>1. nodes' = list /\ index' = map
    BY <1>1, <1>2, <1>3, <1>8 DEF Evict
  <2>2. ListApart'
    BY <1>2, <1>5, <1>8, <2>1 DEF ListApart
  <2>3. MapTrue'
    <3>1. ASSUME NEW k \in Keys, index'[k] # 0 PROVE \E i \in 1..Len(nodes') : nodes'[i].id = index'[k] /\ nodes'[i].key = k
      BY <1>2, <1>7, <2>1, <3>1
    <3> QED BY <3>1 DEF MapTrue
  <2>4. \A i \in 1..Len(nodes') : NodeTrue(nodes[i])'
    BY <1>2, <1>6, <2>1 DEF NodeTrue
  <2> QED BY <1>2, <1>4, <2>1, <2>2, <2>3, <2>4
<1>9. CASE len + 1 > VerifyMax
  <2> DEFINE last == list[VerifyMax + 1].key
             front == SubSeq(list, 1, VerifyMax)
  <2>1. len = VerifyMax
    BY <1>1, <1>9
  <2>2. nodes' = front /\ index' = [map EXCEPT ![last] = 0]
    BY <1>1, <1>2, <1>3, <1>9 DEF Evict
  <2>3. front \in Seq(Nodes) /\ Len(front) = VerifyMax /\ \A i \in 1..VerifyMax : front[i] = list[i]
    <3>1. ASSUME NEW i \in 1..VerifyMax PROVE list[i] \in Nodes
      <4>1. i \in 1..Len(list)
        BY <1>1, <1>2, <2>1
      <4> QED BY <1>2, <4>1, ElementOfSeq
    <3>2. /\ front \in Seq(Nodes) /\ Len(front) = IF 1 <= VerifyMax THEN VerifyMax - 1 + 1 ELSE 0
          /\ \A i \in 1..VerifyMax - 1 + 1 : front[i] = list[1 + i - 1]
      BY <1>1, <3>1, SubSeqProperties
    <3> HIDE DEF front
    <3> QED BY <1>1, <3>2
  <2> HIDE DEF front
  <2>4. last \in Keys
    <3>1. list[VerifyMax + 1] \in Nodes
      BY <1>1, <1>2, <2>1
    <3> QED BY <3>1 DEF Nodes
  <2>5. /\ index' \in [Keys -> Addresses \cup {0}] /\ index'[last] = 0
        /\ \A k \in Keys : k # last => index'[k] = map[k]
    BY <1>4, <2>2, <2>4
  <2>6. ListApart'
    <3>1. ASSUME NEW i \in 1..VerifyMax, NEW k \in 1..VerifyMax, nodes'[i].id = nodes'[k].id PROVE i = k
      <4>1. list[i].id = list[k].id
        BY <2>2, <2>3, <3>1
      <4>2. i \in 1..(len + 1) /\ k \in 1..(len + 1)
        BY <1>1, <2>1
      <4> QED BY <1>5, <4>1, <4>2
    <3>2. Len(nodes') = VerifyMax
      BY <2>2, <2>3
    <3>3. \A i, k \in 1..Len(nodes') : nodes'[i].id = nodes'[k].id => i = k
      BY <3>1, <3>2
    <3>4. Len(nodes') <= VerifyMax
      BY <1>1, <3>2
    <3> QED BY <3>3, <3>4 DEF ListApart
  <2>7. MapTrue'
    <3>1. ASSUME NEW k \in Keys, index'[k] # 0 PROVE \E i \in 1..VerifyMax : nodes'[i].id = index'[k] /\ nodes'[i].key = k
      <4>1. k # last /\ index'[k] = map[k]
        BY <2>5, <3>1
      <4>2. PICK i \in 1..(len + 1) : list[i].id = map[k] /\ list[i].key = k
        BY <1>7, <3>1, <4>1
      <4>3. i # VerifyMax + 1
        BY <4>1, <4>2
      <4>4. i \in 1..VerifyMax
        BY <1>1, <2>1, <4>3
      <4> QED BY <2>2, <2>3, <4>1, <4>2, <4>4
    <3> QED BY <2>2, <2>3, <3>1 DEF MapTrue
  <2>8. \A i \in 1..Len(nodes') : NodeTrue(nodes[i])'
    <3>1. ASSUME NEW i \in 1..VerifyMax PROVE NodeTrue(nodes'[i])
      <4>1. nodes'[i] = list[i] /\ i \in 1..(len + 1)
        BY <1>1, <2>1, <2>2, <2>3
      <4> QED BY <1>6, <4>1
    <3> QED BY <2>2, <2>3, <3>1 DEF NodeTrue
  <2> QED BY <2>2, <2>3, <2>5, <2>6, <2>7, <2>8
<1>10. len + 1 <= VerifyMax \/ len + 1 > VerifyMax
  BY <1>1
<1> QED BY <1>8, <1>9, <1>10

\* A store puts its node in front.
LEMMA StoreKept == ASSUME VerifyInv, NEW v \in Verifiers, Store(v) PROVE VerifyInv'
<1> DEFINE a == CHOOSE a \in Addresses : \A i \in 1..Len(nodes) : nodes[i].id # a
           n == [id |-> a, key |-> KeyOf(v), shows |-> job[v].shows]
<1>1. a \in Addresses /\ \A i \in 1..Len(nodes) : nodes[i].id # a
  BY FreeAddress
<1>2. /\ job[v].at = "store" /\ Received(v, job[v].shows) /\ UNCHANGED edition
      /\ nodes' = Evict(<<n>> \o nodes, [index EXCEPT ![KeyOf(v)] = a]).list
      /\ index' = Evict(<<n>> \o nodes, [index EXCEPT ![KeyOf(v)] = a]).map
  BY DEF Store
<1> HIDE DEF a
<1>3. job[v] \in Jobs /\ JobTrue(job[v]) /\ Len(job[v].got) \in Nat /\ edition \in [Images -> Editions]
  BY DEF VerifyInv, VerifyTypeOK, Jobs
<1>4. Len(job[v].got) < 2 /\ job[v].shows \in job[v].stamp..edition[ImageOf(v)]
  BY <1>2, <1>3 DEF JobTrue, ImageOf
<1>5. ImageOf(v) \in Images /\ job[v].stamp \in Editions /\ KeyOf(v) \in Keys /\ job[v].shows \in Editions
      /\ KeyOf(v)[1] = ImageOf(v) /\ KeyOf(v)[2] = job[v].stamp
  BY <1>3, <1>4 DEF Jobs, ImageOf, KeyOf, Keys
<1>6. n \in Nodes /\ n.id = a /\ n.key = KeyOf(v) /\ n.shows = job[v].shows
  BY <1>1, <1>5 DEF Nodes
<1>7. NodeTrue(n)
  BY <1>4, <1>5, <1>6 DEF NodeTrue
<1> HIDE DEF n
<1>8. /\ nodes' = Evict(<<n>> \o nodes, [index EXCEPT ![n.key] = n.id]).list
      /\ index' = Evict(<<n>> \o nodes, [index EXCEPT ![n.key] = n.id]).map
  BY <1>2, <1>6
<1>9. /\ nodes' \in Seq(Nodes) /\ index' \in [Keys -> Addresses \cup {0}]
      /\ ListApart' /\ MapTrue' /\ \A i \in 1..Len(nodes') : NodeTrue(nodes[i])'
  BY <1>1, <1>2, <1>6, <1>7, <1>8, EvictKept
<1>10. /\ job' \in [Verifiers -> Jobs] /\ (\A u \in Verifiers : Len(job'[u].got) <= 2)
       /\ \A u \in Verifiers : JobTrue(job[u])'
  BY <1>2, <1>4, <1>5, ReceivedTrue
<1> QED BY <1>2, <1>3, <1>9, <1>10 DEF VerifyInv, VerifyTypeOK

\* The steps of a verification that touch only its job.
LEMMA JobStep ==
    ASSUME VerifyInv, NEW v \in Verifiers,
           (\E p \in ImagePairs : TakePair(v, p)) \/ Stat(v) \/ Fails(v) \/ Miss(v) \/ DecodeImage(v)
    PROVE  VerifyInv'
<1> DEFINE j == job[v]
<1>1. UNCHANGED <<edition, nodes, index>>
  BY DEF TakePair, Stat, Fails, Miss, DecodeImage
<1>2. /\ job \in [Verifiers -> Jobs] /\ (\A u \in Verifiers : Len(job[u].got) <= 2)
      /\ \A u \in Verifiers : JobTrue(job[u])
      /\ j \in Jobs /\ JobTrue(j) /\ edition \in [Images -> Editions]
  BY DEF VerifyInv, VerifyTypeOK
<1>3. /\ 1 \in Editions /\ (\A e \in Editions : e \in Nat)
      /\ (Len(j.got) < 2 => ImageOf(v) \in Images /\ edition[ImageOf(v)] \in Editions)
      /\ Len(j.got) \in Nat
  <2>1. 1 \in Editions /\ \A e \in Editions : e \in Nat
    BY VerifyAssumption DEF Editions
  <2>2. Len(j.got) \in Nat /\ j.pair \in Images \X Images
    BY <1>2 DEF Jobs
  <2>3. ASSUME Len(j.got) < 2 PROVE ImageOf(v) \in Images /\ edition[ImageOf(v)] \in Editions
    <3>1. Len(j.got) + 1 \in {1, 2}
      BY <2>2, <2>3
    <3>2. j.pair[Len(j.got) + 1] \in Images
      BY <2>2, <3>1
    <3> QED BY <1>2, <3>2 DEF ImageOf
  <2> QED BY <2>1, <2>2, <2>3
<1>4. \E d \in Jobs : job' = [job EXCEPT ![v] = d] /\ JobTrue(d) /\ Len(d.got) <= 2
  <2>1. ASSUME NEW p \in ImagePairs, TakePair(v, p) PROVE \E d \in Jobs : job' = [job EXCEPT ![v] = d] /\ JobTrue(d) /\ Len(d.got) <= 2
    <3> DEFINE d == [pair |-> p, at |-> "stat", stamp |-> 1, shows |-> 1, got |-> <<>>]
    <3>1. d \in Jobs /\ JobTrue(d) /\ Len(d.got) <= 2
      BY <1>3, VerifyAssumption DEF Jobs, JobTrue
    <3> QED BY <2>1, <3>1 DEF TakePair
  <2>2. CASE Stat(v)
    <3> DEFINE d == [j EXCEPT !.at = "lookup", !.stamp = edition[ImageOf(v)]]
    <3>1. job' = [job EXCEPT ![v] = d]
      BY <1>2, <2>2 DEF Stat
    <3>2. Len(j.got) < 2
      BY <1>2, <2>2 DEF Stat, JobTrue
    <3>3. d \in Jobs /\ d.pair = j.pair /\ d.got = j.got /\ d.at = "lookup" /\ d.stamp = edition[ImageOf(v)]
      BY <1>2, <1>3, <3>2 DEF Jobs
    <3>4. JobTrue(d)
      BY <1>2, <1>3, <3>2, <3>3 DEF JobTrue, ImageOf
    <3> QED BY <1>2, <3>1, <3>3, <3>4
  <2>3. CASE Fails(v)
    <3> DEFINE d == [j EXCEPT !.at = "hamming", !.got = <<>>, !.stamp = 1, !.shows = 1]
    <3>1. job' = [job EXCEPT ![v] = d]
      BY <1>2, <2>3 DEF Fails
    <3>2. d \in Jobs /\ d.got = <<>> /\ d.at = "hamming"
      <4>1. <<>> \in Seq(Buffers)
        OBVIOUS
      <4> QED BY <1>2, <1>3, <4>1 DEF Jobs
    <3>3. JobTrue(d) /\ Len(d.got) <= 2
      BY <3>2 DEF JobTrue
    <3> QED BY <3>1, <3>2, <3>3
  <2>4. CASE Miss(v)
    <3> DEFINE d == [j EXCEPT !.at = "decode"]
    <3>1. job' = [job EXCEPT ![v] = d]
      BY <1>2, <2>4 DEF Miss
    <3>2. d \in Jobs /\ d.pair = j.pair /\ d.got = j.got /\ d.at = "decode" /\ d.stamp = j.stamp
      BY <1>2 DEF Jobs
    <3>3. JobTrue(d)
      BY <1>2, <2>4, <3>2 DEF JobTrue, Miss
    <3> QED BY <1>2, <3>1, <3>2, <3>3
  <2>5. CASE DecodeImage(v)
    <3> DEFINE d == [j EXCEPT !.at = "store", !.shows = edition[ImageOf(v)]]
    <3>1. job' = [job EXCEPT ![v] = d]
      BY <1>2, <2>5 DEF DecodeImage
    <3>2. Len(j.got) < 2 /\ j.stamp <= edition[ImageOf(v)] /\ j.stamp \in Nat
      BY <1>2, <1>3, <2>5 DEF DecodeImage, JobTrue, ImageOf, Jobs
    <3>3. d \in Jobs /\ d.pair = j.pair /\ d.got = j.got /\ d.at = "store" /\ d.stamp = j.stamp /\ d.shows = edition[ImageOf(v)]
      BY <1>2, <1>3, <3>2 DEF Jobs
    <3>4. JobTrue(d)
      BY <1>2, <1>3, <3>2, <3>3 DEF JobTrue, ImageOf
    <3> QED BY <1>2, <3>1, <3>3, <3>4
  <2> QED BY <2>1, <2>2, <2>3, <2>4, <2>5
<1>5. PICK d \in Jobs : job' = [job EXCEPT ![v] = d] /\ JobTrue(d) /\ Len(d.got) <= 2
  BY <1>4
<1>6. /\ job' \in [Verifiers -> Jobs] /\ (\A u \in Verifiers : Len(job'[u].got) <= 2)
      /\ \A u \in Verifiers : JobTrue(job'[u])
  BY <1>2, <1>5
<1>7. \A u \in Verifiers : JobTrue(job[u])'
  BY <1>1, <1>6 DEF JobTrue
<1>8. VerifyTypeOK'
  BY <1>1, <1>6 DEF VerifyInv, VerifyTypeOK
<1> QED BY <1>1, <1>7, <1>8 DEF VerifyInv, ListApart, MapTrue, NodeTrue

\* Every step of the verification.
LEMMA VerifyInvKept == VerifyInv /\ [VerifyNext]_verifyVars => VerifyInv'
<1> SUFFICES ASSUME VerifyInv, [VerifyNext]_verifyVars PROVE VerifyInv'
  OBVIOUS
<1>1. CASE UNCHANGED verifyVars
  BY <1>1 DEF VerifyInv, VerifyTypeOK, ListApart, MapTrue, NodeTrue, JobTrue, verifyVars
<1>2. CASE \E m \in Images : Rewrite(m)
  <2>1. PICK m \in Images : Rewrite(m)
    BY <1>2
  <2>2. edition \in [Images -> Editions] /\ \A e \in Editions : e \in Nat
    BY DEF VerifyInv, VerifyTypeOK, Editions
  <2>3. edition' \in [Images -> Editions] /\ \A g \in Images : edition[g] <= edition'[g]
    BY <2>1, <2>2, VerifyAssumption DEF Rewrite, Editions
  <2>4. UNCHANGED <<nodes, index, job>>
    BY <2>1 DEF Rewrite
  <2>5. VerifyTypeOK' /\ ListApart' /\ MapTrue'
    BY <2>3, <2>4 DEF VerifyInv, VerifyTypeOK, ListApart, MapTrue
  <2>6. ASSUME NEW i \in 1..Len(nodes) PROVE NodeTrue(nodes[i])'
    <3>1. nodes[i] \in Nodes /\ NodeTrue(nodes[i])
      BY DEF VerifyInv, VerifyTypeOK
    <3>2. nodes[i].key[1] \in Images /\ nodes[i].key[2] \in Nat /\ nodes[i].shows \in Nat
      BY <2>2, <3>1 DEF Nodes, Keys
    <3> QED BY <2>2, <2>3, <2>4, <3>1, <3>2 DEF NodeTrue
  <2>7. ASSUME NEW v \in Verifiers PROVE JobTrue(job[v])'
    <3> DEFINE j == job[v]
    <3>1. j \in Jobs /\ JobTrue(j) /\ Len(j.got) \in Nat
      BY DEF VerifyInv, VerifyTypeOK, Jobs
    <3>2. Len(j.got) < 2 => j.pair[Len(j.got) + 1] \in Images
      BY <3>1 DEF Jobs
    <3>3. j.stamp \in Nat /\ j.shows \in Nat
      BY <2>2, <3>1 DEF Jobs
    <3>4. ASSUME NEW i \in 1..Len(j.got) PROVE j.got[i].shows \in j.got[i].stamp..edition'[j.got[i].image]
      <4>1. j.got[i] \in Buffers
        BY <3>1 DEF Jobs
      <4>2. j.got[i].image \in Images /\ j.got[i].stamp \in Nat /\ j.got[i].shows \in Nat
        BY <2>2, <4>1 DEF Buffers
      <4>3. j.got[i].shows \in j.got[i].stamp..edition[j.got[i].image]
        BY <3>1 DEF JobTrue
      <4> QED BY <2>2, <2>3, <4>2, <4>3
    <3>5. j.at \in {"stat", "lookup", "decode", "store"} => Len(j.got) < 2
      BY <3>1 DEF JobTrue
    <3>6. /\ j.at \in {"lookup", "decode", "store"} => j.stamp <= edition'[j.pair[Len(j.got) + 1]]
          /\ j.at = "store" => j.shows \in j.stamp..edition'[j.pair[Len(j.got) + 1]]
      BY <2>2, <2>3, <3>1, <3>2, <3>3, <3>5 DEF JobTrue
    <3> QED BY <2>4, <3>4, <3>5, <3>6 DEF JobTrue
  <2> QED BY <2>4, <2>5, <2>6, <2>7 DEF VerifyInv
<1>3. ASSUME NEW v \in Verifiers,
             (\E p \in ImagePairs : TakePair(v, p)) \/ Stat(v) \/ Fails(v) \/ Hit(v) \/ Miss(v)
             \/ DecodeImage(v) \/ Store(v)
      PROVE  VerifyInv'
  BY <1>3, HitKept, StoreKept, JobStep
<1> QED BY <1>1, <1>2, <1>3 DEF VerifyNext

-----------------------------------------------------------------------------
(* Places in a finite set of numbers.                                          *)

\* How many elements of S are no greater than t, and the element at a place.
UpTo(S, t)    == {a \in S : a <= t}
Place(S, t)   == Cardinality(UpTo(S, t))
AtPlace(S, k) == CHOOSE a \in S : Place(S, a) = k

\* A place is a number no greater than the size.
LEMMA PlaceBounds ==
    ASSUME NEW S \in SUBSET Nat, IsFiniteSet(S), NEW t
    PROVE  /\ IsFiniteSet(UpTo(S, t)) /\ Cardinality(S) \in Nat
           /\ Place(S, t) \in 0..Cardinality(S)
           /\ t \in S => Place(S, t) # 0
<1>1. UpTo(S, t) \in SUBSET S
  BY DEF UpTo
<1>2. IsFiniteSet(UpTo(S, t)) /\ Cardinality(UpTo(S, t)) <= Cardinality(S)
  BY <1>1, FS_Subset
<1>3. Cardinality(S) \in Nat /\ Cardinality(UpTo(S, t)) \in Nat
  BY <1>2, FS_CardinalityType
<1>4. ASSUME t \in S PROVE Place(S, t) # 0
  <2>1. t \in UpTo(S, t)
    BY <1>4 DEF UpTo
  <2> QED BY <1>2, <2>1, FS_EmptySet DEF Place
<1> QED BY <1>2, <1>3, <1>4 DEF Place

\* Places are in order.
LEMMA PlacesInOrder ==
    ASSUME NEW S \in SUBSET Nat, IsFiniteSet(S), NEW a \in Int, NEW b \in Int
    PROVE  /\ a <= b => Place(S, a) <= Place(S, b)
           /\ a < b /\ b \in S => Place(S, a) < Place(S, b)
<1>1. IsFiniteSet(UpTo(S, b)) /\ Place(S, a) \in Nat /\ Place(S, b) \in Nat
  BY PlaceBounds
<1>2. a <= b => UpTo(S, a) \in SUBSET UpTo(S, b)
  <2> SUFFICES ASSUME a <= b, NEW c \in UpTo(S, a) PROVE c \in UpTo(S, b)
    OBVIOUS
  <2>1. c \in S /\ c \in Nat /\ c <= a
    BY DEF UpTo
  <2> QED BY <2>1 DEF UpTo
<1>3. a <= b => Place(S, a) <= Place(S, b)
  BY <1>1, <1>2, FS_Subset DEF Place
<1>4. ASSUME a < b, b \in S PROVE Place(S, a) < Place(S, b)
  <2>1. b \in UpTo(S, b) /\ b \notin UpTo(S, a) /\ UpTo(S, a) \in SUBSET UpTo(S, b)
    BY <1>2, <1>4 DEF UpTo
  <2>2. Cardinality(UpTo(S, b)) # Cardinality(UpTo(S, a))
    BY <1>1, <2>1, FS_Subset
  <2> QED BY <1>1, <1>3, <1>4, <2>2 DEF Place
<1> QED BY <1>3, <1>4

\* No two elements have one place.
LEMMA PlacesApart ==
    ASSUME NEW S \in SUBSET Nat, IsFiniteSet(S), NEW a \in S, NEW b \in S, Place(S, a) = Place(S, b)
    PROVE  a = b
<1>1. a \in Int /\ b \in Int /\ Place(S, a) \in Nat
  BY PlaceBounds
<1>2. ~(a < b) /\ ~(b < a)
  BY <1>1, PlacesInOrder
<1> QED BY <1>1, <1>2

\* Every place is taken.
LEMMA PlacesTaken ==
    ASSUME NEW S \in SUBSET Nat, IsFiniteSet(S), NEW k \in 1..Cardinality(S)
    PROVE  \E a \in S : Place(S, a) = k
<1> DEFINE n == Cardinality(S)
           f == [a \in S |-> Place(S, a)]
<1>1. n \in Nat
  BY FS_CardinalityType
<1>2. \A a \in S : Place(S, a) \in 1..n
  BY <1>1, PlaceBounds
<1>3. f \in Injection(S, 1..n)
  <2>1. f \in [S -> 1..n] /\ \A a, b \in S : f[a] = f[b] => a = b
    BY <1>2, PlacesApart
  <2> HIDE DEF f, n
  <2> QED BY <2>1, Fun_IsInj
<1>4. IsFiniteSet(1..n) /\ Cardinality(1..n) = n
  <2> HIDE DEF n
  <2>1. IsFiniteSet(1..n) /\ Cardinality(1..n) = IF 1 > n THEN 0 ELSE n - 1 + 1
    BY <1>1, FS_Interval
  <2> QED BY <1>1, <2>1
<1>5. f \in Surjection(S, 1..n)
  <2> HIDE DEF f
  <2> QED BY <1>3, <1>4, FS_Injection
<1>6. \E a \in S : f[a] = k
  <2> HIDE DEF f, n
  <2>1. \A t \in 1..n : \E a \in S : f[a] = t
    BY <1>5, Fun_SurjectionProperties
  <2>2. k \in 1..n
    BY DEF n
  <2> QED BY <2>1, <2>2
<1> QED BY <1>6

\* The element at a place.
LEMMA AtPlaceIs ==
    ASSUME NEW S \in SUBSET Nat, IsFiniteSet(S), NEW k \in 1..Cardinality(S)
    PROVE  /\ AtPlace(S, k) \in S /\ AtPlace(S, k) \in Nat /\ Place(S, AtPlace(S, k)) = k
           /\ \A t \in Int : AtPlace(S, k) <= t <=> k <= Place(S, t)
<1>1. AtPlace(S, k) \in S /\ Place(S, AtPlace(S, k)) = k
  BY PlacesTaken DEF AtPlace
<1> DEFINE a == AtPlace(S, k)
<1> HIDE DEF a
<1>2. a \in S /\ a \in Nat /\ Place(S, a) = k
  BY <1>1 DEF a
<1>3. Cardinality(S) \in Nat
  BY FS_CardinalityType
<1>4. ASSUME NEW t \in Int PROVE a <= t <=> k <= Place(S, t)
  <2>1. Place(S, t) \in Nat /\ a \in Int
    BY <1>2, <1>3, PlaceBounds
  <2>2. a <= t => Place(S, a) <= Place(S, t)
    BY <1>2, <2>1, PlacesInOrder
  <2>3. t < a => Place(S, t) < Place(S, a)
    BY <1>2, <2>1, PlacesInOrder
  <2> QED BY <1>2, <1>3, <2>1, <2>2, <2>3
<1> QED BY <1>2, <1>4 DEF a

\* The element at an element's place.
LEMMA AtItsPlace ==
    ASSUME NEW S \in SUBSET Nat, IsFiniteSet(S), NEW a \in S
    PROVE  Place(S, a) \in 1..Cardinality(S) /\ AtPlace(S, Place(S, a)) = a
<1>1. Place(S, a) \in 1..Cardinality(S)
  BY PlaceBounds
<1>2. AtPlace(S, Place(S, a)) \in S /\ Place(S, AtPlace(S, Place(S, a))) = Place(S, a)
  BY <1>1, AtPlaceIs
<1> DEFINE c == AtPlace(S, Place(S, a))
<1> HIDE DEF c
<1>3. c \in S /\ Place(S, c) = Place(S, a)
  BY <1>2 DEF c
<1>4. c = a
  BY <1>3, PlacesApart
<1> QED BY <1>1, <1>4 DEF c

\* The places in T of the elements of P, among the first n.
PlacesOf(P, T, n) == {k \in 1..n : AtPlace(T, k) \in P}

\* Of the first n elements of T, those of P keep the order and the number they have in P.
LEMMA PlacesOfPart ==
    ASSUME NEW T \in SUBSET Nat, IsFiniteSet(T), NEW P \in SUBSET T, NEW n \in 0..Cardinality(T), NEW a \in P
    PROVE  /\ Place(P, a) \in Nat \ {0}
           /\ Place(P, a) <= Cardinality(PlacesOf(P, T, n)) <=> Place(T, a) <= n
           /\ Place(T, a) <= n => AtPlace(PlacesOf(P, T, n), Place(P, a)) = Place(T, a)
<1> DEFINE mine == {i \in 1..n : AtPlace(T, i) \in P}
           k == Place(T, a)
           r == Place(P, a)
           A == UpTo(P, a)
           B == {j \in 1..k : AtPlace(T, j) \in P}
           g == [b \in A |-> Place(T, b)]
<1>1. /\ IsFiniteSet(P) /\ P \in SUBSET Nat /\ a \in T /\ a \in Int
      /\ Cardinality(T) \in Nat /\ k \in 1..Cardinality(T) /\ AtPlace(T, k) = a
  <2>1. IsFiniteSet(P) /\ P \in SUBSET Nat /\ a \in T /\ a \in Int
    <3>1. IsFiniteSet(P)
      BY FS_Subset
    <3>2. P \in SUBSET Nat /\ a \in T
      OBVIOUS
    <3>3. a \in Int
      BY <3>2
    <3> QED BY <3>1, <3>2, <3>3
  <2>2. Cardinality(T) \in Nat
    BY FS_CardinalityType
  <2>3. k \in 1..Cardinality(T) /\ AtPlace(T, k) = a
    BY <2>1, AtItsPlace
  <2> QED BY <2>1, <2>2, <2>3
<1>2. IsFiniteSet(A) /\ r = Cardinality(A) /\ r \in Nat \ {0}
  BY <1>1, PlaceBounds DEF Place
<1> HIDE DEF k
<1>3. mine \in SUBSET Nat /\ IsFiniteSet(mine) /\ IsFiniteSet(B) /\ B \in SUBSET Nat
  <2>1. mine \in SUBSET (1..n) /\ B \in SUBSET (1..k) /\ n \in Int /\ k \in Int /\ 1 \in Int
    BY <1>1
  <2>2. IsFiniteSet(1..n) /\ IsFiniteSet(1..k)
    BY <2>1, FS_Interval
  <2> HIDE DEF B
  <2>3. IsFiniteSet(mine) /\ IsFiniteSet(B)
    BY <2>1, <2>2, FS_Subset
  <2>4. 1..n \subseteq Nat /\ 1..k \subseteq Nat
    OBVIOUS
  <2> QED BY <2>1, <2>3, <2>4
<1>4. \A b \in A : b \in T /\ b <= a /\ b \in Int
  BY <1>1 DEF UpTo
<1>5. \A b \in A : Place(T, b) \in B
  <2> SUFFICES ASSUME NEW b \in A PROVE Place(T, b) \in B
    OBVIOUS
  <2>1. Place(T, b) \in 1..Cardinality(T) /\ AtPlace(T, Place(T, b)) = b
    BY <1>4, AtItsPlace
  <2>2. Place(T, b) <= k
    BY <1>1, <1>4, PlacesInOrder DEF k
  <2>3. b \in P
    BY DEF UpTo
  <2> QED BY <1>1, <2>1, <2>2, <2>3
<1>6. g \in Bijection(A, B)
  <2>1. g \in [A -> B]
    BY <1>5
  <2>2. \A b, c \in A : g[b] = g[c] => b = c
    BY <1>4, PlacesApart
  <2>3. \A j \in B : \E b \in A : g[b] = j
    <3> SUFFICES ASSUME NEW j \in B PROVE \E b \in A : g[b] = j
      OBVIOUS
    <3>1. j \in 1..Cardinality(T) /\ j <= k /\ AtPlace(T, j) \in P
      BY <1>1
    <3>2. Place(T, AtPlace(T, j)) = j /\ AtPlace(T, j) <= a
      BY <1>1, <3>1, AtPlaceIs DEF k
    <3>3. AtPlace(T, j) \in A
      BY <3>1, <3>2 DEF UpTo
    <3> QED BY <3>2, <3>3
  <2> HIDE DEF g, A, B
  <2> QED BY <2>1, <2>2, <2>3, Fun_IsBij
<1>7. Cardinality(B) = r
  <2> HIDE DEF g, A, B
  <2>1. ExistsBijection(A, B)
    BY <1>6, Fun_ExistsBij
  <2> QED BY <1>2, <2>1, FS_Bijection
<1>8. k \in B
  BY <1>1
<1> HIDE DEF r
<1>9. PlacesOf(P, T, n) = mine
  BY DEF PlacesOf
<1>10. CASE k <= n
  <2>1. B \in SUBSET mine /\ k \in mine
    BY <1>1, <1>10
  <2>2. r <= Cardinality(mine)
    <3> HIDE DEF B
    <3> QED BY <1>3, <1>7, <2>1, FS_Subset
  <2>3. UpTo(mine, k) = B
    BY <1>1, <1>10 DEF UpTo
  <2>4. Place(mine, k) = r
    BY <1>7, <2>3 DEF Place
  <2>5. AtPlace(mine, r) = k
    BY <1>3, <2>1, <2>4, AtItsPlace
  <2> QED BY <1>1, <1>2, <1>3, <1>10, <1>9, <2>1, <2>2, <2>5 DEF k, r
<1>11. CASE n < k
  <2>1. mine \in SUBSET B /\ k \notin mine
    BY <1>1, <1>11
  <2>2. Cardinality(mine) <= r /\ Cardinality(mine) # r /\ Cardinality(mine) \in Nat
    <3> HIDE DEF B
    <3> QED BY <1>3, <1>7, <1>8, <2>1, FS_Subset, FS_CardinalityType
  <2>3. ~(r <= Cardinality(mine)) /\ ~(k <= n)
    BY <1>1, <1>2, <1>11, <2>2 DEF r
  <2> QED BY <1>1, <1>2, <1>3, <1>9, <2>3 DEF k, r
<1>12. k <= n \/ n < k
  BY <1>1
<1> QED BY <1>10, <1>11, <1>12

-----------------------------------------------------------------------------
(* VideoSweep: the frames of a sweep are those that its own plan asks for.     *)

\* The targets by their places.
LEMMA TargetsByPlace ==
    ASSUME plan \in PlanSets, anchors \in PlanSets
    PROVE  /\ Targets \in SUBSET Nat /\ IsFiniteSet(Targets) /\ Cardinality(Targets) \in Nat
           /\ \A t : ReachedBy(t) = Place(Targets, t)
           /\ \A k : Target(k) = AtPlace(Targets, k)
           /\ \A t : ReachedBy(t) \in 0..Cardinality(Targets)
           /\ plan \in SUBSET Targets /\ Targets \subseteq Times
<1>1. Targets \in SUBSET Nat /\ plan \in SUBSET Targets /\ Targets \subseteq Times
  BY SweepAssumption DEF Targets, Times
<1>2. IsFiniteSet(Targets)
  BY SweepAssumption, FS_Union DEF Targets
<1>3. \A t : ReachedBy(t) = Place(Targets, t)
  BY DEF ReachedBy, Place, UpTo
<1>4. \A k : Target(k) = AtPlace(Targets, k)
  BY <1>3 DEF Target, AtPlace
<1> QED BY <1>1, <1>2, <1>3, <1>4, PlaceBounds

\* Of the frames received, the one at time t is the first for the target.
Serves(received, t, target) ==
    t \in received /\ t >= target /\ \A u \in received : u >= target => t <= u

\* A later frame changes nothing for a target that is served.
LEMMA LaterServes ==
    ASSUME NEW received, NEW u \in Int, \A t \in received : t \in Int /\ t < u,
           NEW t, NEW target \in Nat, Serves(received, t, target)
    PROVE  Serves(received \cup {u}, t, target)
BY DEF Serves

\* The first frame that reaches a target serves it.
LEMMA FirstServes ==
    ASSUME NEW received, NEW u \in Int, \A t \in received : t \in Int /\ t < u,
           NEW target \in Nat, target <= u, \A t \in received : t < target
    PROVE  Serves(received \cup {u}, u, target)
BY DEF Serves

\* While the frames have their times: every sample is the first frame for its target, no frame has
\* reached a target without a sample, and one decoder has made them all.
OutTrue ==
    /\ \A k \in 1..Len(out) : Serves(decoded, out[k].time, Target(k))
    /\ \A k \in Len(out) + 1..Cardinality(Targets) : \A t \in decoded : t < Target(k)
    /\ \A k \in 1..Len(out) : out[k].from = IF hw THEN "hardware" ELSE "software"
    /\ decoded # {} => lastT \in decoded

\* While nothing has befallen it, a sweep has received every frame so far, and is checked only when
\* it has all.
CleanSoFar ==
    /\ decoded = 0..pos - 1 /\ lastT = pos - 1 /\ end = Length
    /\ sweep # "reopening"
    /\ sweep = "checking" /\ ~stopped => pos = Length \/ Len(out) = Cardinality(Targets)

SweepInv ==
    /\ SweepTypeOK
    /\ plan # {}
    /\ sweep = "reading" => end = Length
    /\ sweep \in {"reading", "draining"} => Len(out) < Cardinality(Targets)
    /\ decoded \subseteq 0..pos - 1
    /\ "untimed" \notin faults /\ sweep \in {"reading", "draining", "checking"} => OutTrue
    /\ faults = {} /\ sweep \notin {"done", "failed"} => CleanSoFar
    /\ SweepTrue

\* The first state.
LEMMA SweepInvInit == SweepInit => SweepInv
<1> SUFFICES ASSUME SweepInit PROVE SweepInv
  OBVIOUS
<1>1. /\ plan \in PlanSets /\ plan # {} /\ anchors \in PlanSets /\ hw \in BOOLEAN
      /\ sweep = "reading" /\ pos = 0 /\ end = Length /\ out = <<>> /\ lastT = -1
      /\ stopped = FALSE /\ decoded = {} /\ faults = {} /\ samples = <<>>
      /\ Length \in Nat
  BY SweepAssumption DEF SweepInit
<1>2. Cardinality(Targets) \in Nat /\ Cardinality(Targets) # 0
  <2>1. Targets # {}
    BY <1>1 DEF Targets
  <2> QED BY <1>1, <2>1, TargetsByPlace, FS_EmptySet
<1>3. SweepTypeOK
  <2>1. <<>> \in Samples /\ Len(<<>>) = 0
    BY DEF Samples
  <2>2. out \in Samples /\ samples \in Samples /\ Len(out) <= Cardinality(Targets)
    BY <1>1, <1>2, <2>1
  <2>3. pos \in 0..end /\ end \in 0..Length /\ lastT \in Times \cup {-1}
    BY <1>1
  <2>4. sweep \in {"reading", "draining", "checking", "reopening", "done", "failed"}
    BY <1>1
  <2>5. decoded \subseteq 0..Length /\ faults \subseteq Faults /\ stopped \in BOOLEAN
    BY <1>1
  <2> QED BY <1>1, <2>2, <2>3, <2>4, <2>5 DEF SweepTypeOK
<1>4. OutTrue
  BY <1>1 DEF OutTrue
<1>5. CleanSoFar
  BY <1>1 DEF CleanSoFar
<1>6. SweepTrue
  BY <1>1 DEF SweepTrue, SamplesExact, CleanServed
<1> QED BY <1>1, <1>2, <1>3, <1>4, <1>5, <1>6 DEF SweepInv

\* What a frame at time t gives: samples up to the place it reaches.
LEMMA TakenIs ==
    ASSUME SweepInv, NEW t \in Times, ReachedBy(t) > Len(out)
    PROVE  /\ Taking(t) \in Samples /\ Len(Taking(t)) = ReachedBy(t)
           /\ \A k \in 1..Len(out) : Taking(t)[k] = out[k]
           /\ \A k \in Len(out) + 1..ReachedBy(t) :
                 Taking(t)[k] = [time |-> t, from |-> IF hw THEN "hardware" ELSE "software"]
<1> DEFINE e == [time |-> t, from |-> IF hw THEN "hardware" ELSE "software"]
           E == [time : Times, from : {"hardware", "software"}]
           n == ReachedBy(t) - Len(out)
           new == [i \in 1..n |-> e]
<1>1. out \in Seq(E) /\ Len(out) \in Nat /\ ReachedBy(t) \in Nat /\ e \in E
  BY TargetsByPlace DEF SweepInv, SweepTypeOK, Samples
<1> HIDE DEF e, E
<1>2. n \in Nat
  BY <1>1
<1>3. new \in Seq(E) /\ Len(new) = n /\ \A i \in 1..n : new[i] = e
  <2> HIDE DEF n
  <2>1. new \in [1..n -> E]
    BY <1>1
  <2> QED BY <1>2, <2>1
<1> HIDE DEF new
<1>4. /\ out \o new \in Seq(E) /\ Len(out \o new) = Len(out) + Len(new)
      /\ \A i \in 1..Len(out) + Len(new) :
            (out \o new)[i] = IF i <= Len(out) THEN out[i] ELSE new[i - Len(out)]
  BY <1>1, <1>3, ConcatProperties
<1> DEFINE r == out \o new
<1>5. Taking(t) = r
  BY DEF Taking, new, e
<1> HIDE DEF r
<1>6. r \in Seq(E) /\ Len(r) = ReachedBy(t)
  BY <1>1, <1>3, <1>4 DEF r
<1>7. \A k \in 1..Len(out) : r[k] = out[k]
  BY <1>1, <1>2, <1>3, <1>4 DEF r
<1>8. ASSUME NEW k \in Len(out) + 1..ReachedBy(t) PROVE r[k] = e
  <2>1. k \in 1..Len(out) + Len(new) /\ ~(k <= Len(out)) /\ k - Len(out) \in 1..n
    BY <1>1, <1>3
  <2> QED BY <1>3, <1>4, <2>1 DEF r
<1> QED BY <1>5, <1>6, <1>7, <1>8 DEF Samples, E, e

\* What is known when a frame surfaces.
LEMMA WhenSurfacing ==
    ASSUME SweepInv, Surfaces
    PROVE  /\ pos \in Times /\ pos \in 0..end /\ pos < end /\ end \in 0..Length /\ Length \in Nat
           /\ Lag \in 0..Length /\ pos \in Int /\ decoded \subseteq 0..pos - 1 /\ Len(out) \in Nat
           /\ sweep \in {"reading", "draining"} /\ (sweep = "reading" => end = Length)
           /\ faults \subseteq Faults /\ Len(out) < Cardinality(Targets)
           /\ (sweep = "reading" => pos < Length - Lag /\ ~stopped)
<1>1. /\ pos \in 0..end /\ end \in 0..Length /\ Length \in Nat /\ Lag \in 0..Length
      /\ decoded \subseteq 0..pos - 1 /\ Len(out) \in Nat /\ faults \subseteq Faults
      /\ (sweep = "reading" => end = Length)
  BY SweepAssumption DEF SweepInv, SweepTypeOK, Samples
<1>2. /\ sweep \in {"reading", "draining"} /\ pos < end /\ Len(out) < Cardinality(Targets)
      /\ (sweep = "reading" => pos < Length - Lag /\ ~stopped)
  <2>1. CASE sweep = "reading"
    BY <1>1, <2>1 DEF Surfaces, SweepInv
  <2>2. CASE sweep = "draining"
    BY <1>1, <2>2 DEF Surfaces, SweepInv
  <2> QED BY <2>1, <2>2 DEF Surfaces
<1>3. pos \in Times /\ pos \in Int
  <2>1. pos \in 0..Length /\ pos \in Int
    BY <1>1
  <2> QED BY <2>1 DEF Times
<1> QED BY <1>1, <1>2, <1>3

\* The types after a frame, with a time or without.
LEMMA ReceivedTypes ==
    ASSUME SweepInv, Surfaces, NEW t \in Times, Receive(t),
           UNCHANGED <<plan, anchors, hw, end, stopped, samples>>, faults' \subseteq Faults
    PROVE  /\ SweepTypeOK'
           /\ sweep' \in {sweep, "checking"}
           /\ sweep' \in {"reading", "draining"} => Len(out') < Cardinality(Targets)
           /\ decoded' \subseteq 0..pos' - 1
<1>1. /\ plan \in PlanSets /\ anchors \in PlanSets /\ pos \in 0..end /\ end \in 0..Length
      /\ Length \in Nat /\ Lag \in 0..Length /\ decoded \subseteq 0..pos - 1
      /\ Len(out) \in Nat /\ out \in Samples
  BY SweepAssumption DEF SweepInv, SweepTypeOK, Samples
<1>2. /\ sweep \in {"reading", "draining"} /\ pos < end
      /\ Len(out) < Cardinality(Targets) /\ Cardinality(Targets) \in Nat
  BY <1>1, TargetsByPlace DEF Surfaces, SweepInv
<1>3. ReachedBy(t) \in 0..Cardinality(Targets)
  BY <1>1, TargetsByPlace
<1>4. /\ lastT' = t /\ decoded' = decoded \cup {pos} /\ pos' = pos + 1
      /\ UNCHANGED Targets
  BY DEF Receive, Targets
<1>5. pos' \in 0..end /\ decoded' \subseteq 0..pos' - 1 /\ decoded' \subseteq 0..Length
  BY <1>1, <1>2, <1>4
<1>6. /\ out' \in Samples /\ Len(out') <= Cardinality(Targets) /\ sweep' \in {sweep, "checking"}
      /\ sweep' \in {"reading", "draining"} => Len(out') < Cardinality(Targets)
  <2>1. CASE ReachedBy(t) > Len(out)
    <3>1. out' = Taking(t) /\ sweep' = IF ReachedBy(t) = Cardinality(Targets) THEN "checking" ELSE sweep
      BY <2>1 DEF Receive
    <3>2. out' \in Samples /\ Len(out') = ReachedBy(t)
      BY <2>1, <3>1, TakenIs
    <3> QED BY <1>2, <1>3, <3>1, <3>2
  <2>2. CASE ~(ReachedBy(t) > Len(out))
    <3>1. UNCHANGED <<out, sweep>>
      BY <2>2 DEF Receive
    <3> QED BY <1>1, <1>2, <3>1
  <2> QED BY <2>1, <2>2
<1> QED BY <1>1, <1>2, <1>4, <1>5, <1>6 DEF SweepTypeOK, SweepInv

\* A frame with its time.
LEMMA FrameKept == ASSUME SweepInv, Frame PROVE SweepInv'
<1>1. /\ Surfaces /\ Receive(pos) /\ UNCHANGED <<plan, anchors, hw, end, stopped, faults, samples>>
      /\ plan \in PlanSets /\ anchors \in PlanSets
  BY DEF Frame, SweepInv, SweepTypeOK
<1>2. /\ pos \in Times /\ pos \in 0..end /\ pos < end /\ end \in 0..Length /\ Length \in Nat
      /\ pos \in Int /\ decoded \subseteq 0..pos - 1 /\ Len(out) \in Nat /\ sweep \in {"reading", "draining"}
      /\ faults' \subseteq Faults /\ (sweep = "reading" => end = Length)
  BY <1>1, WhenSurfacing
<1>3. /\ SweepTypeOK' /\ sweep' \in {sweep, "checking"}
      /\ sweep' \in {"reading", "draining"} => Len(out') < Cardinality(Targets)
      /\ decoded' \subseteq 0..pos' - 1
  BY <1>1, <1>2, ReceivedTypes
<1>4. /\ lastT' = pos /\ decoded' = decoded \cup {pos} /\ pos' = pos + 1
      /\ Targets' = Targets /\ \A k : Target(k)' = Target(k)
  BY <1>1 DEF Receive, Targets, Target, ReachedBy
<1>5. ReachedBy(pos) \in 0..Cardinality(Targets) /\ Cardinality(Targets) \in Nat
  BY <1>1, TargetsByPlace
<1>6. \A k \in 1..Cardinality(Targets) : Target(k) \in Nat /\ (Target(k) <= pos <=> k <= ReachedBy(pos))
  BY <1>1, <1>2, TargetsByPlace, AtPlaceIs
<1>7. ASSUME "untimed" \notin faults PROVE OutTrue'
  <2>1. OutTrue
    BY <1>2, <1>7 DEF SweepInv
  <2>2. \A t \in decoded : t \in Int /\ t < pos
    BY <1>2
  <2>3. /\ Len(out) <= Len(out') /\ Len(out') \in Nat /\ Len(out') <= Cardinality(Targets)
        /\ ReachedBy(pos) <= Len(out')
        /\ \A k \in 1..Len(out) : out'[k] = out[k]
        /\ \A k \in Len(out) + 1..Len(out') :
              /\ out'[k] = [time |-> pos, from |-> IF hw THEN "hardware" ELSE "software"]
              /\ k <= ReachedBy(pos)
    <3>1. CASE ReachedBy(pos) > Len(out)
      <4>1. out' = Taking(pos)
        BY <1>1, <3>1 DEF Receive
      <4>2. /\ Len(out') = ReachedBy(pos) /\ \A k \in 1..Len(out) : out'[k] = out[k]
            /\ \A k \in Len(out) + 1..ReachedBy(pos) :
                  out'[k] = [time |-> pos, from |-> IF hw THEN "hardware" ELSE "software"]
        BY <1>2, <3>1, <4>1, TakenIs
      <4> QED BY <1>2, <1>5, <3>1, <4>2
    <3>2. CASE ~(ReachedBy(pos) > Len(out))
      <4>1. out' = out
        BY <1>1, <3>2 DEF Receive
      <4>2. Len(out) <= Cardinality(Targets)
        BY DEF SweepInv, SweepTypeOK
      <4> QED BY <1>2, <1>5, <3>2, <4>1, <4>2
    <3> QED BY <3>1, <3>2
  <2>4. ASSUME NEW k \in 1..Len(out') PROVE Serves(decoded', out'[k].time, Target(k))
    <3>1. k \in 1..Cardinality(Targets) /\ Target(k) \in Nat /\ (Target(k) <= pos <=> k <= ReachedBy(pos))
      BY <1>5, <1>6, <2>3
    <3>2. CASE k <= Len(out)
      <4>1. k \in 1..Len(out) /\ out'[k] = out[k]
        BY <1>2, <2>3, <3>2
      <4>2. Serves(decoded, out[k].time, Target(k))
        BY <2>1, <4>1 DEF OutTrue
      <4> QED BY <1>2, <1>4, <2>2, <3>1, <4>1, <4>2, LaterServes
    <3>3. CASE k > Len(out)
      <4>1. k \in Len(out) + 1..Len(out') /\ k \in Len(out) + 1..Cardinality(Targets)
        BY <1>2, <1>5, <2>3, <3>3
      <4>2. out'[k].time = pos /\ Target(k) <= pos
        BY <2>3, <3>1, <4>1
      <4>3. \A t \in decoded : t < Target(k)
        BY <2>1, <4>1 DEF OutTrue
      <4> QED BY <1>2, <1>4, <2>2, <3>1, <4>2, <4>3, FirstServes
    <3> QED BY <1>2, <2>3, <3>2, <3>3
  <2>5. ASSUME NEW k \in Len(out') + 1..Cardinality(Targets), NEW t \in decoded' PROVE t < Target(k)
    <3>1. k \in 1..Cardinality(Targets) /\ k \in Len(out) + 1..Cardinality(Targets) /\ ~(k <= ReachedBy(pos))
      BY <1>2, <1>5, <2>3
    <3>2. CASE t = pos
      BY <1>2, <1>6, <3>1, <3>2
    <3>3. CASE t \in decoded
      BY <2>1, <3>1, <3>3 DEF OutTrue
    <3> QED BY <1>4, <3>2, <3>3
  <2>6. ASSUME NEW k \in 1..Len(out') PROVE out'[k].from = IF hw THEN "hardware" ELSE "software"
    <3>1. CASE k <= Len(out)
      <4>1. k \in 1..Len(out) /\ out'[k] = out[k]
        BY <1>2, <2>3, <3>1
      <4> QED BY <2>1, <4>1 DEF OutTrue
    <3>2. CASE k > Len(out)
      <4>1. k \in Len(out) + 1..Len(out')
        BY <1>2, <2>3, <3>2
      <4> QED BY <2>3, <4>1
    <3> QED BY <1>2, <2>3, <3>1, <3>2
  <2> QED BY <1>1, <1>4, <2>4, <2>5, <2>6 DEF OutTrue
<1>8. ASSUME faults = {} PROVE CleanSoFar'
  <2>1. CleanSoFar
    BY <1>2, <1>8 DEF SweepInv
  <2>2. decoded' = 0..pos' - 1 /\ lastT' = pos' - 1 /\ end' = Length
    BY <1>1, <1>2, <1>4, <2>1 DEF CleanSoFar
  <2>3. sweep' = "checking" => Len(out') = Cardinality(Targets)
    <3> SUFFICES ASSUME sweep' = "checking" PROVE Len(out') = Cardinality(Targets)
      OBVIOUS
    <3>1. ReachedBy(pos) > Len(out) /\ out' = Taking(pos) /\ ReachedBy(pos) = Cardinality(Targets)
      BY <1>1, <1>2 DEF Receive
    <3> QED BY <1>2, <3>1, TakenIs
  <2> QED BY <1>2, <1>3, <1>4, <2>2, <2>3 DEF CleanSoFar
<1>9. SweepTrue'
  BY <1>2, <1>3 DEF SweepTrue, SamplesExact, CleanServed
<1>10. plan' # {} /\ (sweep' = "reading" => end' = Length)
  BY <1>1, <1>2, <1>3 DEF SweepInv
<1> QED BY <1>1, <1>3, <1>4, <1>7, <1>8, <1>9, <1>10 DEF SweepInv

\* A frame without a time: only the types are at stake, as "untimed" is remembered.
LEMMA UntimedFrameKept == ASSUME SweepInv, UntimedFrame PROVE SweepInv'
<1> DEFINE t == Target(Len(out) + 1)
<1>1. /\ Surfaces /\ Receive(t) /\ UNCHANGED <<plan, anchors, hw, end, stopped, samples>>
      /\ faults' = faults \cup {"untimed"} /\ plan \in PlanSets /\ anchors \in PlanSets
  BY DEF UntimedFrame, SweepInv, SweepTypeOK
<1>2. /\ Len(out) \in Nat /\ Len(out) < Cardinality(Targets) /\ sweep \in {"reading", "draining"}
      /\ (sweep = "reading" => end = Length) /\ faults \subseteq Faults
  BY <1>1, WhenSurfacing
<1>3. t \in Times
  <2>1. Len(out) + 1 \in 1..Cardinality(Targets)
    BY <1>1, <1>2, TargetsByPlace
  <2>2. t \in Targets
    BY <1>1, <2>1, TargetsByPlace, AtPlaceIs
  <2> QED BY <1>1, <2>2, TargetsByPlace
<1> HIDE DEF t
<1>4. faults' \subseteq Faults /\ "untimed" \in faults' /\ faults' # {}
  BY <1>1, <1>2 DEF Faults
<1>5. /\ SweepTypeOK' /\ sweep' \in {sweep, "checking"}
      /\ sweep' \in {"reading", "draining"} => Len(out') < Cardinality(Targets)
      /\ decoded' \subseteq 0..pos' - 1
  BY <1>1, <1>3, <1>4, ReceivedTypes
<1>6. Targets' = Targets
  BY <1>1 DEF Targets
<1>7. SweepTrue'
  BY <1>2, <1>5 DEF SweepTrue, SamplesExact, CleanServed
<1> QED BY <1>1, <1>2, <1>4, <1>5, <1>6, <1>7 DEF SweepInv

\* A step that takes no sample and loses none keeps what the samples are.
LEMMA SamplesStay ==
    ASSUME OutTrue, UNCHANGED <<plan, anchors, hw, out, lastT, decoded>>
    PROVE  OutTrue'
<1>1. UNCHANGED Targets /\ \A k : Target(k)' = Target(k)
  BY DEF Targets, Target, ReachedBy
<1>2. UNCHANGED Cardinality(Targets)
  BY <1>1
<1> QED BY <1>1, <1>2 DEF OutTrue

\* The types when no sample is taken.
LEMMA TypesStay ==
    ASSUME SweepInv, UNCHANGED <<plan, anchors, out, lastT, decoded, samples>>,
           hw' \in BOOLEAN, stopped' \in BOOLEAN, faults' \subseteq Faults,
           sweep' \in {"reading", "draining", "checking", "reopening", "done", "failed"},
           pos' \in 0..end', end' \in 0..Length
    PROVE  SweepTypeOK' /\ UNCHANGED <<Targets, Cardinality(Targets)>>
<1>1. UNCHANGED Targets
  BY DEF Targets
<1> QED BY <1>1 DEF SweepInv, SweepTypeOK

\* A frame is lost.
LEMMA LoseFrameKept == ASSUME SweepInv, LoseFrame PROVE SweepInv'
<1>1. /\ Surfaces /\ sweep = "reading" /\ pos' = pos + 1 /\ faults' = faults \cup {"lost"}
      /\ UNCHANGED <<plan, anchors, hw, sweep, end, out, lastT, stopped, decoded, samples>>
  BY DEF LoseFrame
<1>2. /\ pos \in 0..end /\ pos < end /\ end \in 0..Length /\ Length \in Nat /\ decoded \subseteq 0..pos - 1
      /\ faults \subseteq Faults /\ hw \in BOOLEAN /\ stopped \in BOOLEAN
  BY <1>1, WhenSurfacing DEF SweepInv, SweepTypeOK
<1>3. SweepTypeOK' /\ UNCHANGED <<Targets, Cardinality(Targets)>>
  <2>1. pos' \in 0..end' /\ end' \in 0..Length /\ faults' \subseteq Faults
    BY <1>1, <1>2 DEF Faults
  <2> QED BY <1>1, <1>2, <2>1, TypesStay
<1>4. decoded' \subseteq 0..pos' - 1
  BY <1>1, <1>2
<1>5. "untimed" \notin faults' => OutTrue'
  BY <1>1, SamplesStay DEF SweepInv
<1>6. SweepTrue'
  BY <1>1 DEF SweepTrue, SamplesExact, CleanServed
<1>7. faults' # {}
  BY <1>1
<1> QED BY <1>1, <1>3, <1>4, <1>5, <1>6, <1>7 DEF SweepInv

\* The end of the file.
LEMMA EndOfFileKept == ASSUME SweepInv, EndOfFile PROVE SweepInv'
<1>1. /\ sweep = "reading" /\ sweep' = "draining"
      /\ UNCHANGED <<plan, anchors, hw, pos, end, out, lastT, stopped, decoded, faults, samples>>
  BY DEF EndOfFile
<1>2. SweepTypeOK' /\ UNCHANGED <<Targets, Cardinality(Targets)>>
  BY <1>1, TypesStay DEF SweepInv, SweepTypeOK
<1>3. "untimed" \notin faults' => OutTrue'
  BY <1>1, SamplesStay DEF SweepInv
<1>4. SweepTrue'
  BY <1>1 DEF SweepTrue, SamplesExact, CleanServed
<1>5. faults' = {} => CleanSoFar'
  BY <1>1 DEF SweepInv, CleanSoFar
<1> QED BY <1>1, <1>2, <1>3, <1>4, <1>5 DEF SweepInv

\* A read error: the frames the decoder holds still surface.
LEMMA ReadErrorKept == ASSUME SweepInv, ReadError PROVE SweepInv'
<1>1. /\ sweep = "reading" /\ sweep' = "draining" /\ end' = pos + Lag /\ faults' = faults \cup {"cut"}
      /\ Surfaces
      /\ UNCHANGED <<plan, anchors, hw, pos, out, lastT, stopped, decoded, samples>>
  BY DEF ReadError, Surfaces
<1>2. /\ pos \in 0..end /\ pos < Length - Lag /\ end \in 0..Length /\ Length \in Nat /\ Lag \in 0..Length
      /\ faults \subseteq Faults /\ hw \in BOOLEAN /\ stopped \in BOOLEAN
  BY <1>1, WhenSurfacing DEF SweepInv, SweepTypeOK
<1>3. SweepTypeOK' /\ UNCHANGED <<Targets, Cardinality(Targets)>>
  <2>1. pos' \in 0..end' /\ end' \in 0..Length /\ faults' \subseteq Faults
    BY <1>1, <1>2 DEF Faults
  <2> QED BY <1>1, <1>2, <2>1, TypesStay
<1>4. "untimed" \notin faults' => OutTrue'
  BY <1>1, SamplesStay DEF SweepInv
<1>5. SweepTrue'
  BY <1>1 DEF SweepTrue, SamplesExact, CleanServed
<1>6. faults' # {}
  BY <1>1
<1> QED BY <1>1, <1>3, <1>4, <1>5, <1>6 DEF SweepInv

\* The decoder is empty, or refuses to be drained.
LEMMA DrainEndsKept == ASSUME SweepInv, DrainRefused \/ Drained PROVE SweepInv'
<1>1. /\ sweep = "draining" /\ sweep' = "checking" /\ faults' \in {faults, faults \cup {"undrained"}}
      /\ UNCHANGED <<plan, anchors, hw, pos, end, out, lastT, stopped, decoded, samples>>
  BY DEF DrainRefused, Drained
<1>2. SweepTypeOK' /\ UNCHANGED <<Targets, Cardinality(Targets)>>
  <2>1. faults' \subseteq Faults
    BY <1>1 DEF Faults, SweepInv, SweepTypeOK
  <2> QED BY <1>1, <2>1, TypesStay DEF SweepInv, SweepTypeOK
<1>3. "untimed" \notin faults' => OutTrue'
  BY <1>1, SamplesStay DEF SweepInv
<1>4. SweepTrue'
  BY <1>1 DEF SweepTrue, SamplesExact, CleanServed
<1>5. faults' = {} => CleanSoFar'
  <2> SUFFICES ASSUME faults' = {} PROVE CleanSoFar'
    OBVIOUS
  <2>1. Drained /\ faults = {} /\ pos = end
    BY DEF Drained, DrainRefused
  <2> QED BY <1>1, <2>1 DEF SweepInv, CleanSoFar
<1> QED BY <1>1, <1>2, <1>3, <1>4, <1>5 DEF SweepInv

\* A frame that cannot be brought to memory, or not be converted, ends this sweep with nothing.
LEMMA FrameFailsKept == ASSUME SweepInv, DownloadFails \/ EmitFails PROVE SweepInv'
<1>1. /\ sweep' \in {"reopening", "failed"} /\ out' = <<>> /\ Surfaces
      /\ faults' \in {faults \cup {"download"}, faults \cup {"emit"}}
      /\ UNCHANGED <<plan, anchors, hw, pos, end, lastT, stopped, decoded, samples>>
  BY DEF DownloadFails, EmitFails
<1>2. faults' \subseteq Faults /\ faults' # {}
  BY <1>1 DEF Faults, SweepInv, SweepTypeOK
<1>3. UNCHANGED Targets /\ Cardinality(Targets) \in Nat
  BY <1>1, TargetsByPlace DEF Targets, SweepInv, SweepTypeOK
<1>4. out' \in Samples /\ Len(out') <= Cardinality(Targets)
  <2>1. <<>> \in Samples /\ Len(<<>>) = 0
    BY DEF Samples
  <2> QED BY <1>1, <1>3, <2>1
<1>5. SweepTypeOK'
  BY <1>1, <1>2, <1>3, <1>4 DEF SweepInv, SweepTypeOK
<1>6. SweepTrue'
  BY <1>1, <1>2 DEF SweepTrue, SamplesExact, CleanServed
<1> QED BY <1>1, <1>2, <1>5, <1>6 DEF SweepInv

\* The sweep starts over in software.
LEMMA ReopenKept == ASSUME SweepInv, Reopen PROVE SweepInv'
<1>1. /\ sweep = "reopening" /\ hw' = FALSE /\ sweep' = "reading" /\ pos' = 0 /\ end' = Length
      /\ out' = <<>> /\ lastT' = -1 /\ decoded' = {}
      /\ UNCHANGED <<plan, anchors, stopped, faults, samples>>
  BY DEF Reopen
<1>2. /\ plan \in PlanSets /\ anchors \in PlanSets /\ plan # {} /\ Length \in Nat
      /\ faults # {} /\ faults \subseteq Faults
  BY <1>1, SweepAssumption DEF SweepInv, SweepTypeOK, CleanSoFar
<1>3. Cardinality(Targets) \in Nat /\ Cardinality(Targets) # 0 /\ UNCHANGED Targets
  <2>1. Targets # {} /\ UNCHANGED Targets
    BY <1>1, <1>2 DEF Targets
  <2> QED BY <1>2, <2>1, TargetsByPlace, FS_EmptySet
<1>4. SweepTypeOK'
  <2>1. <<>> \in Samples /\ Len(<<>>) = 0
    BY DEF Samples
  <2>2. out' \in Samples /\ Len(out') <= Cardinality(Targets)
    BY <1>1, <1>3, <2>1
  <2>3. pos' \in 0..end' /\ end' \in 0..Length /\ lastT' \in Times \cup {-1} /\ decoded' \subseteq 0..Length
    BY <1>1, <1>2
  <2>4. UNCHANGED <<Times, Samples>>
    BY DEF Times, Samples
  <2> QED BY <1>1, <1>2, <1>3, <2>2, <2>3 DEF SweepTypeOK, SweepInv
<1>5. OutTrue'
  BY <1>1 DEF OutTrue
<1>6. SweepTrue'
  BY <1>1 DEF SweepTrue, SamplesExact, CleanServed
<1>7. Len(out') < Cardinality(Targets)
  BY <1>1, <1>3
<1> QED BY <1>1, <1>2, <1>3, <1>4, <1>5, <1>6, <1>7 DEF SweepInv

\* The software decoder cannot be opened: the sweep fails, after a fault.
LEMMA ReopenFailsKept == ASSUME SweepInv, ReopenFails PROVE SweepInv'
<1>1. /\ sweep = "reopening" /\ sweep' = "failed"
      /\ UNCHANGED <<plan, anchors, hw, pos, end, out, lastT, stopped, decoded, faults, samples>>
  BY DEF ReopenFails
<1>2. SweepTypeOK' /\ UNCHANGED <<Targets, Cardinality(Targets)>>
  BY <1>1, TypesStay DEF SweepInv, SweepTypeOK
<1>3. faults # {}
  BY <1>1 DEF SweepInv, CleanSoFar
<1>4. SweepTrue'
  BY <1>1, <1>3 DEF SweepTrue, SamplesExact, CleanServed
<1> QED BY <1>1, <1>2, <1>3, <1>4 DEF SweepInv

\* A stop is asked for, or seen.
LEMMA StopKept == ASSUME SweepInv, Stop \/ StopSeen PROVE SweepInv'
<1>1. /\ stopped' = TRUE /\ sweep \notin {"done", "failed"}
      /\ (sweep' = sweep \/ (sweep = "reading" /\ sweep' = "checking"))
      /\ UNCHANGED <<plan, anchors, hw, pos, end, out, lastT, decoded, faults, samples>>
  BY DEF Stop, StopSeen, SweepInv, SweepTypeOK
<1>2. SweepTypeOK' /\ UNCHANGED <<Targets, Cardinality(Targets)>>
  BY <1>1, TypesStay DEF SweepInv, SweepTypeOK
<1>3. "untimed" \notin faults' /\ sweep' \in {"reading", "draining", "checking"} => OutTrue'
  BY <1>1, SamplesStay DEF SweepInv
<1>4. SweepTrue'
  BY <1>1 DEF SweepTrue, SamplesExact, CleanServed
<1>5. faults' = {} => CleanSoFar'
  BY <1>1 DEF SweepInv, CleanSoFar
<1> QED BY <1>1, <1>2, <1>3, <1>4, <1>5 DEF SweepInv

\* A target that has its sample, and one that has none.
LEMMA TargetReached ==
    ASSUME SweepInv, OutTrue, NEW t \in Targets
    PROVE  /\ Place(Targets, t) \in 1..Cardinality(Targets) /\ Target(Place(Targets, t)) = t
           /\ Place(Targets, t) <= Len(out) => Serves(decoded, out[Place(Targets, t)].time, t)
           /\ ~(Place(Targets, t) <= Len(out)) => \A u \in decoded : u < t
<1> DEFINE k == Place(Targets, t)
<1>1. plan \in PlanSets /\ anchors \in PlanSets /\ Len(out) \in Nat
  BY DEF SweepInv, SweepTypeOK, Samples
<1>2. k \in 1..Cardinality(Targets) /\ AtPlace(Targets, k) = t /\ Cardinality(Targets) \in Nat
  BY <1>1, TargetsByPlace, AtItsPlace
<1>3. Target(k) = t
  BY <1>1, <1>2, TargetsByPlace
<1> HIDE DEF k
<1>4. k <= Len(out) => Serves(decoded, out[k].time, t)
  <2> SUFFICES ASSUME k <= Len(out) PROVE Serves(decoded, out[k].time, t)
    OBVIOUS
  <2>1. k \in 1..Len(out)
    BY <1>1, <1>2
  <2>2. Serves(decoded, out[k].time, Target(k))
    BY <2>1 DEF OutTrue
  <2> QED BY <1>3, <2>2
<1>5. ~(k <= Len(out)) => \A u \in decoded : u < t
  <2> SUFFICES ASSUME ~(k <= Len(out)) PROVE \A u \in decoded : u < t
    OBVIOUS
  <2>1. k \in Len(out) + 1..Cardinality(Targets)
    BY <1>1, <1>2
  <2>2. \A u \in decoded : u < Target(k)
    BY <2>1 DEF OutTrue
  <2> QED BY <1>3, <2>2
<1> QED BY <1>2, <1>3, <1>4, <1>5 DEF k

\* The samples dealt back to the plan: those of its own times, in their order.
LEMMA DealtIs ==
    ASSUME SweepInv, sweep = "checking"
    PROVE  /\ Dealt \in Samples
           /\ \A i \in 1..Len(Dealt) : \E k \in 1..Len(out) : Dealt[i] = out[k]
           /\ \A a \in plan :
                /\ Place(plan, a) \in Nat \ {0}
                /\ Place(plan, a) <= Len(Dealt) <=> Place(Targets, a) <= Len(out)
                /\ Place(plan, a) <= Len(Dealt) => Dealt[Place(plan, a)] = out[Place(Targets, a)]
<1> DEFINE mine == {k \in 1..Len(out) : Target(k) \in plan}
           m == Cardinality(mine)
<1>1. /\ plan \in PlanSets /\ anchors \in PlanSets /\ Len(out) \in 0..Cardinality(Targets)
      /\ plan \in SUBSET Targets /\ Targets \in SUBSET Nat /\ IsFiniteSet(Targets)
      /\ out \in Samples /\ Len(out) \in Nat
  <2>1. plan \in PlanSets /\ anchors \in PlanSets /\ Len(out) \in Nat /\ Len(out) <= Cardinality(Targets)
        /\ out \in Samples
    BY DEF SweepInv, SweepTypeOK, Samples
  <2> QED BY <2>1, TargetsByPlace
<1>2. mine = {k \in 1..Len(out) : AtPlace(Targets, k) \in plan}
  BY <1>1, TargetsByPlace
<1>3. mine \in SUBSET (1..Len(out)) /\ IsFiniteSet(mine) /\ mine \in SUBSET Nat /\ m \in Nat
  <2>1. mine \in SUBSET (1..Len(out)) /\ 1 \in Int /\ Len(out) \in Int
    BY <1>1
  <2>2. IsFiniteSet(1..Len(out))
    BY <2>1, FS_Interval
  <2> HIDE DEF mine
  <2>3. IsFiniteSet(mine)
    BY <2>1, <2>2, FS_Subset
  <2>4. m \in Nat
    BY <2>3, FS_CardinalityType
  <2>5. 1..Len(out) \subseteq Nat
    BY <1>1
  <2> QED BY <2>1, <2>3, <2>4, <2>5
<1> HIDE DEF mine
<1>4. Dealt = [i \in 1..m |-> out[AtPlace(mine, i)]]
  BY DEF Dealt, mine, m, AtPlace, Place, UpTo
<1>5. \A i \in 1..m : AtPlace(mine, i) \in 1..Len(out)
  BY <1>3, AtPlaceIs
<1> HIDE DEF m
<1>6. Dealt \in Samples /\ Len(Dealt) = m
  <2> DEFINE E == [time : Times, from : {"hardware", "software"}]
  <2>1. out \in Seq(E)
    BY <1>1 DEF Samples
  <2> HIDE DEF E
  <2>2. \A i \in 1..m : out[AtPlace(mine, i)] \in E
    BY <1>5, <2>1
  <2>3. Dealt \in [1..m -> E]
    BY <1>4, <2>2
  <2>4. Dealt \in Seq(E) /\ Len(Dealt) = m
    BY <1>3, <2>3
  <2> QED BY <2>4 DEF Samples, E
<1>7. ASSUME NEW a \in plan
      PROVE  /\ Place(plan, a) \in Nat \ {0}
             /\ Place(plan, a) <= Len(Dealt) <=> Place(Targets, a) <= Len(out)
             /\ Place(plan, a) <= Len(Dealt) => Dealt[Place(plan, a)] = out[Place(Targets, a)]
  <2>1. /\ Place(plan, a) \in Nat \ {0}
        /\ Place(plan, a) <= m <=> Place(Targets, a) <= Len(out)
        /\ Place(Targets, a) <= Len(out) => AtPlace(mine, Place(plan, a)) = Place(Targets, a)
    <3>1. mine = PlacesOf(plan, Targets, Len(out))
      BY <1>2 DEF PlacesOf
    <3>2. /\ Place(plan, a) \in Nat \ {0}
          /\ Place(plan, a) <= Cardinality(mine) <=> Place(Targets, a) <= Len(out)
          /\ Place(Targets, a) <= Len(out) => AtPlace(mine, Place(plan, a)) = Place(Targets, a)
      BY <1>1, <3>1, PlacesOfPart
    <3> QED BY <3>2 DEF m
  <2>2. Place(plan, a) <= m => Place(plan, a) \in 1..m
    BY <1>3, <2>1
  <2> QED BY <1>4, <1>6, <2>1, <2>2
<1>8. \A i \in 1..Len(Dealt) : \E k \in 1..Len(out) : Dealt[i] = out[k]
  BY <1>4, <1>5, <1>6
<1> QED BY <1>6, <1>7, <1>8

\* A sweep that nothing befell is complete when its targets are within the slack of the stream's end.
LEMMA CleanIsComplete ==
    ASSUME SweepInv, sweep = "checking", faults = {}, ~stopped,
           NEW a \in plan, a < Length, \A b \in Targets : b <= Length - 1 + Slack
    PROVE  Complete /\ Dealt # <<>>
<1>1. /\ OutTrue /\ CleanSoFar /\ Length \in Nat /\ Slack \in Nat
      /\ plan \in PlanSets /\ anchors \in PlanSets /\ Len(out) \in Nat
      /\ Len(out) <= Cardinality(Targets) /\ pos \in Nat
  BY SweepAssumption DEF SweepInv, SweepTypeOK, Samples
<1>2. /\ plan \in SUBSET Targets /\ Targets \in SUBSET Nat /\ Cardinality(Targets) \in Nat
      /\ \A k \in 1..Cardinality(Targets) :
            /\ Target(k) \in Targets /\ Target(k) \in Nat
            /\ \A t \in Int : Target(k) <= t <=> k <= ReachedBy(t)
  BY <1>1, TargetsByPlace, AtPlaceIs, SMTT(30)
<1>3. pos = Length \/ Len(out) = Cardinality(Targets)
  BY <1>1 DEF CleanSoFar
<1>4. Place(Targets, a) <= Len(out) /\ Place(Targets, a) \in 1..Cardinality(Targets)
  <2>1. a \in Targets /\ a \in Nat
    BY <1>2
  <2>2. CASE pos = Length
    <3>1. a \in decoded
      BY <1>1, <2>1, <2>2 DEF CleanSoFar
    <3> QED BY <1>1, <2>1, <3>1, TargetReached
  <2>3. CASE Len(out) = Cardinality(Targets)
    <3>1. Place(Targets, a) \in 1..Cardinality(Targets)
      BY <1>1, <2>1, TargetReached
    <3> QED BY <1>2, <2>3, <3>1
  <2> QED BY <1>1, <1>3, <2>1, <2>2, <2>3, TargetReached
<1>5. out # <<>>
  BY <1>2, <1>4
<1>6. \A k \in Len(out) + 1..Cardinality(Targets) : Target(k) =< lastT + Slack
  <2> SUFFICES ASSUME NEW k \in Len(out) + 1..Cardinality(Targets) PROVE Target(k) =< lastT + Slack
    OBVIOUS
  <2>1. k \in 1..Cardinality(Targets)
    BY <1>1, <1>2
  <2>2. Target(k) <= Length - 1 + Slack
    BY <1>2, <2>1
  <2>3. pos = Length
    BY <1>1, <1>2, <1>3
  <2> QED BY <1>1, <2>2, <2>3 DEF CleanSoFar
<1>7. \A i \in 1..Len(out) - 1 : out[i].time =< out[i + 1].time
  <2> SUFFICES ASSUME NEW i \in 1..Len(out) - 1 PROVE out[i].time =< out[i + 1].time
    OBVIOUS
  <2>1. i \in 1..Len(out) /\ i + 1 \in 1..Len(out) /\ i \in 1..Cardinality(Targets) /\ i + 1 \in 1..Cardinality(Targets)
    BY <1>1, <1>2
  <2>2. Serves(decoded, out[i].time, Target(i)) /\ Serves(decoded, out[i + 1].time, Target(i + 1))
    BY <1>1, <2>1 DEF OutTrue
  <2>3. Target(i) <= Target(i + 1)
    <3>1. IsFiniteSet(Targets) /\ Target(i + 1) = AtPlace(Targets, i + 1)
      BY <1>1, TargetsByPlace
    <3>2. Place(Targets, Target(i + 1)) = i + 1 /\ Target(i + 1) \in Int
      BY <1>2, <2>1, <3>1, AtPlaceIs
    <3>3. ReachedBy(Target(i + 1)) = i + 1
      BY <1>1, <3>2, TargetsByPlace
    <3> QED BY <1>2, <2>1, <3>2, <3>3
  <2>4. out[i + 1].time \in Int
    BY <1>1, <2>2 DEF Serves, CleanSoFar
  <2> QED BY <1>2, <2>1, <2>2, <2>3, <2>4 DEF Serves
<1>8. Dealt # <<>>
  <2>1. Place(plan, a) \in Nat \ {0} /\ Place(plan, a) <= Len(Dealt)
    BY <1>4, DealtIs
  <2>2. Len(<<>>) = 0
    OBVIOUS
  <2> QED BY <2>1, <2>2
<1> QED BY <1>5, <1>6, <1>7, <1>8 DEF Complete

\* The samples of a complete sweep are exact.
LEMMA DealtIsExact ==
    ASSUME SweepInv, sweep = "checking", "untimed" \notin faults, Complete, samples' = Dealt,
           UNCHANGED <<plan, anchors, decoded, faults>>
    PROVE  SamplesExact'
<1>1. /\ OutTrue /\ Slack \in Nat /\ Len(out) \in Nat
      /\ plan \in PlanSets /\ anchors \in PlanSets /\ plan \in SUBSET Targets /\ Targets \in SUBSET Nat
      /\ Len(out) <= Cardinality(Targets) /\ Cardinality(Targets) \in Nat
  <2>1. plan \in PlanSets /\ anchors \in PlanSets
    BY DEF SweepInv, SweepTypeOK
  <2> QED BY <2>1, SweepAssumption, TargetsByPlace DEF SweepInv, SweepTypeOK, Samples
<1>2. UNCHANGED plan /\ \A a : Cardinality({b \in plan : b =< a}) = Place(plan, a)
  BY DEF Place, UpTo
<1>3. Sampled' = {a \in plan : Place(plan, a) <= Len(Dealt)}
  BY <1>2 DEF Sampled
<1>4. ASSUME NEW a \in plan, Place(plan, a) <= Len(Dealt)
      PROVE  Serves(decoded, Dealt[Place(plan, a)].time, a)
  BY <1>1, <1>4, DealtIs, TargetReached
<1>5. \A i, j \in 1..Len(Dealt) : Dealt[i].from = Dealt[j].from
  <2> SUFFICES ASSUME NEW i \in 1..Len(Dealt), NEW j \in 1..Len(Dealt)
               PROVE  Dealt[i].from = Dealt[j].from
    OBVIOUS
  <2>1. PICK k \in 1..Len(out) : Dealt[i] = out[k]
    BY DealtIs
  <2>2. PICK l \in 1..Len(out) : Dealt[j] = out[l]
    BY DealtIs
  <2> QED BY <1>1, <2>1, <2>2 DEF OutTrue
<1>6. ASSUME NEW a \in plan, ~(Place(plan, a) <= Len(Dealt))
      PROVE  (\A t \in decoded : t < a) /\ \E t \in decoded : a =< t + Slack
  <2>1. a \in Targets /\ ~(Place(Targets, a) <= Len(out))
    BY <1>1, <1>6, DealtIs
  <2>2. /\ Place(Targets, a) \in 1..Cardinality(Targets) /\ Target(Place(Targets, a)) = a
        /\ \A t \in decoded : t < a
    BY <1>1, <2>1, TargetReached
  <2>3. Place(Targets, a) \in Len(out) + 1..Cardinality(Targets)
    BY <1>1, <2>1, <2>2
  <2>4. a =< lastT + Slack
    BY <2>2, <2>3 DEF Complete
  <2>5. lastT \in decoded
    <3>1. 1 \in 1..Len(out)
      <4>1. Len(out) # 0
        BY DEF Complete, SweepInv, SweepTypeOK, Samples
      <4> QED BY <1>1, <4>1
    <3>2. Serves(decoded, out[1].time, Target(1))
      BY <1>1, <3>1 DEF OutTrue
    <3> QED BY <1>1, <3>2 DEF OutTrue, Serves
  <2> QED BY <2>2, <2>4, <2>5
<1>7. \A a \in plan : Place(plan, a) <= Len(Dealt) =>
         /\ Dealt[Place(plan, a)].time \in decoded /\ Dealt[Place(plan, a)].time >= a
         /\ \A t \in decoded : t >= a => Dealt[Place(plan, a)].time =< t
  BY <1>4 DEF Serves
<1> QED BY <1>2, <1>3, <1>5, <1>6, <1>7 DEF SamplesExact

\* The sweep is checked.
LEMMA CheckKept == ASSUME SweepInv, Check PROVE SweepInv'
<1>1. /\ sweep = "checking" /\ sweep' \in {"done", "failed"}
      /\ UNCHANGED <<plan, anchors, hw, pos, end, out, lastT, stopped, decoded, faults>>
  BY DEF Check
<1>2. SweepTypeOK' /\ UNCHANGED <<Targets, Cardinality(Targets)>>
  <2>1. samples' \in Samples
    BY <1>1, DealtIs DEF Check, SweepInv, SweepTypeOK
  <2>2. UNCHANGED <<Targets, Cardinality(Targets)>>
    BY <1>1 DEF Targets
  <2> QED BY <1>1, <2>1, <2>2 DEF SweepInv, SweepTypeOK
<1>3. SamplesExact'
  <2>1. CASE sweep' = "done" /\ "untimed" \notin faults
    <3>1. Complete /\ samples' = Dealt
      BY <1>1, <2>1 DEF Check
    <3> QED BY <1>1, <2>1, <3>1, DealtIsExact
  <2>2. CASE ~(sweep' = "done" /\ "untimed" \notin faults)
    BY <1>1, <2>2 DEF SamplesExact
  <2> QED BY <2>1, <2>2
<1>4. CleanServed'
  <2> SUFFICES ASSUME sweep' = "failed", faults = {}, ~stopped, NEW a \in plan, a < Length,
                      ~(\E b \in Targets : b > Length - 1 + Slack)
               PROVE  FALSE
    BY <1>1, <1>2 DEF CleanServed
  <2>1. plan \in PlanSets /\ anchors \in PlanSets /\ Length \in Nat /\ Slack \in Nat
    BY SweepAssumption DEF SweepInv, SweepTypeOK
  <2>2. Targets \in SUBSET Nat
    BY <2>1, TargetsByPlace
  <2>3. \A b \in Targets : b <= Length - 1 + Slack
    BY <2>1, <2>2
  <2>4. Complete /\ Dealt # <<>>
    BY <1>1, <2>3, CleanIsComplete
  <2> QED BY <2>4 DEF Check
<1> QED BY <1>1, <1>2, <1>3, <1>4 DEF SweepInv, SweepTrue

\* Every step keeps the invariant.
LEMMA SweepInvKept == SweepInv /\ [SweepNext]_sweepVars => SweepInv'
<1> SUFFICES ASSUME SweepInv, [SweepNext]_sweepVars PROVE SweepInv'
  OBVIOUS
<1>1. CASE UNCHANGED sweepVars
  BY <1>1, ZenonT(30) DEF sweepVars, SweepInv, SweepTypeOK, Targets, OutTrue, CleanSoFar, Target, ReachedBy,
     SweepTrue, SamplesExact, CleanServed, Sampled
<1>2. CASE SweepNext
  BY <1>2, FrameKept, UntimedFrameKept, LoseFrameKept, EndOfFileKept, ReadErrorKept, DrainEndsKept,
     FrameFailsKept, ReopenKept, ReopenFailsKept, StopKept, CheckKept DEF SweepNext
<1> QED BY <1>1, <1>2

-----------------------------------------------------------------------------
(* CandidateIndex: the slices miss nothing, and the ranges share the pairs.    *)

\* The greatest and the least element of a finite set of numbers.
LEMMA MaxIs ==
    ASSUME NEW S \in SUBSET Nat, IsFiniteSet(S), S # {}
    PROVE  Max(S) \in S /\ Max(S) \in Nat /\ \A a \in S : a <= Max(S)
<1>1. Cardinality(S) \in Nat \ {0}
  BY FS_CardinalityType, FS_EmptySet
<1> DEFINE n == Cardinality(S)
           m == AtPlace(S, n)
<1>2. n \in 1..Cardinality(S)
  BY <1>1
<1>3. m \in S /\ m \in Nat /\ \A t \in Int : m <= t <=> n <= Place(S, t)
  BY <1>2, AtPlaceIs
<1>4. ASSUME NEW a \in S PROVE m >= a
  <2>1. a \in Int /\ Place(S, m) \in 0..n /\ Place(S, a) \in 0..n /\ Place(S, m) = n
    BY <1>1, <1>2, <1>3, PlaceBounds, AtPlaceIs
  <2>2. m < a => Place(S, m) < Place(S, a)
    BY <1>3, <2>1, PlacesInOrder
  <2> QED BY <1>1, <1>3, <2>1, <2>2
<1> HIDE DEF m
<1>5. \E w \in S : \A a \in S : w >= a
  BY <1>3, <1>4
<1>6. Max(S) \in S /\ \A a \in S : Max(S) >= a
  BY <1>5 DEF Max
<1> QED BY <1>6

\* So too for numbers that have a bound.
LEMMA MaxBelow ==
    ASSUME NEW S \in SUBSET Nat, NEW n \in Nat, \A a \in S : a <= n, S # {}
    PROVE  Max(S) \in S /\ Max(S) \in Nat /\ Max(S) <= n /\ \A a \in S : a <= Max(S)
<1>1. IsFiniteSet(S)
  BY FS_BoundedSetOfNaturals
<1> QED BY <1>1, MaxIs

\* The least element.
LEMMA LeastIs ==
    ASSUME NEW S \in SUBSET Nat, S # {}
    PROVE  \E a \in S : \A b \in S : a <= b
<1>1. PICK n \in S : TRUE
  OBVIOUS
<1> DEFINE T == {a \in S : a <= n}
<1>2. T \in SUBSET Nat /\ T # {} /\ n \in Nat
  <2>1. n \in Nat /\ n <= n
    BY <1>1
  <2>2. n \in T
    BY <1>1, <2>1
  <2>3. T \in SUBSET S
    OBVIOUS
  <2> HIDE DEF T
  <2> QED BY <2>1, <2>2, <2>3
<1>3. IsFiniteSet(T)
  <2>1. \A t \in T : t <= n
    OBVIOUS
  <2> HIDE DEF T
  <2> QED BY <1>2, <2>1, FS_BoundedSetOfNaturals
<1> HIDE DEF T
<1>4. Cardinality(T) \in Nat \ {0}
  BY <1>2, <1>3, FS_CardinalityType, FS_EmptySet
<1>5. 1 \in 1..Cardinality(T)
  BY <1>4
<1> DEFINE m == AtPlace(T, 1)
<1>6. m \in T /\ m \in Nat /\ \A t \in Int : m <= t <=> 1 <= Place(T, t)
  BY <1>2, <1>3, <1>5, AtPlaceIs
<1> HIDE DEF m
<1>7. ASSUME NEW b \in S PROVE m <= b
  <2>1. b \in Nat
    OBVIOUS
  <2>2. CASE b \in T
    <3>1. Place(T, b) \in 0..Cardinality(T) /\ Place(T, b) # 0
      BY <1>2, <1>3, <2>2, PlaceBounds
    <3> QED BY <1>4, <1>6, <2>1, <3>1
  <2>3. CASE b \notin T
    BY <1>2, <1>6, <2>1, <2>3 DEF T
  <2> QED BY <2>2, <2>3
<1> QED BY <1>6, <1>7 DEF T

\* Distances are numbers, and it does not matter from which hash one looks.
LEMMA DistanceIs ==
    ASSUME NEW g \in Hashes, NEW h \in Hashes
    PROVE  /\ IsFiniteSet(Apart(g, h)) /\ Distance(g, h) \in Nat /\ Distance(g, h) = Distance(h, g)
<1>1. {Parts, Bits} \subseteq Nat
  BY CandidateAssumption
<1>2. IsFiniteSet(1..Parts) /\ IsFiniteSet(1..Bits)
  BY <1>1, FS_Interval
<1>3. IsFiniteSet((1..Parts) \X (1..Bits))
  BY <1>2, FS_Product
<1>4. Apart(g, h) \in SUBSET ((1..Parts) \X (1..Bits)) /\ Apart(g, h) = Apart(h, g)
  BY DEF Apart
<1>5. IsFiniteSet(Apart(g, h))
  BY <1>3, <1>4, FS_Subset
<1> QED BY <1>4, <1>5, FS_CardinalityType DEF Distance

\* The bits in which two slices differ.
LEMMA DifferIs ==
    ASSUME NEW s \in Slices, NEW t \in Slices
    PROVE  IsFiniteSet((s \ t) \cup (t \ s)) /\ Differ(s, t) \in Nat
<1>1. Bits \in Nat
  BY CandidateAssumption
<1>2. IsFiniteSet(1..Bits)
  BY <1>1, FS_Interval
<1>3. (s \ t) \cup (t \ s) \in SUBSET (1..Bits)
  BY DEF Slices
<1>4. IsFiniteSet((s \ t) \cup (t \ s))
  BY <1>2, <1>3, FS_Subset
<1> QED BY <1>4, FS_CardinalityType DEF Differ

\* A set with at least n elements holds n of them.
LEMMA Picks ==
    ASSUME NEW S, IsFiniteSet(S), NEW n \in Nat, n <= Cardinality(S)
    PROVE  \E e \in [1..n -> S] : \A a, b \in 1..n : e[a] = e[b] => a = b
<1>1. Cardinality(S) \in Nat /\ ExistsBijection(1..Cardinality(S), S)
  BY FS_CardinalityType
<1>2. PICK f : f \in Bijection(1..Cardinality(S), S)
  BY <1>1 DEF ExistsBijection
<1>3. f \in [1..Cardinality(S) -> S] /\ \A a, b \in 1..Cardinality(S) : f[a] = f[b] => a = b
  BY <1>2 DEF Bijection, Injection, Surjection, IsInjective
<1>4. 1..n \subseteq 1..Cardinality(S)
  BY <1>1
<1> DEFINE e == [a \in 1..n |-> f[a]]
<1>5. e \in [1..n -> S]
  BY <1>3, <1>4
<1>6. \A a, b \in 1..n : e[a] = e[b] => a = b
  BY <1>3, <1>4
<1> QED BY <1>5, <1>6

\* The principle of the slices: hashes that differ in more than Radius bits of every slice
\* differ in more than Limit bits (CandidateIndex: four slices, radius 2, limit 8).
LEMMA SlicesSuffice ==
    ASSUME NEW g \in Hashes, NEW h \in Hashes, Distance(g, h) <= Limit
    PROVE  \E p \in 1..Parts : Differ(g[p], h[p]) <= Radius
<1> SUFFICES ASSUME \A p \in 1..Parts : ~(Differ(g[p], h[p]) <= Radius)
             PROVE FALSE
  OBVIOUS
<1> DEFINE R == Radius + 1
           At(p) == (g[p] \ h[p]) \cup (h[p] \ g[p])
           Good(p, e) == /\ e \in [1..R -> At(p)]
                         /\ \A a, b \in 1..R : e[a] = e[b] => a = b
           pick == [p \in 1..Parts |-> CHOOSE e : Good(p, e)]
           D == (1..Parts) \X (1..R)
           f == [u \in D |-> <<u[1], pick[u[1]][u[2]]>>]
<1>1. Parts \in Nat /\ Bits \in Nat /\ Radius \in Nat /\ R \in Nat /\ Limit \in Nat /\ Limit < Parts * R
  BY CandidateAssumption
<1>2. ASSUME NEW p \in 1..Parts PROVE Good(p, pick[p])
  <2>1. g[p] \in Slices /\ h[p] \in Slices
    BY DEF Hashes
  <2>2. IsFiniteSet(At(p)) /\ Cardinality(At(p)) \in Nat /\ R <= Cardinality(At(p))
    <3>1. Differ(g[p], h[p]) \in Nat /\ ~(Differ(g[p], h[p]) <= Radius)
      BY <2>1, DifferIs
    <3>2. R <= Differ(g[p], h[p])
      BY <1>1, <3>1
    <3> QED BY <2>1, <3>1, <3>2, DifferIs DEF Differ
  <2> HIDE DEF R, At
  <2>3. \E e \in [1..R -> At(p)] : \A a, b \in 1..R : e[a] = e[b] => a = b
    BY <1>1, <2>2, Picks
  <2>4. \E e : Good(p, e)
    BY <2>3
  <2> QED BY <2>4
<1> HIDE DEF pick, R
<1>3. ASSUME NEW u \in D PROVE f[u] \in Apart(g, h)
  <2>1. u[1] \in 1..Parts /\ u[2] \in 1..R
    OBVIOUS
  <2>2. pick[u[1]] \in [1..R -> At(u[1])]
    BY <1>2, <2>1
  <2>3. pick[u[1]][u[2]] \in At(u[1])
    BY <2>1, <2>2
  <2>4. g[u[1]] \in Slices /\ h[u[1]] \in Slices
    BY <2>1 DEF Hashes
  <2> QED BY <2>1, <2>3, <2>4 DEF Apart, Slices
<1>4. ASSUME NEW u \in D, NEW v \in D, f[u] = f[v] PROVE u = v
  <2>1. u = <<u[1], u[2]>> /\ v = <<v[1], v[2]>> /\ u[1] \in 1..Parts /\ u[2] \in 1..R /\ v[2] \in 1..R
    OBVIOUS
  <2>2. u[1] = v[1] /\ pick[u[1]][u[2]] = pick[v[1]][v[2]]
    BY <1>4
  <2>3. \A a, b \in 1..R : pick[u[1]][a] = pick[u[1]][b] => a = b
    BY <1>2, <2>1
  <2>4. u[2] = v[2]
    BY <2>1, <2>2, <2>3
  <2> QED BY <2>1, <2>2, <2>4
<1>5. f \in Injection(D, Apart(g, h))
  <2>1. f \in [D -> Apart(g, h)] /\ \A a, b \in D : f[a] = f[b] => a = b
    BY <1>3, <1>4
  <2> HIDE DEF f, D
  <2> QED BY <2>1, Fun_IsInj
<1>6. IsFiniteSet(D) /\ Cardinality(D) = Parts * R
  <2>1. IsFiniteSet(1..Parts) /\ Cardinality(1..Parts) = Parts
    BY <1>1, FS_Interval
  <2>2. IsFiniteSet(1..R) /\ Cardinality(1..R) = R
    BY <1>1, FS_Interval
  <2>3. IsFiniteSet((1..Parts) \X (1..R)) /\ Cardinality((1..Parts) \X (1..R)) = Cardinality(1..Parts) * Cardinality(1..R)
    BY <2>1, <2>2, FS_Product
  <2> QED BY <2>1, <2>2, <2>3
<1>7. Cardinality(D) <= Distance(g, h)
  <2> HIDE DEF D, f
  <2> QED BY <1>5, DistanceIs, FS_Injection DEF Distance
<1>8. Parts * R \in Nat /\ Distance(g, h) \in Nat
  BY <1>1, DistanceIs
<1> QED BY <1>1, <1>6, <1>7, <1>8

\* A pair within the distance is in a bucket that is looked up.
LEMMA ReachesAll ==
    ASSUME NEW g \in Hashes, NEW h \in Hashes, NEW maxDistance \in 0..Limit, Distance(g, h) <= maxDistance
    PROVE  Reaches(g, h, maxDistance)
<1>1. Limit \in Nat /\ Distance(g, h) \in Nat /\ Parts \in Nat \ {0}
  BY CandidateAssumption, DistanceIs
<1>2. CASE maxDistance # 0
  <2>1. Distance(g, h) <= Limit
    BY <1>1
  <2> QED BY <1>2, <2>1, SlicesSuffice DEF Reaches
<1>3. CASE maxDistance = 0
  <2>1. Apart(g, h) = {}
    BY <1>1, <1>3, DistanceIs, FS_EmptySet DEF Distance
  <2>2. 1 \in 1..Parts /\ g[1] \in SUBSET (1..Bits) /\ h[1] \in SUBSET (1..Bits)
    BY <1>1 DEF Hashes, Slices
  <2>3. ASSUME NEW b \in 1..Bits PROVE b \in g[1] <=> b \in h[1]
    <3>1. <<1, b>> \in (1..Parts) \X (1..Bits) /\ <<1, b>>[1] = 1 /\ <<1, b>>[2] = b
      BY <2>2
    <3>2. <<1, b>> \notin Apart(g, h)
      BY <2>1
    <3> QED BY <3>1, <3>2 DEF Apart
  <2>4. g[1] = h[1]
    BY <2>2, <2>3
  <2> QED BY <1>3, <2>4 DEF Reaches
<1> QED BY <1>2, <1>3
\* The index is filled file by file.
ByFile == \A k, q \in DOMAIN entries : k <= q => entries[k].index <= entries[q].index
CandidateInv == CandidateTypeOK /\ ByFile

\* What the index holds.
HashEntries == [index: Files, hash: Hashes]

\* The types by that name.
LEMMA CandidateTypes == CandidateTypeOK <=> entries \in Seq(HashEntries) /\ Len(entries) <= MaxEntries
BY DEF CandidateTypeOK, HashEntries

\* An index without hashes is filled file by file.
LEMMA CandidateInvInit == CandidateInit => CandidateInv
BY CandidateAssumption DEF CandidateInit, CandidateInv, CandidateTypeOK, ByFile

\* It stays so: no step adds a hash to a file that is not the last.
LEMMA CandidateInvKept == CandidateInv /\ [CandidateNext]_entries => CandidateInv'
<1> SUFFICES ASSUME CandidateInv, [CandidateNext]_entries PROVE CandidateInv'
  OBVIOUS
<1>1. entries \in Seq(HashEntries) /\ Len(entries) \in Nat /\ DOMAIN entries = 1..Len(entries) /\ Len(entries) <= MaxEntries
  BY CandidateTypes DEF CandidateInv
<1>2. MaxEntries \in Nat /\ Files \in SUBSET Nat
  BY CandidateAssumption DEF Files
<1>3. \A k \in DOMAIN entries : entries[k].index \in Nat
  <2>1. \A k \in DOMAIN entries : entries[k] \in HashEntries
    BY <1>1
  <2> QED BY <1>2, <2>1 DEF HashEntries
<1>4. ASSUME NEW i \in Files, NEW h \in Hashes, AddHash(i, h) PROVE CandidateInv'
  <2> DEFINE e == [index |-> i, hash |-> h]
             n == Len(entries)
  <2>1. e \in HashEntries /\ e.index = i
    BY DEF HashEntries
  <2>2. entries' = Append(entries, e) /\ n < MaxEntries /\ (entries # <<>> => i >= entries[n].index)
    BY <1>4 DEF AddHash
  <2> HIDE DEF e
  <2>3. /\ entries' \in Seq(HashEntries) /\ Len(entries') = n + 1
        /\ \A k \in 1..n : entries'[k] = entries[k]
        /\ entries'[n + 1] = e
    <3> DEFINE s == Append(entries, e)
    <3>1. s \in Seq(HashEntries) /\ Len(s) = n + 1 /\ (\A k \in 1..n : s[k] = entries[k]) /\ s[n + 1] = e
      BY <1>1, <2>1, AppendProperties
    <3> HIDE DEF s
    <3>2. entries' = s
      BY <2>2 DEF s
    <3> QED BY <3>1, <3>2
  <2>6. n \in Nat /\ DOMAIN entries = 1..n
    BY <1>1
  <2>7. \A k, q \in 1..n : k <= q => entries[k].index <= entries[q].index
    BY <1>1 DEF CandidateInv, ByFile
  <2>8. \A k \in 1..n : entries[k].index \in Nat
    BY <1>1, <1>3
  <2>9. n # 0 => i >= entries[n].index
    <3>1. CASE entries = <<>>
      BY <3>1
    <3>2. CASE entries # <<>>
      BY <2>2, <3>2
    <3> QED BY <3>1, <3>2
  <2> HIDE DEF n
  <2>4. CandidateTypeOK'
    <3>1. n \in Nat /\ n < MaxEntries
      BY <1>1, <2>2 DEF n
    <3>2. Len(entries') <= MaxEntries
      BY <1>2, <2>3, <3>1
    <3> QED BY <2>3, <3>2 DEF CandidateTypeOK, HashEntries
  <2>5. ByFile'
    <3> SUFFICES ASSUME NEW k \in 1..(n + 1), NEW q \in 1..(n + 1), k <= q
                 PROVE  entries'[k].index <= entries'[q].index
      BY <2>3 DEF ByFile
    <3>1. CASE q \in 1..n
      <4>1. k \in 1..n
        BY <2>6, <3>1
      <4> QED BY <2>3, <2>7, <3>1, <4>1
    <3>2. CASE q = n + 1 /\ k \in 1..n
      <4>1. n # 0 /\ n \in 1..n /\ k <= n
        BY <2>6, <3>2
      <4>2. entries[k].index <= entries[n].index /\ entries[n].index <= i
        BY <1>2, <2>7, <2>8, <2>9, <3>2, <4>1
      <4>3. entries[k].index <= i
        BY <1>2, <2>8, <3>2, <4>1, <4>2
      <4> QED BY <2>1, <2>3, <3>2, <4>3
    <3>3. CASE q = n + 1 /\ k = n + 1
      BY <1>2, <2>1, <2>3, <3>3
    <3> QED BY <2>6, <3>1, <3>2, <3>3
  <2> QED BY <2>4, <2>5 DEF CandidateInv
<1>5. CASE Clear
  <2>1. entries' = <<>>
    BY <1>5 DEF Clear
  <2> QED BY <1>2, <2>1 DEF CandidateInv, CandidateTypeOK, ByFile
<1>6. CASE UNCHANGED entries
  BY <1>6 DEF CandidateInv, CandidateTypeOK, ByFile
<1> QED BY <1>4, <1>5, <1>6 DEF CandidateNext

\* What an entry is.
LEMMA EntryIs ==
    ASSUME CandidateInv, NEW k \in DOMAIN entries
    PROVE  k \in Nat /\ k \in 1..Len(entries) /\ entries[k].index \in Nat /\ entries[k].hash \in Hashes
<1>1. entries \in Seq(HashEntries) /\ k \in 1..Len(entries)
  BY CandidateTypes DEF CandidateInv
<1>2. entries[k] \in HashEntries
  BY <1>1
<1>3. Files \in SUBSET Nat /\ Len(entries) \in Nat
  BY <1>1, CandidateAssumption DEF Files
<1>4. entries[k].index \in Files /\ entries[k].hash \in Hashes
  BY <1>2 DEF HashEntries
<1>5. k \in Nat
  BY <1>1, <1>3
<1> QED BY <1>1, <1>3, <1>4, <1>5

\* A search by slices is as good as a comparison with every entry.
LEMMA QueryIsExact == CandidateInv => QueryExact
<1> SUFFICES ASSUME CandidateInv, NEW maxDistance \in 0..(Parts * Bits), NEW c \in DOMAIN entries
             PROVE  Query(entries[c].hash, maxDistance) =
                      {<<entries[k].index, Distance(entries[k].hash, entries[c].hash)>> :
                         k \in {q \in DOMAIN entries : Distance(entries[q].hash, entries[c].hash) <= maxDistance}}
  BY DEF QueryExact
<1> DEFINE h == entries[c].hash
<1>1. h \in Hashes
  BY EntryIs
<1> HIDE DEF h
<1>2. ASSUME NEW q \in DOMAIN entries, Distance(entries[q].hash, h) <= maxDistance, maxDistance <= Limit
      PROVE  Reaches(h, entries[q].hash, maxDistance)
  <2>1. entries[q].hash \in Hashes
    BY EntryIs
  <2>2. {Parts, Bits, Limit} \subseteq Nat
    BY CandidateAssumption
  <2>3. maxDistance \in Int /\ 0 <= maxDistance
    BY <2>2
  <2>4. maxDistance \in 0..Limit
    BY <1>2, <2>2, <2>3
  <2>5. Distance(h, entries[q].hash) <= maxDistance
    BY <1>1, <1>2, <2>1, DistanceIs
  <2> QED BY <1>1, <2>1, <2>4, <2>5, ReachesAll
<1>3. {q \in DOMAIN entries : /\ maxDistance <= Limit => Reaches(h, entries[q].hash, maxDistance)
                              /\ Distance(entries[q].hash, h) <= maxDistance} =
      {q \in DOMAIN entries : Distance(entries[q].hash, h) <= maxDistance}
  BY <1>2
<1> QED BY <1>3 DEF Query, h

-----------------------------------------------------------------------------

\* Where the file of the hash at k begins: no later position is another file's.
LEMMA GroupIs ==
    ASSUME CandidateInv, NEW k \in DOMAIN entries
    PROVE  /\ GroupStart(k) \in Nat /\ GroupStart(k) <= k
           /\ \A r \in DOMAIN entries : r <= k => (GroupStart(k) <= r <=> entries[r].index = entries[k].index)
<1> DEFINE n == Len(entries)
           S == {q \in GroupStarts : q <= k}
<1>1. n \in Nat /\ DOMAIN entries = 1..n /\ k \in 1..n /\ k \in Nat
  BY EntryIs DEF CandidateInv, CandidateTypeOK
<1>2. \A q \in 1..n : entries[q].index \in Nat
  BY <1>1, EntryIs
<1>3. \A q, r \in 1..n : q <= r => entries[q].index <= entries[r].index
  BY <1>1 DEF CandidateInv, ByFile
<1> HIDE DEF n
<1>4. 1 \in S
  BY <1>1 DEF GroupStarts, StartsGroup
<1>5. S \in SUBSET Nat /\ \A q \in S : q <= k
  BY <1>1 DEF GroupStarts
<1> HIDE DEF S
<1>6. GroupStart(k) = Max(S)
  BY DEF GroupStart, S
<1>7. Max(S) \in S /\ Max(S) \in Nat /\ Max(S) <= k /\ \A q \in S : q <= Max(S)
  BY <1>1, <1>4, <1>5, MaxBelow
<1> DEFINE m == Max(S)
<1> HIDE DEF m
<1>8. m \in 1..n /\ m <= k /\ StartsGroup(m) /\ \A q \in S : q <= m
  <2>1. m \in S /\ m <= k /\ \A q \in S : q <= m
    BY <1>7 DEF m
  <2> QED BY <1>1, <2>1 DEF S, GroupStarts
<1>9. ASSUME NEW r \in 1..n, r <= k, m <= r PROVE entries[r].index = entries[k].index
  <2> SUFFICES ASSUME entries[r].index # entries[k].index PROVE FALSE
    OBVIOUS
  <2> DEFINE T == {q \in 1..n : r < q /\ q <= k /\ entries[q].index # entries[r].index}
  <2>1. k \in T /\ T \in SUBSET Nat
    BY <1>1, <1>9
  <2>2. PICK t \in T : \A q \in T : t <= q
    <3> HIDE DEF T
    <3> QED BY <2>1, LeastIs
  <2>3. t \in 1..n /\ r < t /\ t <= k /\ entries[t].index # entries[r].index /\ t - 1 \in 1..n
    BY <1>1, <2>2
  <2>4. entries[t - 1].index = entries[r].index
    <3>1. t - 1 \notin T
      <4> HIDE DEF T
      <4>1. ~(t <= t - 1)
        BY <1>1, <2>3
      <4> QED BY <2>2, <4>1
    <3>2. CASE t - 1 = r
      BY <3>2
    <3>3. CASE t - 1 # r
      <4>1. r < t - 1 /\ t - 1 <= k
        BY <1>1, <2>3, <3>3
      <4> QED BY <2>3, <3>1, <4>1
    <3> QED BY <3>2, <3>3
  <2>5. t \in S
    BY <1>1, <2>3, <2>4 DEF S, GroupStarts, StartsGroup
  <2>6. t <= m
    BY <1>8, <2>5
  <2> QED BY <1>1, <1>8, <1>9, <2>3, <2>6
<1>10. ASSUME NEW r \in 1..n, r <= k, ~(m <= r) PROVE entries[r].index # entries[k].index
  <2>1. m # 1 /\ m - 1 \in 1..n /\ r <= m - 1 /\ m - 1 <= m
    BY <1>1, <1>8, <1>10
  <2>2. entries[m].index # entries[m - 1].index
    BY <1>8, <2>1 DEF StartsGroup
  <2>3. entries[r].index <= entries[m - 1].index /\ entries[m - 1].index <= entries[m].index /\ entries[m].index <= entries[k].index
    BY <1>1, <1>3, <1>8, <2>1
  <2>4. {entries[r].index, entries[m - 1].index, entries[m].index, entries[k].index} \subseteq Nat
    BY <1>1, <1>2, <1>8, <2>1
  <2> QED BY <2>2, <2>3, <2>4
<1>11. m \in Nat /\ m <= k
  BY <1>7 DEF m
<1>12. \A r \in 1..n : r <= k => (m <= r <=> entries[r].index = entries[k].index)
  BY <1>9, <1>10
<1> QED BY <1>1, <1>6, <1>11, <1>12 DEF m

\* A set no two elements of which differ has one element at most.
LEMMA AtMostOne ==
    ASSUME NEW V, \A k, q \in V : k = q
    PROVE  /\ IsFiniteSet(V)
           /\ Cardinality(V) = IF V = {} THEN 0 ELSE 1
<1>1. CASE V = {}
  BY <1>1, FS_EmptySet
<1>2. CASE V # {}
  <2>1. PICK k \in V : TRUE
    BY <1>2
  <2>2. V = {k}
    BY <2>1
  <2> QED BY <1>2, <2>2, FS_Singleton
<1> QED BY <1>1, <1>2

\* Ranges that begin where files begin visit no pair twice and none that is not close; and
\* they visit all that are close to a file with one hash.
LEMMA EnumerationIsSound == CandidateInv => EnumerationSound
<1> SUFFICES ASSUME CandidateInv, NEW maxDistance \in 0..Limit, NEW S \in SUBSET GroupStarts,
                    entries # <<>>, 1 \in S, NEW i \in Files, NEW j \in Files, i < j
             PROVE  /\ Visits(i, j, S, maxDistance) <= IF Within(i, j, maxDistance) THEN 1 ELSE 0
                    /\ HashesOf(i) = 1 /\ Within(i, j, maxDistance) => Visits(i, j, S, maxDistance) = 1
  BY DEF EnumerationSound
<1> DEFINE n == Len(entries)
           Lo(k) == Max({s \in S : s <= k})
           V == {k \in DOMAIN entries : entries[k].index = i /\ j \in Emitted(k, Lo(k), maxDistance)}
<1>1. n \in Nat /\ DOMAIN entries = 1..n
  BY EntryIs DEF CandidateInv, CandidateTypeOK
<1>2. \A q \in 1..n : entries[q].index \in Nat /\ entries[q].hash \in Hashes
  BY <1>1, EntryIs
<1>3. \A q, r \in 1..n : q <= r => entries[q].index <= entries[r].index
  BY <1>1 DEF CandidateInv, ByFile
<1>4. \A s \in S : s \in 1..n /\ StartsGroup(s)
  BY <1>1 DEF GroupStarts
<1>5. i \in Nat /\ j \in Nat
  BY CandidateAssumption DEF Files
<1> HIDE DEF n
<1>6. ASSUME NEW k \in 1..n
      PROVE  Lo(k) \in S /\ Lo(k) \in 1..n /\ Lo(k) <= k /\ \A s \in S : s <= k => s <= Lo(k)
  <2> DEFINE T == {s \in S : s <= k}
  <2>1. 1 \in T /\ T \in SUBSET Nat /\ (\A s \in T : s <= k) /\ k \in Nat
    BY <1>1, <1>4
  <2> HIDE DEF T
  <2>2. Max(T) \in T /\ Max(T) <= k /\ \A s \in T : s <= Max(T)
    BY <2>1, MaxBelow
  <2> QED BY <1>4, <2>2 DEF T
<1>7. \A k \in V : k \in 1..n /\ entries[k].index = i /\ j \in Emitted(k, Lo(k), maxDistance)
  BY <1>1
<1>8. ASSUME NEW k \in V, NEW q \in V, k < q PROVE FALSE
  <2>1. /\ k \in 1..n /\ entries[k].index = i /\ j \in Emitted(k, Lo(k), maxDistance)
        /\ q \in 1..n /\ entries[q].index = i /\ j \in Emitted(q, Lo(q), maxDistance)
    BY <1>7
  <2> DEFINE l == Lo(k)
             m == Lo(q)
  <2>2. l \in S /\ l \in 1..n /\ l <= k /\ \A s \in S : s <= k => s <= l
    BY <1>6, <2>1
  <2>3. m \in S /\ m \in 1..n /\ m <= q /\ \A s \in S : s <= q => s <= m
    BY <1>6, <2>1
  <2>4. j \in Emitted(k, l, maxDistance) /\ j \in Emitted(q, m, maxDistance)
    BY <2>1
  <2> HIDE DEF l, m, V, Lo
  <2>5. m <= k
    <3> SUFFICES ASSUME k < m PROVE FALSE
      BY <1>1, <2>1, <2>3
    <3>1. m # 1 /\ m - 1 \in 1..n /\ k <= m - 1 /\ m - 1 <= m
      BY <1>1, <2>1, <2>3
    <3>2. entries[m].index # entries[m - 1].index
      BY <1>4, <2>3, <3>1 DEF StartsGroup
    <3>3. entries[k].index <= entries[m - 1].index /\ entries[m - 1].index <= entries[m].index /\ entries[m].index <= entries[q].index
      BY <1>3, <2>1, <2>3, <3>1
    <3>4. entries[m].index \in Nat /\ entries[m - 1].index \in Nat
      BY <1>2, <2>3, <3>1
    <3> QED BY <1>5, <2>1, <3>2, <3>3, <3>4
  <2>6. l = m
    <3>1. m <= l /\ l <= m
      BY <1>1, <1>8, <2>1, <2>2, <2>3, <2>5
    <3> QED BY <1>1, <2>2, <2>3, <3>1
  <2>7. k <= q /\ q \in DOMAIN entries /\ k \in DOMAIN entries
    BY <1>1, <1>8, <2>1
  <2>8. GroupStart(q) <= k
    BY <2>1, <2>7, GroupIs
  <2>9. GroupStart(q) \in Nat /\ k \in m..(q - 1)
    BY <1>1, <1>8, <2>1, <2>3, <2>5, <2>7, GroupIs
  <2>10. k \in {r \in m..(q - 1) : r >= GroupStart(q)}
    BY <2>8, <2>9
  <2>11. j \in Partners(k, FirstLooked(k, m, maxDistance), maxDistance)
    BY <2>4, <2>6 DEF Emitted
  <2>12. j \notin Emitted(q, m, maxDistance)
    BY <2>10, <2>11 DEF Emitted
  <2> QED BY <2>4, <2>12
<1>9. \A k, q \in V : k = q
  <2> SUFFICES ASSUME NEW k \in V, NEW q \in V PROVE k = q
    OBVIOUS
  <2>1. k \in Nat /\ q \in Nat
    BY <1>1, <1>7
  <2>2. ~(k < q) /\ ~(q < k)
    BY <1>8
  <2> QED BY <2>1, <2>2
<1>10. Visits(i, j, S, maxDistance) = IF V = {} THEN 0 ELSE 1
  <2>1. Visits(i, j, S, maxDistance) = Cardinality(V)
    BY DEF Visits
  <2> HIDE DEF V
  <2> QED BY <1>9, <2>1, AtMostOne
<1>11. ASSUME NEW k \in V PROVE Within(i, j, maxDistance)
  <2>1. k \in 1..n /\ entries[k].index = i /\ j \in Partners(k, FirstLooked(k, Lo(k), maxDistance), maxDistance)
    BY <1>7 DEF Emitted
  <2>2. PICK q \in FirstLooked(k, Lo(k), maxDistance) :
           entries[q].index = j /\ Distance(entries[k].hash, entries[q].hash) <= maxDistance
    BY <2>1 DEF Partners
  <2>3. q \in DOMAIN entries
    BY <2>2 DEF FirstLooked, Looked
  <2> QED BY <1>1, <2>1, <2>2, <2>3 DEF Within
<1>12. ASSUME HashesOf(i) = 1, Within(i, j, maxDistance) PROVE V # {}
  <2>1. PICK k \in DOMAIN entries, q \in DOMAIN entries :
           /\ entries[k].index = i /\ entries[q].index = j
           /\ Distance(entries[k].hash, entries[q].hash) <= maxDistance
    BY <1>12 DEF Within
  <2>2. k \in 1..n /\ q \in 1..n
    BY <1>1, <2>1
  <2> DEFINE H == {r \in DOMAIN entries : entries[r].index = i}
             m == Lo(k)
             B == {r \in m..(k - 1) : r >= GroupStart(k)}
  <2>3. \A r \in 1..n : entries[r].index = i => r = k
    <3>1. 1 \in Int /\ n \in Int
      BY <1>1
    <3>2. IsFiniteSet(1..n) /\ H \in SUBSET (1..n)
      BY <1>1, <3>1, FS_Interval
    <3>3. Cardinality(H) = 1
      BY <1>12 DEF HashesOf
    <3>4. k \in H
      BY <2>1
    <3> HIDE DEF H
    <3>5. \E u : H = {u}
      BY <3>2, <3>3, FS_Subset, FS_Singleton
    <3>6. H = {k}
      BY <3>4, <3>5
    <3> QED BY <1>1, <3>6 DEF H
  <2>4. m \in 1..n /\ m <= k
    BY <1>6, <2>2
  <2> HIDE DEF m
  <2>5. B = {}
    <3> SUFFICES ASSUME NEW r \in B PROVE FALSE
      OBVIOUS
    <3>1. r \in 1..n /\ r <= k /\ r # k /\ r >= GroupStart(k)
      BY <1>1, <2>2, <2>4
    <3>2. GroupStart(k) \in Nat /\ GroupStart(k) <= r
      BY <1>1, <2>1, <3>1, GroupIs
    <3>3. entries[r].index = entries[k].index
      BY <1>1, <2>1, <3>1, <3>2, GroupIs
    <3> QED BY <2>1, <2>3, <3>1, <3>3
  <2>6. Emitted(k, m, maxDistance) = Partners(k, Looked(k, maxDistance), maxDistance)
    BY <2>5 DEF Emitted, FirstLooked
  <2>7. q \in Looked(k, maxDistance)
    <3>1. Reaches(entries[k].hash, entries[q].hash, maxDistance)
      BY <1>2, <2>1, <2>2, ReachesAll
    <3>2. ~(maxDistance > Limit)
      BY CandidateAssumption
    <3> QED BY <2>1, <3>1, <3>2 DEF Looked
  <2>8. j \in Partners(k, Looked(k, maxDistance), maxDistance)
    BY <1>5, <2>1, <2>7 DEF Partners
  <2>9. k \in V
    BY <2>1, <2>6, <2>8 DEF m
  <2> QED BY <2>9
<1> DEFINE c == Visits(i, j, S, maxDistance)
<1>13. c = (IF V = {} THEN 0 ELSE 1) /\ (V # {} => Within(i, j, maxDistance))
  BY <1>10, <1>11
<1> HIDE DEF V, Lo, c
<1>14. c <= IF Within(i, j, maxDistance) THEN 1 ELSE 0
  BY <1>13
<1>15. HashesOf(i) = 1 /\ Within(i, j, maxDistance) => c = 1
  BY <1>12, <1>13
<1> QED BY <1>14, <1>15 DEF c

-----------------------------------------------------------------------------
(* AnalyzePass: a pass reports each due pair once, in order.                   *)

\* What is emitted, the pairs of the two full indexes, those of them that are due, and
\* the pairs a targeted pass looks at.
Out    == ToSet(emitted)
Img    == FullOf(ImageFiles)
Vid    == FullOf(VideoFiles)
IRank(p) == Rank(p[1], ImageFiles)
VRank(p) == Rank(p[1], VideoFiles)
End    == WindowEnd(ImageFiles)
ImgDue == {p \in Img : p \in data.good /\ IRank(p) >= data.start}
VidDue == {p \in Vid : p \in data.near \cup data.good}
Known  == FullOf(Incomplete)
Crops  == CropOf(Incomplete)
Asked  == {p \in data.full \cup data.crop : data.changed \cap {p[1], p[2]} # {}}

\* What a pass is given.
DataGiven ==
  /\ data.videos \in SUBSET PassFiles /\ data.start \in Nat /\ data.changed \in SUBSET PassFiles
  /\ data.full \in SUBSET PassPairs /\ data.crop \in SUBSET PassPairs /\ data.good \in SUBSET PassPairs
  /\ \A p \in data.full \cup data.crop : IsVideo(p) \/ IsImage(p)
  /\ data.near \cap data.gated = {}
  /\ \A p \in data.near \cup data.gated : IsVideo(p)
  /\ \A p \in data.good : IsVideo(p) => p \in data.gated
  /\ data.targeted \in BOOLEAN
  /\ data.targeted => data.start = 0

\* Where the pass is, and what is there to be done.
PassPlaces ==
  /\ stage \in {"images", "window", "videos", "videoWindow", "seed", "crops"} => ~data.targeted
  /\ stage = "targeted" => data.targeted
  /\ stage \in {"images", "window", "videos", "seed"} => passTodo = {}
  /\ stage \in {"images", "window", "videos", "seed"} => pending = <<>> /\ ~flushing
  /\ stage \in {"images", "window"} =>
       from \in 0..Cardinality(ImageFiles) /\ (data.start <= from \/ from = Cardinality(ImageFiles))
  /\ stage = "window" => from < Cardinality(ImageFiles)
  /\ stage \in {"videos", "videoWindow"} => from \in 0..Cardinality(VideoFiles)

\* The workers of a window have a group each, which no segment is for yet; a segment holds
\* what matches in its group.
WindowShared ==
  stage = "window" =>
    /\ next \in Nat /\ from <= next
    /\ \A w \in AWorkers : worker[w] < Claims =>
         /\ worker[w] \in from..(End - 1) /\ worker[w] < next
         /\ segs[worker[w]] = {}
         /\ \A v \in AWorkers : worker[v] = worker[w] => v = w
    /\ \A g \in Groups : segs[g] \subseteq Matching(g)
    /\ \A g \in Groups : segs[g] # {} => g \in from..(End - 1) /\ g < next

\* What is emitted was due and is nowhere else: the rest of the window, the pairs to come
\* and those that wait are not emitted yet.
EmittedOnce ==
  /\ IsInjective(emitted) /\ Out \subseteq Due
  /\ stage = "images" => \A p \in Out : p \in Img /\ IRank(p) < from
  /\ stage = "window" => \A p \in Out : p \in Img /\ IRank(p) < End
  /\ stage = "window" => Merges \/ \A p \in Out : IRank(p) < from
  /\ stage = "window" => \A p \in Out, g \in Groups : \A q \in segs[g] : Before(p, q)
  /\ stage \in {"videos", "videoWindow"} =>
       \A p \in Out : p \in Img \/ (p \in Vid /\ VRank(p) < from)
  /\ stage = "videoWindow" => \A p \in passTodo : p \in Vid /\ p \notin Out /\ VRank(p) < from
  /\ stage = "seed" => Out \subseteq data.full
  /\ stage = "crops" => Out \subseteq data.full \cup seen /\ Known \subseteq seen
                        /\ passTodo \subseteq Crops
  /\ stage = "targeted" => Out \subseteq seen /\ passTodo \subseteq Asked
  /\ stage \in {"videoWindow", "crops", "targeted"} =>
       /\ IsInjective(pending)
       /\ \A p \in ToSet(pending) : p \in data.gated /\ p \notin Out /\ (p \in data.good => p \in Due)
  /\ stage = "videoWindow" => \A p \in ToSet(pending) : p \in Vid /\ p \notin passTodo /\ VRank(p) < from
  /\ stage \in {"crops", "targeted"} => ToSet(pending) \subseteq seen

\* Without a stop nothing is missed.
NoneMissed ==
  ~stop =>
    /\ stage \in {"images", "window"} => \A p \in ImgDue : IRank(p) < from => p \in Out
    /\ stage = "window" =>
         /\ (\E w \in AWorkers : worker[w] = Left) => next >= End
         /\ \A g \in from..(End - 1) :
              g < next => (\E w \in AWorkers : worker[w] = g) \/ Matching(g) \subseteq segs[g] \cup Out
    /\ stage \in {"videos", "videoWindow", "seed", "crops"} => ImgDue \subseteq Out
    /\ stage \in {"videos", "videoWindow"} =>
         \A p \in VidDue : VRank(p) < from => p \in Out \cup passTodo \cup ToSet(pending)
    /\ stage \in {"seed", "crops"} => VidDue \subseteq Out
    /\ stage = "crops" => Crops \subseteq passTodo \cup seen
    /\ stage = "targeted" => Asked \subseteq passTodo \cup seen
    /\ stage \in {"crops", "targeted"} => seen \cap Due \subseteq Out \cup ToSet(pending)
    /\ stage = "done" => Due \subseteq Out

\* The types; a flush is due as soon as enough pairs wait.
PassTypes ==
  /\ stage \in {"images", "window", "videos", "videoWindow", "seed", "crops", "targeted", "done"}
  /\ from \in 0..NFiles
  /\ worker \in [AWorkers -> 0..Left]
  /\ segs \in [Groups -> SUBSET PassPairs]
  /\ passTodo \in SUBSET PassPairs /\ seen \in SUBSET PassPairs
  /\ pending \in Seq(PassPairs) /\ emitted \in Seq(PassPairs)
  /\ flushing \in BOOLEAN /\ stop \in BOOLEAN
  /\ IF flushing THEN 0 < Len(pending) /\ Len(pending) <= PendingMax ELSE Len(pending) < PendingMax

\* Beyond the end of a window each worker counts once.
NextCounted ==
  /\ next \in Nat
  /\ IF stage = "window" THEN next <= End + Cardinality({w \in AWorkers : worker[w] = Left})
     ELSE next <= NFiles + Cardinality(AWorkers)

PassInv == PassTypes /\ DataGiven /\ PassPlaces /\ WindowShared /\ EmittedOnce /\ NoneMissed /\ OrderKept

-----------------------------------------------------------------------------
\* Ranks are in the order of the files.
LEMMA RankIs ==
    ASSUME NEW S \in SUBSET PassFiles
    PROVE  /\ IsFiniteSet(S) /\ Cardinality(S) \in 0..NFiles
           /\ \A f \in PassFiles : Rank(f, S) \in Nat
           /\ \A f \in S : Rank(f, S) < Cardinality(S)
           /\ \A f, g \in S : Rank(f, S) < Rank(g, S) <=> f < g
<1>1. NFiles \in Nat /\ 1 \in Int
  BY PassAssumption
<1>2. IsFiniteSet(PassFiles) /\ Cardinality(PassFiles) = NFiles
  <2>1. IsFiniteSet(1..NFiles) /\ Cardinality(1..NFiles) = IF 1 > NFiles THEN 0 ELSE NFiles - 1 + 1
    BY <1>1, FS_Interval
  <2> QED BY <1>1, <2>1 DEF PassFiles
<1>3. IsFiniteSet(S) /\ Cardinality(S) \in Nat /\ Cardinality(S) <= NFiles
  BY <1>2, FS_Subset, FS_CardinalityType
<1> DEFINE B(f) == {g \in S : g < f}
<1>4. ASSUME NEW f PROVE IsFiniteSet(B(f)) /\ Rank(f, S) \in Nat /\ Rank(f, S) = Cardinality(B(f))
  <2>1. B(f) \in SUBSET S
    OBVIOUS
  <2> QED BY <1>3, <2>1, FS_Subset, FS_CardinalityType DEF Rank
<1>5. \A f \in S : f \in Nat
  BY <1>1 DEF PassFiles
<1>6. ASSUME NEW f \in S PROVE Rank(f, S) < Cardinality(S)
  <2>1. B(f) \in SUBSET S /\ B(f) # S
    BY <1>5
  <2>2. Cardinality(B(f)) <= Cardinality(S) /\ Cardinality(S) # Cardinality(B(f))
    BY <1>3, <2>1, FS_Subset
  <2>3. Cardinality(B(f)) \in Nat
    BY <1>4
  <2> QED BY <1>3, <1>4, <2>2, <2>3
<1>7. ASSUME NEW f \in S, NEW g \in S, f < g PROVE Rank(f, S) < Rank(g, S)
  <2>1. B(f) \in SUBSET B(g) /\ f \in B(g) /\ f \notin B(f)
    BY <1>5, <1>7
  <2>2. B(f) # B(g) /\ IsFiniteSet(B(g)) /\ Cardinality(B(f)) \in Nat /\ Cardinality(B(g)) \in Nat
    BY <1>4, <2>1
  <2> HIDE DEF B
  <2>3. Cardinality(B(f)) <= Cardinality(B(g)) /\ Cardinality(B(g)) # Cardinality(B(f))
    BY <2>1, <2>2, FS_Subset
  <2> QED BY <1>4, <2>2, <2>3
<1>8. ASSUME NEW f \in S, NEW g \in S PROVE Rank(f, S) < Rank(g, S) <=> f < g
  <2>1. f \in Nat /\ g \in Nat /\ Rank(f, S) \in Nat /\ Rank(g, S) \in Nat
    BY <1>4, <1>5
  <2>2. f < g => Rank(f, S) < Rank(g, S)
    BY <1>7
  <2>3. g < f => Rank(g, S) < Rank(f, S)
    BY <1>7
  <2>4. f = g => Rank(f, S) = Rank(g, S)
    OBVIOUS
  <2> QED BY <2>1, <2>2, <2>3, <2>4
<1>9. Cardinality(S) \in 0..NFiles
  BY <1>1, <1>3
<1>10. \A f \in PassFiles : Rank(f, S) \in Nat
  BY <1>4
<1> HIDE DEF B
<1> QED BY <1>3, <1>6, <1>8, <1>9, <1>10

\* How many pairs a set has.
LEMMA PairsCounted ==
    ASSUME NEW S \in SUBSET PassFiles, NEW A \in SUBSET {p \in PassPairs : {p[1], p[2]} \subseteq S},
           ~(Cardinality(A) < Possible(S))
    PROVE  A = {p \in PassPairs : {p[1], p[2]} \subseteq S}
<1> DEFINE n == Cardinality(S)
           P == {p \in PassPairs : {p[1], p[2]} \subseteq S}
           Q == {p \in S \X S : p[2] < p[1]}
           D == {p \in S \X S : p[1] = p[2]}
           f == [p \in P |-> <<p[2], p[1]>>]
           d == [c \in S |-> <<c, c>>]
<1>1. IsFiniteSet(S) /\ n \in Nat
  BY RankIs, PassAssumption
<1>2. \A c \in S : c \in Nat /\ c \in PassFiles
  BY PassAssumption DEF PassFiles
<1>3. IsFiniteSet(S \X S) /\ Cardinality(S \X S) = n * n
  BY <1>1, FS_Product
<1>4. P = {p \in S \X S : p[1] < p[2]}
  BY <1>2 DEF PassPairs
<1> HIDE DEF n, P
<1>5. P \in SUBSET (S \X S) /\ Q \in SUBSET (S \X S) /\ D \in SUBSET (S \X S)
  BY <1>4
<1>6. IsFiniteSet(P) /\ IsFiniteSet(Q) /\ IsFiniteSet(D)
  <2> HIDE DEF Q, D
  <2> QED BY <1>3, <1>5, FS_Subset
<1>7. Cardinality(P) \in Nat /\ Cardinality(Q) \in Nat /\ Cardinality(D) \in Nat
  <2> HIDE DEF Q, D
  <2> QED BY <1>6, FS_CardinalityType
<1>8. Cardinality(Q) = Cardinality(P)
  <2>1. ASSUME NEW p \in P PROVE f[p] \in Q
    BY <1>4
  <2>2. ASSUME NEW p \in P, NEW q \in P, f[p] = f[q] PROVE p = q
    <3>1. p = <<p[1], p[2]>> /\ q = <<q[1], q[2]>>
      BY <1>5
    <3>2. p[1] = q[1] /\ p[2] = q[2]
      BY <2>2
    <3> QED BY <3>1, <3>2
  <2>3. ASSUME NEW q \in Q PROVE \E p \in P : f[p] = q
    <3>1. <<q[2], q[1]>> \in P /\ q = <<q[1], q[2]>>
      BY <1>4
    <3> QED BY <3>1
  <2>4. f \in Bijection(P, Q)
    <3>1. f \in [P -> Q]
      BY <2>1
    <3> HIDE DEF f, Q
    <3> QED BY <2>2, <2>3, <3>1, Fun_IsBij
  <2> HIDE DEF f, Q
  <2>5. ExistsBijection(P, Q)
    BY <2>4, Fun_ExistsBij
  <2> QED BY <1>6, <2>5, FS_Bijection
<1>9. Cardinality(D) = n
  <2>1. d \in Bijection(S, D)
    <3>1. d \in [S -> D] /\ (\A c, e \in S : d[c] = d[e] => c = e)
      OBVIOUS
    <3>2. ASSUME NEW q \in D PROVE \E c \in S : d[c] = q
      <4>1. q[1] \in S /\ q = <<q[1], q[1]>>
        OBVIOUS
      <4> QED BY <4>1
    <3> HIDE DEF d, D
    <3> QED BY <3>1, <3>2, Fun_IsBij
  <2> HIDE DEF d, D
  <2>2. ExistsBijection(S, D)
    BY <2>1, Fun_ExistsBij
  <2> QED BY <1>1, <2>2, FS_Bijection DEF n
<1>10. S \X S = (P \cup Q) \cup D /\ P \cap Q = {} /\ (P \cup Q) \cap D = {}
  BY <1>2, <1>4
<1>11. n * n = 2 * Cardinality(P) + n
  <2> HIDE DEF Q, D
  <2>1. IsFiniteSet(P \cup Q) /\ Cardinality(P \cup Q) = Cardinality(P) + Cardinality(Q) - Cardinality(P \cap Q)
    BY <1>6, FS_Union
  <2>2. Cardinality((P \cup Q) \cup D) = Cardinality(P \cup Q) + Cardinality(D) - Cardinality((P \cup Q) \cap D)
    BY <1>6, <2>1, FS_Union
  <2>3. Cardinality(P \cap Q) = 0 /\ Cardinality((P \cup Q) \cap D) = 0
    BY <1>10, FS_EmptySet
  <2> DEFINE a == Cardinality(P)
             b == Cardinality(P \cup Q)
             c == Cardinality(S \X S)
  <2>4. b = a + a - 0
    BY <1>8, <2>1, <2>3
  <2>5. c = b + n - 0
    BY <1>9, <1>10, <2>2, <2>3
  <2>6. a \in Nat /\ n \in Nat
    BY <1>1, <1>7
  <2> HIDE DEF a, b, c
  <2>7. c = 2 * a + n
    BY <2>4, <2>5, <2>6
  <2> QED BY <1>3, <2>7 DEF a, c
<1>12. Possible(S) = Cardinality(P)
  <2> DEFINE m == n * n
             c == Cardinality(P)
  <2>1. m = 2 * c + n /\ c \in Nat /\ n \in Nat
    BY <1>1, <1>7, <1>11
  <2>2. Possible(S) = (m - n) \div 2
    BY DEF Possible, n
  <2> HIDE DEF m, c
  <2>3. Possible(S) = c
    BY <2>1, <2>2
  <2> QED BY <2>3 DEF c
<1>13. A \in SUBSET P
  BY DEF P
<1>14. Cardinality(A) \in Nat /\ Cardinality(A) <= Cardinality(P)
  BY <1>6, <1>13, FS_Subset, FS_CardinalityType
<1>15. Cardinality(P) = Cardinality(A)
  BY <1>7, <1>12, <1>14
<1>16. A = P
  BY <1>6, <1>13, <1>15, FS_Subset
<1> QED BY <1>16 DEF P

\* What is joined to a sequence, and what is taken off it.
LEMMA Joined ==
    ASSUME NEW S, NEW s \in Seq(S), NEW p \in S
    PROVE  /\ Append(s, p) \in Seq(S) /\ ToSet(Append(s, p)) = ToSet(s) \cup {p}
           /\ IsInjective(s) /\ p \notin ToSet(s) => IsInjective(Append(s, p))
<1> DEFINE n == Len(s)
           t == Append(s, p)
<1>1. t \in Seq(S) /\ Len(t) = n + 1 /\ (\A k \in 1..n : t[k] = s[k]) /\ t[n + 1] = p
  BY AppendProperties
<1>2. n \in Nat /\ DOMAIN s = 1..n /\ DOMAIN t = 1..(n + 1)
  BY <1>1
<1> HIDE DEF n, t
<1>3. 1..(n + 1) = 1..n \cup {n + 1} /\ n + 1 \notin 1..n
  BY <1>2
<1>4. ToSet(t) = ToSet(s) \cup {p}
  <2>1. ToSet(t) = {t[k] : k \in 1..(n + 1)} /\ ToSet(s) = {s[k] : k \in 1..n}
    BY <1>2 DEF ToSet
  <2> QED BY <1>1, <1>3, <2>1
<1>5. ASSUME IsInjective(s), p \notin ToSet(s) PROVE IsInjective(t)
  <2>1. \A a, b \in 1..n : s[a] = s[b] => a = b
    BY <1>2, <1>5 DEF IsInjective
  <2>2. \A a \in 1..n : s[a] # p
    BY <1>2, <1>5 DEF ToSet
  <2>3. \A a, b \in 1..(n + 1) : t[a] = t[b] => a = b
    BY <1>1, <1>3, <2>1, <2>2
  <2> QED BY <1>2, <2>3 DEF IsInjective
<1> QED BY <1>1, <1>4, <1>5 DEF t

\* The first element.
LEMMA TakenOff ==
    ASSUME NEW S, NEW s \in Seq(S), s # <<>>
    PROVE  /\ Head(s) \in S /\ Tail(s) \in Seq(S) /\ Len(Tail(s)) = Len(s) - 1
           /\ ToSet(s) = {Head(s)} \cup ToSet(Tail(s))
           /\ IsInjective(s) => IsInjective(Tail(s)) /\ Head(s) \notin ToSet(Tail(s))
<1> DEFINE n == Len(s)
           t == Tail(s)
<1>1. t \in Seq(S) /\ Len(t) = n - 1 /\ (\A k \in 1..(n - 1) : t[k] = s[k + 1]) /\ Head(s) = s[1] /\ Head(s) \in S
  BY HeadTailProperties
<1>2. n \in Nat /\ n # 0 /\ DOMAIN s = 1..n /\ DOMAIN t = 1..(n - 1)
  BY <1>1
<1> HIDE DEF n, t
<1>3. ToSet(t) = {t[k] : k \in 1..(n - 1)} /\ ToSet(s) = {s[k] : k \in 1..n}
  BY <1>2 DEF ToSet
<1>4. ASSUME NEW u \in ToSet(s) PROVE u \in {Head(s)} \cup ToSet(t)
  <2>1. PICK k \in 1..n : u = s[k]
    BY <1>3
  <2>2. k # 1 => k - 1 \in 1..(n - 1) /\ (k - 1) + 1 = k
    BY <1>2
  <2>3. k # 1 => s[k] = t[k - 1]
    BY <1>1, <2>2
  <2> QED BY <1>1, <1>3, <2>1, <2>2, <2>3
<1>5. ASSUME NEW u \in {Head(s)} \cup ToSet(t) PROVE u \in ToSet(s)
  <2>1. 1 \in 1..n /\ \A k \in 1..(n - 1) : k + 1 \in 1..n
    BY <1>2
  <2> QED BY <1>1, <1>3, <2>1
<1>6. ASSUME IsInjective(s) PROVE IsInjective(t) /\ Head(s) \notin ToSet(t)
  <2>1. \A a, b \in 1..n : s[a] = s[b] => a = b
    BY <1>2, <1>6 DEF IsInjective
  <2>2. 1 \in 1..n /\ \A k \in 1..(n - 1) : k + 1 \in 1..n /\ k + 1 # 1 /\ k \in Int
    BY <1>2
  <2>3. \A a, b \in 1..(n - 1) : t[a] = t[b] => a = b
    <3> SUFFICES ASSUME NEW a \in 1..(n - 1), NEW b \in 1..(n - 1), t[a] = t[b] PROVE a = b
      OBVIOUS
    <3>1. a + 1 = b + 1
      BY <1>1, <2>1, <2>2
    <3> QED BY <2>2, <3>1
  <2>4. \A a \in 1..(n - 1) : t[a] # s[1]
    BY <1>1, <2>1, <2>2
  <2> QED BY <1>1, <1>2, <1>3, <2>3, <2>4 DEF IsInjective
<1> QED BY <1>1, <1>4, <1>5, <1>6 DEF n, t

\* What is given stays.
LEMMA GivenStays ==
    ASSUME data' = data
    PROVE  /\ Img' = Img /\ Vid' = Vid /\ ImgDue' = ImgDue /\ VidDue' = VidDue /\ Known' = Known /\ Crops' = Crops
           /\ Asked' = Asked /\ Due' = Due /\ ImageFiles' = ImageFiles /\ VideoFiles' = VideoFiles
           /\ \A g : Matching(g)' = Matching(g)
           /\ \A p : IRank(p)' = IRank(p) /\ VRank(p)' = VRank(p)
           /\ DataGiven' = DataGiven /\ (from' = from => End' = End)
<1>1. ImageFiles' = ImageFiles /\ VideoFiles' = VideoFiles
  BY DEF ImageFiles, VideoFiles
<1>2. Img' = Img /\ Vid' = Vid
  BY <1>1 DEF Img, Vid, FullOf
<1>3. \A p : IRank(p)' = IRank(p) /\ VRank(p)' = VRank(p)
  BY <1>1 DEF IRank, VRank, Rank
<1>4. ImgDue' = ImgDue /\ VidDue' = VidDue
  BY <1>2, <1>3 DEF ImgDue, VidDue
<1>5. Incomplete' = Incomplete
  BY <1>1 DEF Incomplete, FullOf, Possible
<1>6. Known' = Known /\ Crops' = Crops
  BY <1>5 DEF Known, Crops, FullOf, CropOf
<1>7. Asked' = Asked
  BY DEF Asked
<1>8. Due' = Due
  <2>1. \A p : Included(p)' = Included(p) /\ IsVideo(p)' = IsVideo(p)
    BY DEF Included, IsVideo
  <2>2. FullOf(ImageFiles)' = FullOf(ImageFiles)
    BY <1>2 DEF Img
  <2> QED BY <1>1, <2>1, <2>2 DEF Due, Rank
<1>9. \A g : Matching(g)' = Matching(g)
  BY <1>1 DEF Matching, FullOf, Rank
<1>10. DataGiven' = DataGiven
  BY DEF DataGiven, IsVideo, IsImage
<1>11. from' = from => End' = End
  BY <1>1 DEF End, WindowEnd
<1> QED BY <1>1, <1>2, <1>3, <1>4, <1>6, <1>7, <1>8, <1>9, <1>10, <1>11

\* A pair and its files.
LEMMA PairIs ==
    ASSUME NEW p \in PassPairs
    PROVE  /\ p = <<p[1], p[2]>> /\ p[1] \in PassFiles /\ p[2] \in PassFiles
           /\ p[1] \in Nat /\ p[2] \in Nat /\ p[1] < p[2] /\ ~Before(p, p)
<1>1. p \in PassFiles \X PassFiles /\ p[1] < p[2]
  BY DEF PassPairs
<1>2. p = <<p[1], p[2]>> /\ p[1] \in PassFiles /\ p[2] \in PassFiles
  BY <1>1
<1>3. p[1] \in Nat /\ p[2] \in Nat
  BY <1>2, PassAssumption DEF PassFiles
<1> QED BY <1>1, <1>2, <1>3 DEF Before

\* The pairs of the full indexes are of images or of videos.
LEMMA FullIs ==
    ASSUME DataGiven
    PROVE  /\ Img \in SUBSET PassPairs /\ Vid \in SUBSET PassPairs /\ data.full = Img \cup Vid
           /\ Img \cap Vid = {}
           /\ \A p \in Img : IsImage(p) /\ ~IsVideo(p) /\ p[1] \in ImageFiles
           /\ \A p \in Vid : IsVideo(p) /\ ~IsImage(p) /\ p[1] \in VideoFiles
           /\ ImageFiles \in SUBSET PassFiles /\ VideoFiles \in SUBSET PassFiles
<1>1. ImageFiles \in SUBSET PassFiles /\ VideoFiles \in SUBSET PassFiles
  BY DEF DataGiven, ImageFiles, VideoFiles
<1>2. data.full \in SUBSET PassPairs
  BY DEF DataGiven
<1>3. ASSUME NEW p \in data.full PROVE p[1] \in PassFiles /\ p[2] \in PassFiles
  BY <1>2, PairIs
<1>4. ASSUME NEW p \in data.full PROVE p \in Img <=> IsImage(p)
  BY <1>3 DEF Img, FullOf, IsImage, ImageFiles
<1>5. ASSUME NEW p \in data.full PROVE p \in Vid <=> IsVideo(p)
  BY <1>3 DEF Vid, FullOf, IsVideo, VideoFiles
<1>6. Img \in SUBSET data.full /\ Vid \in SUBSET data.full
  BY DEF Img, Vid, FullOf
<1>7. \A p \in data.full : IsVideo(p) \/ IsImage(p)
  BY DEF DataGiven
<1>8. \A p : ~(IsVideo(p) /\ IsImage(p))
  BY DEF IsVideo, IsImage
<1>9. \A p \in data.full : (IsImage(p) => p[1] \in ImageFiles) /\ (IsVideo(p) => p[1] \in VideoFiles)
  BY <1>3 DEF IsImage, IsVideo, ImageFiles, VideoFiles
<1> QED BY <1>1, <1>2, <1>4, <1>5, <1>6, <1>7, <1>8, <1>9

\* The ranks of their first files.
LEMMA IRankIs ==
    ASSUME DataGiven
    PROVE  /\ Cardinality(ImageFiles) \in 0..NFiles /\ Cardinality(VideoFiles) \in 0..NFiles
           /\ \A p \in Img : IRank(p) \in Nat /\ IRank(p) < Cardinality(ImageFiles)
           /\ \A p \in Vid : VRank(p) \in Nat /\ VRank(p) < Cardinality(VideoFiles)
           /\ \A p, q \in Img : IRank(p) < IRank(q) => Before(p, q)
           /\ \A g : \A p \in Matching(g) : p \in Img /\ p \in data.good /\ IRank(p) = g
           /\ \A p \in Img : p \in data.good => p \in Matching(IRank(p))
<1>1. ImageFiles \in SUBSET PassFiles /\ VideoFiles \in SUBSET PassFiles
  BY FullIs
<1>2. Cardinality(ImageFiles) \in 0..NFiles /\ Cardinality(VideoFiles) \in 0..NFiles
  BY <1>1, RankIs
<1>3. ASSUME NEW p \in Img PROVE IRank(p) \in Nat /\ IRank(p) < Cardinality(ImageFiles)
  <2>1. p[1] \in ImageFiles /\ p[1] \in PassFiles
    BY <1>1, FullIs
  <2> QED BY <1>1, <2>1, RankIs DEF IRank
<1>4. ASSUME NEW p \in Vid PROVE VRank(p) \in Nat /\ VRank(p) < Cardinality(VideoFiles)
  <2>1. p[1] \in VideoFiles /\ p[1] \in PassFiles
    BY <1>1, FullIs
  <2> QED BY <1>1, <2>1, RankIs DEF VRank
<1>5. ASSUME NEW p \in Img, NEW q \in Img, IRank(p) < IRank(q) PROVE Before(p, q)
  <2>1. p[1] \in ImageFiles /\ q[1] \in ImageFiles
    BY FullIs
  <2>2. p[1] < q[1]
    BY <1>1, <1>5, <2>1, RankIs DEF IRank
  <2> QED BY <2>2 DEF Before
<1>6. ASSUME NEW g, NEW p \in Matching(g) PROVE p \in Img /\ p \in data.good /\ IRank(p) = g
  BY DEF Matching, Img, IRank
<1>7. ASSUME NEW p \in Img, p \in data.good PROVE p \in Matching(IRank(p))
  BY <1>7 DEF Matching, Img, IRank
<1> QED BY <1>2, <1>3, <1>4, <1>5, <1>6, <1>7

\* What is due.
LEMMA DueIs ==
    ASSUME DataGiven
    PROVE  /\ Due \in SUBSET PassPairs /\ ImgDue \in SUBSET Img /\ VidDue \in SUBSET Vid
           /\ ~data.targeted =>
                /\ ImgDue \in SUBSET Due /\ VidDue \in SUBSET Due
                /\ \A p \in Due : IF p \in data.full THEN p \in ImgDue \cup VidDue
                                  ELSE p \in data.crop /\ p \in data.near \cup data.good
                /\ \A p \in data.crop : p \in data.near \cup data.good /\ p \notin data.full => p \in Due
           /\ data.targeted =>
                /\ Due \in SUBSET Asked
                /\ \A p \in Asked : Included(p) /\ p \in data.near \cup data.good => p \in Due
                /\ \A p \in Due : Included(p) /\ p \in data.near \cup data.good
<1>1. Due \in SUBSET (data.full \cup data.crop) /\ ImgDue \in SUBSET Img /\ VidDue \in SUBSET Vid
  BY DEF Due, ImgDue, VidDue
<1>2. /\ data.full = Img \cup Vid /\ Img \cap Vid = {}
      /\ \A p \in Img : ~IsVideo(p)
  BY FullIs
<1>3. /\ data.start \in Nat /\ data.crop \in SUBSET PassPairs /\ data.full \in SUBSET PassPairs
      /\ \A p \in Img : p \notin data.near
  BY <1>2 DEF DataGiven
<1>4. \A p \in Img : IRank(p) \in Nat
  BY IRankIs
<1>5. \A p : p \in Due <=> /\ p \in data.full \cup data.crop
                          /\ Included(p)
                          /\ p \in data.near \cup data.good
                          /\ ~(p \in Img /\ IRank(p) < data.start)
  BY DEF Due, Img, IRank
<1>6. ASSUME ~data.targeted
      PROVE  /\ ImgDue \in SUBSET Due /\ VidDue \in SUBSET Due
             /\ \A p \in Due : IF p \in data.full THEN p \in ImgDue \cup VidDue
                               ELSE p \in data.crop /\ p \in data.near \cup data.good
             /\ \A p \in data.crop : p \in data.near \cup data.good /\ p \notin data.full => p \in Due
  <2>1. \A p : Included(p)
    BY <1>6 DEF Included
  <2>2. \A p \in Img : p \in ImgDue <=> p \in data.good /\ ~(IRank(p) < data.start)
    BY <1>3, <1>4 DEF ImgDue
  <2>3. \A p \in Vid : p \in VidDue <=> p \in data.near \cup data.good
    BY DEF VidDue
  <2>4. ImgDue \in SUBSET Due
    BY <1>1, <1>2, <1>5, <2>1, <2>2
  <2>5. VidDue \in SUBSET Due
    BY <1>1, <1>2, <1>5, <2>1, <2>3
  <2>6. ASSUME NEW p \in Due
        PROVE  IF p \in data.full THEN p \in ImgDue \cup VidDue ELSE p \in data.crop /\ p \in data.near \cup data.good
    BY <1>2, <1>3, <1>5, <2>1, <2>2, <2>3
  <2>7. ASSUME NEW p \in data.crop, p \in data.near \cup data.good, p \notin data.full PROVE p \in Due
    BY <1>2, <1>5, <2>1, <2>7
  <2> QED BY <2>4, <2>5, <2>6, <2>7
<1>7. ASSUME data.targeted
      PROVE  /\ Due \in SUBSET Asked
             /\ \A p \in Asked : Included(p) /\ p \in data.near \cup data.good => p \in Due
             /\ \A p \in Due : Included(p) /\ p \in data.near \cup data.good
  <2>1. data.start = 0 /\ \A p \in Img : ~(IRank(p) < data.start)
    BY <1>4, <1>7 DEF DataGiven
  <2>2. ASSUME NEW p \in Due PROVE p \in Asked
    <3>1. p \in data.full \cup data.crop /\ Included(p)
      BY <1>5
    <3>2. p[1] \in data.changed \/ p[2] \in data.changed
      BY <1>7, <3>1 DEF Included
    <3> QED BY <3>1, <3>2 DEF Asked
  <2>3. ASSUME NEW p \in Asked, Included(p), p \in data.near \cup data.good PROVE p \in Due
    <3>1. p \in data.full \cup data.crop
      BY DEF Asked
    <3> QED BY <1>5, <2>1, <2>3, <3>1
  <2>4. \A p \in Due : Included(p) /\ p \in data.near \cup data.good
    BY <1>5
  <2> QED BY <2>2, <2>3, <2>4
<1> QED BY <1>1, <1>3, <1>6, <1>7

\* What the crop passes have to look at: every due pair that no full index has is theirs,
\* since an index that has covered as many pairs as there are has covered all.
LEMMA CropsAre ==
    ASSUME DataGiven
    PROVE  /\ Known \in SUBSET data.full /\ Crops \in SUBSET data.crop
           /\ \A p \in Crops : p \in data.full => p \in Known
           /\ ~data.targeted => \A p \in Due : p \notin data.full => p \in Crops
<1>1. Known \in SUBSET data.full /\ Crops \in SUBSET data.crop /\ \A p \in Crops : p \in data.full => p \in Known
  BY DEF Known, Crops, FullOf, CropOf
<1>2. ASSUME ~data.targeted, NEW p \in Due, p \notin data.full PROVE p \in Crops
  <2>1. p \in data.crop /\ p \in PassPairs
    BY <1>2, DueIs
  <2>2. p[1] \in PassFiles /\ p[2] \in PassFiles /\ (IsVideo(p) \/ IsImage(p))
    BY <2>1, PairIs DEF DataGiven
  <2>3. ImageFiles \in SUBSET PassFiles /\ VideoFiles \in SUBSET PassFiles /\ data.full \in SUBSET PassPairs
    BY FullIs DEF DataGiven
  <2>4. CASE IsImage(p)
    <3> DEFINE A == {q \in FullOf(ImageFiles) : Rank(q[1], ImageFiles) >= data.start}
    <3>1. {p[1], p[2]} \subseteq ImageFiles
      BY <2>2, <2>4 DEF IsImage, ImageFiles
    <3>2. A \in SUBSET {q \in PassPairs : {q[1], q[2]} \subseteq ImageFiles} /\ p \notin A
      BY <1>2, <2>3 DEF FullOf
    <3> HIDE DEF A
    <3>3. Cardinality(A) < Possible(ImageFiles)
      BY <2>1, <2>3, <3>1, <3>2, PairsCounted
    <3>4. ImageFiles \subseteq Incomplete
      BY <3>3 DEF Incomplete, A
    <3> QED BY <2>1, <3>1, <3>4 DEF Crops, CropOf
  <2>5. CASE IsVideo(p)
    <3> DEFINE A == FullOf(VideoFiles)
    <3>1. {p[1], p[2]} \subseteq VideoFiles
      BY <2>5 DEF IsVideo, VideoFiles
    <3>2. A \in SUBSET {q \in PassPairs : {q[1], q[2]} \subseteq VideoFiles} /\ p \notin A
      BY <1>2, <2>3 DEF FullOf
    <3> HIDE DEF A
    <3>3. Cardinality(A) < Possible(VideoFiles)
      BY <2>1, <2>3, <3>1, <3>2, PairsCounted
    <3>4. VideoFiles \subseteq Incomplete
      BY <3>3 DEF Incomplete, A
    <3> QED BY <2>1, <3>1, <3>4 DEF Crops, CropOf
  <2> QED BY <2>2, <2>4, <2>5
<1> QED BY <1>1, <1>2

\* The end of a window.
LEMMA EndIs ==
    ASSUME DataGiven, from \in 0..NFiles, from < Cardinality(ImageFiles)
    PROVE  End \in Nat /\ from < End /\ End <= Cardinality(ImageFiles) /\ End <= NFiles
<1>1. Cardinality(ImageFiles) \in 0..NFiles /\ NFiles \in Nat /\ SliceGroups \in Nat \ {0}
  BY IRankIs, PassAssumption
<1> QED BY <1>1 DEF End, WindowEnd

\* The order of the image matches.
LEMMA OrderGrows ==
    ASSUME DataGiven, OrderKept, data' = data, emitted \in Seq(PassPairs), NEW p \in PassPairs,
           emitted' = Append(emitted, p),
           ~data.targeted => (p \in Img => \A q \in Out : q \in Img => Before(q, p))
    PROVE  OrderKept'
<1> DEFINE n == Len(emitted)
<1>1. /\ Append(emitted, p) \in Seq(PassPairs) /\ Len(Append(emitted, p)) = n + 1
      /\ (\A k \in 1..n : Append(emitted, p)[k] = emitted[k]) /\ Append(emitted, p)[n + 1] = p
  BY AppendProperties
<1>2. n \in Nat /\ DOMAIN emitted = 1..n
  OBVIOUS
<1> HIDE DEF n
<1>3. DOMAIN emitted' = 1..(n + 1) /\ (\A k \in 1..n : emitted'[k] = emitted[k]) /\ emitted'[n + 1] = p
  BY <1>1, <1>2
<1>4. Img' = Img /\ Img = FullOf(ImageFiles)
  BY GivenStays DEF Img
<1> SUFFICES ASSUME ~data.targeted, NEW a \in 1..(n + 1), NEW b \in 1..(n + 1), a < b,
                    emitted'[a] \in Img, emitted'[b] \in Img
             PROVE  Before(emitted'[a], emitted'[b])
  BY <1>3, <1>4 DEF OrderKept, Img
<1>5. a \in 1..n
  BY <1>2
<1>6. CASE b \in 1..n
  BY <1>2, <1>3, <1>4, <1>5, <1>6 DEF OrderKept
<1>7. CASE b = n + 1
  <2>1. emitted[a] \in Out
    BY <1>2, <1>5 DEF Out, ToSet
  <2> QED BY <1>3, <1>5, <1>7, <2>1
<1> QED BY <1>2, <1>6, <1>7

\* The order is of what is emitted.
LEMMA OrderStays == ASSUME OrderKept, data' = data, emitted' = emitted PROVE OrderKept'
<1>1. Img' = Img
  BY GivenStays
<1> QED BY <1>1 DEF OrderKept, Img

\* A stop that is asked for, and no step.
LEMMA StopAsked ==
    ASSUME PassInv, UNCHANGED <<data, stage, from, next, worker, segs, passTodo, pending, flushing, seen, emitted>>,
           stop' = TRUE \/ stop' = stop
    PROVE  PassInv'
<1>1. /\ Img' = Img /\ Vid' = Vid /\ ImgDue' = ImgDue /\ VidDue' = VidDue /\ Known' = Known /\ Crops' = Crops
      /\ Asked' = Asked /\ Due' = Due /\ ImageFiles' = ImageFiles /\ VideoFiles' = VideoFiles
      /\ (\A g : Matching(g)' = Matching(g))
      /\ (\A p : IRank(p)' = IRank(p) /\ VRank(p)' = VRank(p))
      /\ DataGiven' = DataGiven /\ End' = End
  BY GivenStays
<1>2. PassTypes'
  BY DEF PassInv, PassTypes
<1>3. DataGiven' /\ PassPlaces'
  BY <1>1 DEF PassInv, PassPlaces
<1>4. WindowShared'
  BY <1>1 DEF PassInv, WindowShared
<1>5. EmittedOnce'
  <2>1. Out' = Out /\ Merges' = Merges
    BY DEF Out, Merges
  <2> QED BY <1>1, <2>1 DEF PassInv, EmittedOnce
<1>6. NoneMissed'
  <2>1. Out' = Out
    BY DEF Out
  <2>2. CASE stop'
    BY <2>2 DEF NoneMissed
  <2>3. CASE stop' = stop
    BY <1>1, <2>1, <2>3 DEF PassInv, NoneMissed
  <2> QED BY <2>2, <2>3
<1>7. OrderKept'
  BY OrderStays DEF PassInv
<1> QED BY <1>2, <1>3, <1>4, <1>5, <1>6, <1>7 DEF PassInv

\* A worker takes a group, or finds none.
LEMMA ClaimKept == ASSUME PassInv, NEW w \in AWorkers, Claim(w) PROVE PassInv'
<1>1. /\ Img' = Img /\ Vid' = Vid /\ ImgDue' = ImgDue /\ VidDue' = VidDue /\ Due' = Due
      /\ ImageFiles' = ImageFiles /\ VideoFiles' = VideoFiles
      /\ (\A g : Matching(g)' = Matching(g))
      /\ (\A p : IRank(p)' = IRank(p))
      /\ DataGiven' = DataGiven /\ End' = End
  BY GivenStays DEF Claim
<1>2. /\ stage = "window" /\ stage' = "window" /\ worker[w] = Claims /\ next' = next + 1
      /\ worker' = [worker EXCEPT ![w] = IF next < End THEN next ELSE Left]
      /\ UNCHANGED <<data, from, segs, passTodo, pending, flushing, seen, emitted, stop>>
  BY DEF Claim, End
<1>3. /\ from \in 0..NFiles /\ worker \in [AWorkers -> 0..Left] /\ NFiles \in Nat
      /\ segs \in [Groups -> SUBSET PassPairs] /\ from < Cardinality(ImageFiles) /\ DataGiven
      /\ next \in Nat /\ from <= next
  BY <1>2, PassAssumption DEF PassInv, PassTypes, PassPlaces, WindowShared
<1>4. End \in Nat /\ from < End /\ End <= NFiles
  BY <1>3, EndIs
<1>5. worker' \in [AWorkers -> 0..Left] /\ (\A v \in AWorkers \ {w} : worker'[v] = worker[v])
  <2>1. (IF next < End THEN next ELSE Left) \in 0..Left
    BY <1>3, <1>4 DEF Left
  <2> QED BY <1>2, <1>3, <2>1
<1>6. worker'[w] = IF next < End THEN next ELSE Left
  BY <1>2, <1>3
<1>7. PassTypes'
  BY <1>2, <1>5 DEF PassInv, PassTypes
<1>8. DataGiven' /\ PassPlaces'
  BY <1>1, <1>2 DEF PassInv, PassPlaces
<1>9. WindowShared'
  <2>1. \A v \in AWorkers : worker[v] < Claims =>
            /\ worker[v] \in from..(End - 1) /\ worker[v] < next
            /\ segs[worker[v]] = {}
            /\ \A u \in AWorkers : worker[u] = worker[v] => u = v
    BY <1>2 DEF PassInv, WindowShared
  <2>2. \A g \in Groups : segs[g] # {} => g \in from..(End - 1) /\ g < next
    BY <1>2 DEF PassInv, WindowShared
  <2>3. \A g \in Groups : segs[g] \subseteq Matching(g)
    BY <1>2 DEF PassInv, WindowShared
  <2>4. ASSUME NEW v \in AWorkers, worker'[v] < Claims
        PROVE  /\ worker'[v] \in from..(End - 1) /\ worker'[v] < next + 1
               /\ segs[worker'[v]] = {}
               /\ \A u \in AWorkers : worker'[u] = worker'[v] => u = v
    <3>1. CASE v = w
      <4>1. next < End /\ worker'[v] = next
        BY <1>3, <1>6, <2>4, <3>1 DEF Left, Claims
      <4>2. next \in Groups
        BY <1>3, <1>4, <4>1 DEF Groups
      <4>3. next \in from..(End - 1) /\ next < next + 1 /\ segs[next] = {}
        BY <1>3, <1>4, <2>2, <4>1, <4>2
      <4>4. ASSUME NEW u \in AWorkers, worker'[u] = next PROVE u = w
        <5> SUFFICES ASSUME u # w PROVE FALSE
          OBVIOUS
        <5>1. worker[u] = next
          BY <1>5, <4>4
        <5>2. next < Claims
          BY <1>3, <1>4, <4>1 DEF Claims
        <5> QED BY <1>3, <2>1, <5>1, <5>2
      <4> QED BY <3>1, <4>1, <4>3, <4>4
    <3>2. CASE v # w
      <4>1. worker'[v] = worker[v]
        BY <1>5, <3>2
      <4>2. /\ worker[v] \in from..(End - 1) /\ worker[v] < next
            /\ segs[worker[v]] = {}
            /\ \A u \in AWorkers : worker[u] = worker[v] => u = v
        BY <2>1, <2>4, <4>1
      <4>3. worker'[w] # worker[v]
        BY <1>3, <1>4, <1>6, <4>2 DEF Left
      <4>4. worker[v] < next + 1
        BY <1>3, <1>4, <4>2
      <4> QED BY <1>5, <4>1, <4>2, <4>3, <4>4
    <3> QED BY <3>1, <3>2
  <2>5. \A g \in Groups : segs[g] # {} => g \in from..(End - 1) /\ g < next + 1
    BY <1>3, <1>4, <2>2
  <2>6. next + 1 \in Nat /\ from <= next + 1
    BY <1>3
  <2> QED BY <1>1, <1>2, <2>3, <2>4, <2>5, <2>6 DEF WindowShared
<1>10. EmittedOnce'
  <2>1. Out' = Out
    BY <1>2 DEF Out
  <2>2. ~Merges
    BY <1>2, <1>3 DEF Merges, Claims, Left
  <2> QED BY <1>1, <1>2, <2>1, <2>2 DEF PassInv, EmittedOnce
<1>11. NoneMissed'
  <2> SUFFICES ASSUME ~stop PROVE NoneMissed'
    BY <1>2 DEF NoneMissed
  <2>1. Out' = Out
    BY <1>2 DEF Out
  <2>2. (\E v \in AWorkers : worker'[v] = Left) => next + 1 >= End
    <3> SUFFICES ASSUME NEW v \in AWorkers, worker'[v] = Left PROVE next + 1 >= End
      OBVIOUS
    <3>1. CASE v = w
      BY <1>3, <1>4, <1>6, <3>1 DEF Left
    <3>2. CASE v # w
      <4>1. next >= End
        BY <1>2, <1>5, <3>2 DEF PassInv, NoneMissed
      <4> QED BY <1>3, <1>4, <4>1
    <3> QED BY <3>1, <3>2
  <2>3. ASSUME NEW g \in from..(End - 1), g < next + 1
        PROVE  (\E v \in AWorkers : worker'[v] = g) \/ Matching(g) \subseteq segs[g] \cup Out
    <3>1. CASE g = next
      BY <1>3, <1>4, <1>6, <2>3, <3>1
    <3>2. CASE g # next
      <4>1. g < next /\ g # Claims
        BY <1>3, <1>4, <2>3, <3>2 DEF Claims
      <4>2. (\E v \in AWorkers : worker[v] = g) \/ Matching(g) \subseteq segs[g] \cup Out
        BY <1>2, <4>1 DEF PassInv, NoneMissed
      <4> QED BY <1>2, <1>5, <4>1, <4>2
    <3> QED BY <3>1, <3>2
  <2>4. \A p \in ImgDue : IRank(p) < from => p \in Out
    BY <1>2 DEF PassInv, NoneMissed
  <2> QED BY <1>1, <1>2, <2>1, <2>2, <2>3, <2>4 DEF NoneMissed
<1>12. OrderKept'
  BY <1>2, OrderStays DEF PassInv
<1> QED BY <1>7, <1>8, <1>9, <1>10, <1>11, <1>12 DEF PassInv

\* A worker keeps the segment of its group.
LEMMA JudgeKept == ASSUME PassInv, NEW w \in AWorkers, Judge(w) PROVE PassInv'
<1>1. /\ Img' = Img /\ Vid' = Vid /\ ImgDue' = ImgDue /\ VidDue' = VidDue /\ Due' = Due
      /\ ImageFiles' = ImageFiles /\ VideoFiles' = VideoFiles
      /\ (\A g : Matching(g)' = Matching(g))
      /\ (\A p : IRank(p)' = IRank(p))
      /\ DataGiven' = DataGiven /\ End' = End
  BY GivenStays DEF Judge
<1> DEFINE k == worker[w]
<1>2. /\ stage = "window" /\ stage' = "window" /\ k < Claims
      /\ segs' = [segs EXCEPT ![k] = Matching(k)]
      /\ worker' = [worker EXCEPT ![w] = Claims]
      /\ UNCHANGED <<data, from, next, passTodo, pending, flushing, seen, emitted, stop>>
  BY DEF Judge
<1>3. /\ from \in 0..NFiles /\ worker \in [AWorkers -> 0..Left] /\ NFiles \in Nat
      /\ segs \in [Groups -> SUBSET PassPairs] /\ from < Cardinality(ImageFiles) /\ DataGiven
      /\ next \in Nat /\ from <= next
  BY <1>2, PassAssumption DEF PassInv, PassTypes, PassPlaces, WindowShared
<1>4. End \in Nat /\ from < End /\ End <= NFiles
  BY <1>3, EndIs
<1>5. \A v \in AWorkers : worker[v] < Claims =>
            /\ worker[v] \in from..(End - 1) /\ worker[v] < next
            /\ segs[worker[v]] = {}
            /\ \A u \in AWorkers : worker[u] = worker[v] => u = v
  BY <1>2 DEF PassInv, WindowShared
<1>6. k \in from..(End - 1) /\ k < next /\ k \in Groups
  <2>1. k \in from..(End - 1) /\ k < next
    BY <1>2, <1>5
  <2> QED BY <1>3, <1>4, <2>1 DEF Groups
<1> HIDE DEF k
<1>7. /\ worker' \in [AWorkers -> 0..Left] /\ (\A v \in AWorkers \ {w} : worker'[v] = worker[v] /\ worker[v] # k)
      /\ worker'[w] = Claims
  <2>1. Claims \in 0..Left
    BY <1>3 DEF Left, Claims
  <2>2. \A v \in AWorkers \ {w} : worker[v] # k
    BY <1>2, <1>5 DEF k
  <2> QED BY <1>2, <1>3, <2>1, <2>2
<1>8. Matching(k) \in SUBSET PassPairs
  <2>1. \A p \in Matching(k) : p \in Img
    BY <1>3, IRankIs
  <2> QED BY <1>3, <2>1, FullIs
<1>9. segs' \in [Groups -> SUBSET PassPairs] /\ segs'[k] = Matching(k) /\ \A g \in Groups \ {k} : segs'[g] = segs[g]
  BY <1>2, <1>3, <1>6, <1>8
<1>10. PassTypes'
  BY <1>2, <1>7, <1>9 DEF PassInv, PassTypes
<1>11. DataGiven' /\ PassPlaces'
  BY <1>1, <1>2 DEF PassInv, PassPlaces
<1>12. WindowShared'
  <2>1. \A g \in Groups : segs[g] # {} => g \in from..(End - 1) /\ g < next
    BY <1>2 DEF PassInv, WindowShared
  <2>2. \A g \in Groups : segs[g] \subseteq Matching(g)
    BY <1>2 DEF PassInv, WindowShared
  <2>3. ASSUME NEW v \in AWorkers, worker'[v] < Claims
        PROVE  /\ worker'[v] \in from..(End - 1) /\ worker'[v] < next
               /\ segs'[worker'[v]] = {}
               /\ \A u \in AWorkers : worker'[u] = worker'[v] => u = v
    <3>1. v # w /\ worker'[v] = worker[v] /\ worker[v] # k
      BY <1>3, <1>7, <2>3 DEF Claims
    <3>2. /\ worker[v] \in from..(End - 1) /\ worker[v] < next
          /\ segs[worker[v]] = {}
          /\ \A u \in AWorkers : worker[u] = worker[v] => u = v
      BY <1>5, <2>3, <3>1
    <3>3. worker[v] \in Groups
      BY <1>3, <1>4, <3>2 DEF Groups
    <3>4. Claims # worker[v]
      BY <1>3, <2>3, <3>1 DEF Claims
    <3> QED BY <1>7, <1>9, <3>1, <3>2, <3>3, <3>4
  <2>4. \A g \in Groups : segs'[g] # {} => g \in from..(End - 1) /\ g < next
    BY <1>6, <1>9, <2>1
  <2>5. \A g \in Groups : segs'[g] \subseteq Matching(g)
    BY <1>9, <2>2
  <2> QED BY <1>1, <1>2, <1>3, <2>3, <2>4, <2>5 DEF WindowShared
<1>13. EmittedOnce'
  <2>1. Out' = Out
    BY <1>2 DEF Out
  <2>2. ~Merges
    BY <1>2, <1>3 DEF Merges, Claims, Left, k
  <2>3. (\A p \in Out : p \in Img /\ IRank(p) < End) /\ (\A p \in Out : IRank(p) < from)
    BY <1>2, <2>2 DEF PassInv, EmittedOnce
  <2>4. ASSUME NEW p \in Out, NEW g \in Groups, NEW q \in segs'[g] PROVE Before(p, q)
    <3>1. CASE g = k
      <4>1. q \in Img /\ IRank(q) = k /\ p \in Img
        BY <1>3, <1>9, <2>3, <3>1, IRankIs
      <4>2. IRank(p) < from /\ IRank(p) \in Nat
        BY <1>3, <2>3, <4>1, IRankIs
      <4>3. IRank(p) < IRank(q)
        BY <1>3, <1>4, <1>6, <4>1, <4>2
      <4> QED BY <1>3, <4>1, <4>3, IRankIs
    <3>2. CASE g # k
      BY <1>2, <1>9, <3>2 DEF PassInv, EmittedOnce
    <3> QED BY <3>1, <3>2
  <2> QED BY <1>1, <1>2, <2>1, <2>3, <2>4 DEF PassInv, EmittedOnce
<1>14. NoneMissed'
  <2> SUFFICES ASSUME ~stop PROVE NoneMissed'
    BY <1>2 DEF NoneMissed
  <2>1. Out' = Out
    BY <1>2 DEF Out
  <2>2. (\E v \in AWorkers : worker'[v] = Left) => next >= End
    <3> SUFFICES ASSUME NEW v \in AWorkers, worker'[v] = Left PROVE next >= End
      OBVIOUS
    <3>1. v # w
      BY <1>3, <1>7 DEF Left, Claims
    <3> QED BY <1>2, <1>7, <3>1 DEF PassInv, NoneMissed
  <2>3. ASSUME NEW g \in from..(End - 1), g < next
        PROVE  (\E v \in AWorkers : worker'[v] = g) \/ Matching(g) \subseteq segs'[g] \cup Out
    <3>1. CASE g = k
      BY <1>9, <3>1
    <3>2. CASE g # k
      <4>1. g \in Groups /\ g # Claims
        BY <1>3, <1>4 DEF Groups, Claims
      <4>2. (\E v \in AWorkers : worker[v] = g) \/ Matching(g) \subseteq segs[g] \cup Out
        BY <1>2, <2>3 DEF PassInv, NoneMissed
      <4>3. ASSUME NEW v \in AWorkers, worker[v] = g PROVE worker'[v] = g
        BY <1>7, <3>2, <4>3 DEF k
      <4> QED BY <1>9, <3>2, <4>1, <4>2, <4>3
    <3> QED BY <3>1, <3>2
  <2>4. \A p \in ImgDue : IRank(p) < from => p \in Out
    BY <1>2 DEF PassInv, NoneMissed
  <2> QED BY <1>1, <1>2, <2>1, <2>2, <2>3, <2>4 DEF NoneMissed
<1>15. OrderKept'
  BY <1>2, OrderStays DEF PassInv
<1> QED BY <1>10, <1>11, <1>12, <1>13, <1>14, <1>15 DEF PassInv

\* A worker that sees the stop leaves; its group is lost.
LEMMA AbandonKept == ASSUME PassInv, NEW w \in AWorkers, Abandon(w) PROVE PassInv'
<1>1. /\ Img' = Img /\ Vid' = Vid /\ ImgDue' = ImgDue /\ VidDue' = VidDue /\ Due' = Due
      /\ ImageFiles' = ImageFiles /\ VideoFiles' = VideoFiles
      /\ (\A g : Matching(g)' = Matching(g))
      /\ (\A p : IRank(p)' = IRank(p))
      /\ DataGiven' = DataGiven /\ End' = End
  BY GivenStays DEF Abandon
<1>2. /\ stage = "window" /\ stage' = "window" /\ worker[w] < Claims /\ stop /\ stop'
      /\ worker' = [worker EXCEPT ![w] = Left]
      /\ UNCHANGED <<data, from, next, segs, passTodo, pending, flushing, seen, emitted, stop>>
  BY DEF Abandon
<1>3. worker \in [AWorkers -> 0..Left] /\ NFiles \in Nat
  BY PassAssumption DEF PassInv, PassTypes
<1>4. worker' \in [AWorkers -> 0..Left] /\ (\A v \in AWorkers \ {w} : worker'[v] = worker[v]) /\ worker'[w] = Left
  <2>1. Left \in 0..Left
    BY <1>3 DEF Left
  <2> QED BY <1>2, <1>3, <2>1
<1>5. PassTypes'
  BY <1>2, <1>4 DEF PassInv, PassTypes
<1>6. DataGiven' /\ PassPlaces'
  BY <1>1, <1>2 DEF PassInv, PassPlaces
<1>7. WindowShared'
  <2>1. ASSUME NEW v \in AWorkers, worker'[v] < Claims
        PROVE  /\ worker'[v] \in from..(End - 1) /\ worker'[v] < next
               /\ segs[worker'[v]] = {}
               /\ \A u \in AWorkers : worker'[u] = worker'[v] => u = v
    <3>1. v # w /\ worker'[v] = worker[v]
      BY <1>3, <1>4, <2>1 DEF Claims, Left
    <3>2. /\ worker[v] \in from..(End - 1) /\ worker[v] < next
          /\ segs[worker[v]] = {}
          /\ \A u \in AWorkers : worker[u] = worker[v] => u = v
      BY <1>2, <2>1, <3>1 DEF PassInv, WindowShared
    <3>3. Left # worker[v]
      BY <1>3, <2>1, <3>1 DEF Claims, Left
    <3> QED BY <1>4, <3>1, <3>2, <3>3
  <2> QED BY <1>1, <1>2, <2>1 DEF PassInv, WindowShared
<1>8. EmittedOnce'
  <2>1. Out' = Out
    BY <1>2 DEF Out
  <2>2. ~Merges
    BY <1>2, <1>3 DEF Merges, Claims, Left
  <2> QED BY <1>1, <1>2, <2>1, <2>2 DEF PassInv, EmittedOnce
<1>9. NoneMissed'
  BY <1>2 DEF NoneMissed
<1>10. OrderKept'
  BY <1>2, OrderStays DEF PassInv
<1> QED BY <1>5, <1>6, <1>7, <1>8, <1>9, <1>10 DEF PassInv

\* The next window, or the end of the images.
LEMMA OpenWindowKept == ASSUME PassInv, OpenWindow PROVE PassInv'
<1>1. /\ Img' = Img /\ Vid' = Vid /\ ImgDue' = ImgDue /\ VidDue' = VidDue /\ Due' = Due
      /\ ImageFiles' = ImageFiles /\ VideoFiles' = VideoFiles
      /\ (\A g : Matching(g)' = Matching(g))
      /\ (\A p : IRank(p)' = IRank(p) /\ VRank(p)' = VRank(p))
      /\ DataGiven' = DataGiven /\ (from' = from => End' = End)
  BY GivenStays DEF OpenWindow
<1>2. /\ stage = "images" /\ segs' = NoSegments
      /\ UNCHANGED <<data, passTodo, pending, flushing, seen, emitted, stop>>
      /\ IF from >= Cardinality(ImageFiles)
         THEN stage' = "videos" /\ from' = 0 /\ UNCHANGED <<next, worker>>
         ELSE stage' = "window" /\ next' = from /\ worker' = [w \in AWorkers |-> Claims] /\ from' = from
  BY DEF OpenWindow
<1>3. /\ from \in 0..NFiles /\ worker \in [AWorkers -> 0..Left] /\ NFiles \in Nat /\ DataGiven
      /\ Cardinality(ImageFiles) \in 0..NFiles /\ Cardinality(VideoFiles) \in 0..NFiles
  BY PassAssumption, IRankIs DEF PassInv, PassTypes
<1>4. segs' \in [Groups -> SUBSET PassPairs] /\ \A g \in Groups : segs'[g] = {}
  BY <1>2 DEF NoSegments
<1>5. worker' \in [AWorkers -> 0..Left] /\ from' \in 0..NFiles /\ (stage' = "window" => \A w \in AWorkers : worker'[w] = Claims)
  <2>1. Claims \in 0..Left
    BY <1>3 DEF Left, Claims
  <2> QED BY <1>2, <1>3, <2>1
<1>6. PassTypes'
  BY <1>2, <1>4, <1>5 DEF PassInv, PassTypes
<1>7. DataGiven' /\ PassPlaces'
  <2>1. 0 \in 0..Cardinality(VideoFiles) /\ (~(from >= Cardinality(ImageFiles)) => from < Cardinality(ImageFiles))
    BY <1>3
  <2> QED BY <1>1, <1>2, <2>1 DEF PassInv, PassPlaces
<1>8. WindowShared'
  <2> SUFFICES ASSUME stage' = "window" PROVE WindowShared'
    BY DEF WindowShared
  <2>1. next' = from /\ from' = from /\ from \in Nat /\ from <= from
    BY <1>2, <1>3
  <2>2. \A w \in AWorkers : ~(worker'[w] < Claims)
    BY <1>3, <1>5 DEF Claims
  <2> QED BY <1>4, <2>1, <2>2 DEF WindowShared
<1>9. EmittedOnce'
  <2>1. Out' = Out
    BY <1>2 DEF Out
  <2>2. \A p \in Out : p \in Img /\ IRank(p) < from
    BY <1>2 DEF PassInv, EmittedOnce
  <2>3. ASSUME stage' = "window" PROVE \A p \in Out : IRank(p) < End
    <3>1. from < End /\ End \in Nat
      BY <1>2, <1>3, <2>3, EndIs
    <3> QED BY <1>3, <2>2, <3>1, IRankIs
  <2> QED BY <1>1, <1>2, <1>4, <2>1, <2>2, <2>3 DEF PassInv, EmittedOnce
<1>10. NoneMissed'
  <2> SUFFICES ASSUME ~stop PROVE NoneMissed'
    BY <1>2 DEF NoneMissed
  <2>1. Out' = Out
    BY <1>2 DEF Out
  <2>2. \A p \in ImgDue : IRank(p) < from => p \in Out
    BY <1>2 DEF PassInv, NoneMissed
  <2>3. CASE stage' = "videos"
    <3>1. ImgDue \subseteq Out
      <4> SUFFICES ASSUME NEW p \in ImgDue PROVE p \in Out
        OBVIOUS
      <4>1. IRank(p) \in Nat /\ IRank(p) < Cardinality(ImageFiles) /\ from >= Cardinality(ImageFiles)
        BY <1>2, <1>3, <2>3, IRankIs, DueIs
      <4> QED BY <1>3, <2>2, <4>1
    <3>2. \A p \in VidDue : ~(VRank(p) < 0)
      BY <1>3, DueIs, IRankIs
    <3> QED BY <1>1, <1>2, <2>1, <2>3, <3>1, <3>2 DEF NoneMissed
  <2>4. CASE stage' = "window"
    <3>1. from' = from /\ next' = from /\ End' = End
      BY <1>1, <1>2, <2>4
    <3>2. \A w \in AWorkers : worker'[w] # Left
      BY <1>3, <1>5, <2>4 DEF Claims, Left
    <3>3. \A g \in from..(End - 1) : ~(g < from)
      BY <1>3
    <3> QED BY <1>1, <2>1, <2>2, <2>4, <3>1, <3>2, <3>3 DEF NoneMissed
  <2> QED BY <1>2, <2>3, <2>4
<1>11. OrderKept'
  BY <1>2, OrderStays DEF PassInv
<1> QED BY <1>6, <1>7, <1>8, <1>9, <1>10, <1>11 DEF PassInv

\* The next match of a window is emitted.
LEMMA EmitNextKept == ASSUME PassInv, EmitNext PROVE PassInv'
<1>1. /\ Img' = Img /\ Vid' = Vid /\ ImgDue' = ImgDue /\ VidDue' = VidDue /\ Due' = Due
      /\ ImageFiles' = ImageFiles /\ VideoFiles' = VideoFiles
      /\ (\A g : Matching(g)' = Matching(g))
      /\ (\A p : IRank(p)' = IRank(p))
      /\ DataGiven' = DataGiven /\ End' = End
  BY GivenStays DEF EmitNext
<1>2. PICK g \in Groups : /\ \A k \in Groups : k < g => segs[k] = {}
                          /\ \E p \in segs[g] :
                               /\ First(p, segs[g])
                               /\ emitted' = Append(emitted, p)
                               /\ segs' = [segs EXCEPT ![g] = @ \ {p}]
  BY DEF EmitNext
<1>3. PICK p \in segs[g] : /\ First(p, segs[g])
                           /\ emitted' = Append(emitted, p)
                           /\ segs' = [segs EXCEPT ![g] = @ \ {p}]
  BY <1>2
<1>4. /\ stage = "window" /\ stage' = "window" /\ Merges
      /\ UNCHANGED <<data, from, next, worker, passTodo, pending, flushing, seen, stop>>
  BY DEF EmitNext, Merges
<1>5. /\ from \in 0..NFiles /\ NFiles \in Nat /\ DataGiven /\ emitted \in Seq(PassPairs)
      /\ segs \in [Groups -> SUBSET PassPairs] /\ from < Cardinality(ImageFiles)
      /\ (data.start <= from \/ from = Cardinality(ImageFiles)) /\ data.start \in Nat
      /\ ~data.targeted
  BY <1>4, PassAssumption DEF PassInv, PassTypes, PassPlaces, DataGiven
<1>6. End \in Nat /\ from < End /\ End <= NFiles
  BY <1>5, EndIs
<1>7. /\ \A h \in Groups : segs[h] \subseteq Matching(h)
      /\ \A h \in Groups : segs[h] # {} => h \in from..(End - 1) /\ h < next
  BY <1>4 DEF PassInv, WindowShared
<1>8. p \in PassPairs /\ p \in Img /\ p \in data.good /\ IRank(p) = g /\ g \in from..(End - 1)
  BY <1>3, <1>5, <1>7, IRankIs
<1>9. p \in ImgDue /\ p \in Due
  <2>1. IRank(p) >= data.start
    BY <1>5, <1>6, <1>8
  <2>2. p \in ImgDue
    BY <1>8, <2>1 DEF ImgDue
  <2> QED BY <1>5, <2>2, DueIs
<1>10. \A q \in Out, h \in Groups : \A r \in segs[h] : Before(q, r)
  BY <1>4 DEF PassInv, EmittedOnce
<1>11. p \notin Out
  BY <1>3, <1>8, <1>10, PairIs
<1>12. /\ emitted' \in Seq(PassPairs) /\ Out' = Out \cup {p} /\ (IsInjective(emitted) => IsInjective(emitted'))
  BY <1>3, <1>5, <1>8, <1>11, Joined DEF Out
<1>13. /\ segs' \in [Groups -> SUBSET PassPairs] /\ segs'[g] = segs[g] \ {p}
       /\ \A h \in Groups : h # g => segs'[h] = segs[h]
  BY <1>3, <1>5
<1>14. \A h \in Groups : segs'[h] \subseteq segs[h] /\ segs[h] \subseteq segs'[h] \cup {p}
  BY <1>13
<1>15. PassTypes'
  BY <1>4, <1>12, <1>13 DEF PassInv, PassTypes
<1>16. DataGiven' /\ PassPlaces'
  BY <1>1, <1>4 DEF PassInv, PassPlaces
<1>17. \A w \in AWorkers : ~(worker[w] < Claims)
  BY <1>4, <1>5 DEF Merges, Left, Claims
<1>18. WindowShared'
  <2>1. next \in Nat /\ from <= next
    BY <1>4 DEF PassInv, WindowShared
  <2>2. \A h \in Groups : segs'[h] \subseteq Matching(h)
    BY <1>7, <1>14
  <2>3. \A h \in Groups : segs'[h] # {} => h \in from..(End - 1) /\ h < next
    BY <1>7, <1>14
  <2> QED BY <1>1, <1>4, <1>17, <2>1, <2>2, <2>3 DEF WindowShared
<1>19. EmittedOnce'
  <2>1. Merges'
    BY <1>4 DEF Merges
  <2>2. IsInjective(emitted') /\ Out' \subseteq Due
    BY <1>9, <1>12 DEF PassInv, EmittedOnce
  <2>3. \A q \in Out' : q \in Img /\ IRank(q) < End
    <3>1. \A q \in Out : q \in Img /\ IRank(q) < End
      BY <1>4 DEF PassInv, EmittedOnce
    <3>2. IRank(p) < End
      BY <1>5, <1>6, <1>8
    <3> QED BY <1>8, <1>12, <3>1, <3>2
  <2>4. ASSUME NEW q \in Out', NEW h \in Groups, NEW r \in segs'[h] PROVE Before(q, r)
    <3>1. r \in segs[h]
      BY <1>14, <2>4
    <3>2. CASE q \in Out
      BY <1>10, <3>1, <3>2
    <3>3. CASE q = p /\ h = g
      BY <1>3, <1>13, <2>4, <3>1, <3>3 DEF First
    <3>4. CASE q = p /\ h # g
      <4>1. ~(h < g) /\ g \in Nat /\ h \in Nat
        BY <1>2, <1>5, <3>1 DEF Groups
      <4>2. r \in Img /\ IRank(r) = h
        BY <1>5, <1>7, <3>1, IRankIs
      <4>3. IRank(p) < IRank(r)
        BY <1>8, <3>4, <4>1, <4>2
      <4> QED BY <1>5, <1>8, <3>4, <4>2, <4>3, IRankIs
    <3> QED BY <1>12, <2>4, <3>2, <3>3, <3>4
  <2> QED BY <1>1, <1>4, <2>1, <2>2, <2>3, <2>4 DEF EmittedOnce
<1>20. NoneMissed'
  <2> SUFFICES ASSUME ~stop PROVE NoneMissed'
    BY <1>4 DEF NoneMissed
  <2>1. (\E w \in AWorkers : worker[w] = Left) => next >= End
    BY <1>4 DEF PassInv, NoneMissed
  <2>2. ASSUME NEW h \in from..(End - 1), h < next
        PROVE  (\E w \in AWorkers : worker[w] = h) \/ Matching(h) \subseteq segs'[h] \cup Out'
    <3>1. h \in Groups
      BY <1>5, <1>6 DEF Groups
    <3>2. (\E w \in AWorkers : worker[w] = h) \/ Matching(h) \subseteq segs[h] \cup Out
      BY <1>4, <2>2 DEF PassInv, NoneMissed
    <3> QED BY <1>12, <1>14, <3>1, <3>2
  <2>3. \A q \in ImgDue : IRank(q) < from => q \in Out'
    BY <1>4, <1>12 DEF PassInv, NoneMissed
  <2> QED BY <1>1, <1>4, <2>1, <2>2, <2>3 DEF NoneMissed
<1>21. OrderKept'
  <2>1. \A q \in Out : Before(q, p)
    BY <1>3, <1>10
  <2>2. OrderKept
    BY DEF PassInv
  <2> QED BY <1>3, <1>4, <1>5, <1>8, <2>1, <2>2, OrderGrows
<1> QED BY <1>15, <1>16, <1>18, <1>19, <1>20, <1>21 DEF PassInv

\* A pass that sees the stop.
LEMMA CancelKept ==
    ASSUME PassInv, stop, Cancel, from' \in 0..NFiles, segs' \in [Groups -> SUBSET PassPairs],
           UNCHANGED <<data, worker, seen, emitted, stop>>
    PROVE  PassInv'
<1>1. Due' = Due /\ DataGiven' = DataGiven
  BY GivenStays
<1>2. stage' = "done" /\ passTodo' = {} /\ pending' = <<>> /\ flushing' = FALSE /\ stop'
  BY DEF Cancel
<1>3. PassTypes'
  <2>1. pending' \in Seq(PassPairs) /\ Len(pending') = 0 /\ PendingMax \in Nat \ {0}
    BY <1>2, PassAssumption
  <2>2. Len(pending') < PendingMax
    BY <2>1
  <2> QED BY <1>2, <2>1, <2>2 DEF PassInv, PassTypes
<1>4. DataGiven' /\ PassPlaces' /\ WindowShared' /\ NoneMissed'
  BY <1>1, <1>2 DEF PassInv, PassPlaces, WindowShared, NoneMissed
<1>5. EmittedOnce'
  <2>1. Out' = Out
    BY DEF Out
  <2> QED BY <1>1, <1>2, <2>1 DEF PassInv, EmittedOnce
<1>6. OrderKept'
  BY OrderStays DEF PassInv
<1> QED BY <1>3, <1>4, <1>5, <1>6 DEF PassInv

\* The end of a window, whose matches are all emitted.
LEMMA CloseWindowKept == ASSUME PassInv, CloseWindow PROVE PassInv'
<1>1. /\ Img' = Img /\ ImgDue' = ImgDue /\ VidDue' = VidDue /\ Due' = Due
      /\ ImageFiles' = ImageFiles /\ VideoFiles' = VideoFiles
      /\ (\A p : IRank(p)' = IRank(p))
      /\ DataGiven' = DataGiven
  BY GivenStays DEF CloseWindow
<1>2. /\ stage = "window" /\ Merges /\ segs = NoSegments /\ from' = End /\ segs' = NoSegments
      /\ UNCHANGED <<data, next, worker, seen, emitted, stop>>
      /\ IF stop THEN Cancel ELSE stage' = "images" /\ UNCHANGED <<passTodo, pending, flushing>>
  BY DEF CloseWindow, Merges, End
<1>3. /\ from \in 0..NFiles /\ NFiles \in Nat /\ DataGiven
      /\ from < Cardinality(ImageFiles) /\ Cardinality(ImageFiles) \in 0..NFiles
      /\ (data.start <= from \/ from = Cardinality(ImageFiles)) /\ data.start \in Nat
      /\ AWorkers # {} /\ SliceGroups \in Nat \ {0}
  BY <1>2, PassAssumption, IRankIs DEF PassInv, PassTypes, PassPlaces, DataGiven
<1>4. End \in Nat /\ from < End /\ End <= NFiles /\ End <= Cardinality(ImageFiles)
  BY <1>3, EndIs
<1>5. from' \in 0..NFiles /\ segs' \in [Groups -> SUBSET PassPairs] /\ \A g \in Groups : segs[g] = {}
  BY <1>2, <1>3, <1>4 DEF NoSegments
<1>6. CASE stop
  BY <1>2, <1>5, <1>6, CancelKept
<1>7. CASE ~stop
  <2>1. stage' = "images" /\ UNCHANGED <<passTodo, pending, flushing>>
    BY <1>2, <1>7
  <2>2. PassTypes'
    BY <1>2, <1>5, <2>1 DEF PassInv, PassTypes
  <2>3. DataGiven' /\ PassPlaces'
    <3>1. from' \in 0..Cardinality(ImageFiles) /\ data.start <= from'
      BY <1>2, <1>3, <1>4
    <3> QED BY <1>1, <1>2, <2>1, <3>1 DEF PassInv, PassPlaces
  <2>4. WindowShared'
    BY <2>1 DEF WindowShared
  <2>5. Out' = Out
    BY <1>2 DEF Out
  <2>6. EmittedOnce'
    BY <1>1, <1>2, <2>1, <2>5 DEF PassInv, EmittedOnce
  <2>7. next >= End
    <3>1. (\E w \in AWorkers : worker[w] = Left) => next >= End
      BY <1>2, <1>7 DEF PassInv, NoneMissed
    <3> QED BY <1>2, <1>3, <3>1 DEF Merges
  <2>8. NoneMissed'
    <3>1. ASSUME NEW p \in ImgDue, IRank(p) < End PROVE p \in Out
      <4>1. p \in Img /\ p \in data.good /\ IRank(p) \in Nat /\ p \in Matching(IRank(p))
        BY <1>3, DueIs, IRankIs DEF ImgDue
      <4>2. CASE IRank(p) < from
        BY <1>2, <1>7, <4>2 DEF PassInv, NoneMissed
      <4>3. CASE ~(IRank(p) < from)
        <5>1. IRank(p) \in from..(End - 1) /\ IRank(p) < next /\ IRank(p) \in Groups /\ IRank(p) # Left
          <6>1. next \in Nat
            BY <1>2 DEF PassInv, WindowShared
          <6> QED BY <1>3, <1>4, <2>7, <3>1, <4>1, <4>3, <6>1 DEF Groups, Left
        <5>2. (\E w \in AWorkers : worker[w] = IRank(p)) \/ Matching(IRank(p)) \subseteq segs[IRank(p)] \cup Out
          BY <1>2, <1>7, <5>1 DEF PassInv, NoneMissed
        <5>3. ~(\E w \in AWorkers : worker[w] = IRank(p))
          BY <1>2, <5>1 DEF Merges
        <5> QED BY <1>5, <4>1, <5>1, <5>2, <5>3
      <4> QED BY <4>2, <4>3
    <3> QED BY <1>1, <1>2, <2>1, <2>5, <3>1 DEF NoneMissed
  <2>9. OrderKept'
    BY <1>2, OrderStays DEF PassInv
  <2> QED BY <2>2, <2>3, <2>4, <2>6, <2>8, <2>9 DEF PassInv
<1> QED BY <1>6, <1>7

\* The next window of videos, or their end.
LEMMA OpenVideoWindowKept == ASSUME PassInv, OpenVideoWindow PROVE PassInv'
<1>1. /\ Img' = Img /\ Vid' = Vid /\ ImgDue' = ImgDue /\ VidDue' = VidDue /\ Due' = Due
      /\ ImageFiles' = ImageFiles /\ VideoFiles' = VideoFiles
      /\ (\A p : IRank(p)' = IRank(p) /\ VRank(p)' = VRank(p))
      /\ DataGiven' = DataGiven
  BY GivenStays DEF OpenVideoWindow
<1> DEFINE e == WindowEnd(VideoFiles)
           n == Cardinality(VideoFiles)
<1>2. /\ stage = "videos"
      /\ UNCHANGED <<data, next, worker, segs, pending, flushing, seen, emitted, stop>>
      /\ IF from >= n
         THEN stage' = "seed" /\ UNCHANGED <<from, passTodo>>
         ELSE /\ stage' = "videoWindow"
              /\ passTodo' = {p \in Vid : VRank(p) \in from..(e - 1)}
              /\ from' = e
  BY DEF OpenVideoWindow, Vid, VRank
<1>3. /\ DataGiven /\ n \in 0..NFiles /\ NFiles \in Nat /\ SliceGroups \in Nat \ {0}
      /\ from \in 0..n /\ Vid \in SUBSET PassPairs /\ data.full = Img \cup Vid /\ Img \cap Vid = {}
      /\ passTodo = {} /\ pending = <<>> /\ ToSet(pending) = {} /\ IsInjective(pending) /\ ~data.targeted
      /\ VidDue \in SUBSET Vid
  <2>1. passTodo = {} /\ pending = <<>> /\ ~data.targeted /\ DataGiven /\ from \in 0..n
    BY <1>2 DEF PassInv, PassPlaces
  <2>2. ToSet(pending) = {} /\ IsInjective(pending)
    BY <2>1 DEF ToSet, IsInjective
  <2> QED BY <2>1, <2>2, PassAssumption, IRankIs, FullIs, DueIs
<1>4. \A p \in Vid : VRank(p) \in Nat /\ VRank(p) < n
  BY <1>3, IRankIs
<1>5. ~(from >= n) => e \in Nat /\ from < e /\ e <= n
  BY <1>3 DEF WindowEnd
<1> HIDE DEF e, n
<1>6. PassTypes'
  <2>1. from' \in 0..NFiles /\ passTodo' \in SUBSET PassPairs
    BY <1>2, <1>3, <1>5
  <2> QED BY <1>2, <2>1 DEF PassInv, PassTypes
<1>7. DataGiven' /\ PassPlaces'
  <2>1. ~(from >= n) => e \in 0..n
    BY <1>3, <1>5
  <2> QED BY <1>1, <1>2, <1>3, <2>1 DEF PassInv, PassPlaces, n
<1>8. WindowShared'
  BY <1>2 DEF WindowShared
<1>9. Out' = Out /\ (\A p \in Out : p \in Img \/ (p \in Vid /\ VRank(p) < from))
  BY <1>2 DEF PassInv, EmittedOnce, Out
<1>10. EmittedOnce'
  <2>1. CASE from >= n
    <3>1. Out \subseteq data.full
      BY <1>3, <1>9
    <3> QED BY <1>1, <1>2, <1>9, <2>1, <3>1 DEF PassInv, EmittedOnce
  <2>2. CASE ~(from >= n)
    <3>1. \A p \in passTodo' : p \in Vid /\ p \notin Out /\ VRank(p) < e
      <4> SUFFICES ASSUME NEW p \in passTodo' PROVE p \in Vid /\ p \notin Out /\ VRank(p) < e
        OBVIOUS
      <4>1. p \in Vid /\ VRank(p) \in from..(e - 1)
        BY <1>2, <2>2
      <4>2. ~(VRank(p) < from) /\ VRank(p) < e
        BY <1>3, <1>5, <2>2, <4>1
      <4> QED BY <1>3, <1>9, <4>1, <4>2
    <3>2. \A p \in Out : p \in Img \/ (p \in Vid /\ VRank(p) < e)
      BY <1>3, <1>4, <1>5, <1>9, <2>2
    <3>3. stage' = "videoWindow" /\ from' = e /\ ToSet(pending') = {} /\ IsInjective(pending')
      BY <1>2, <1>3, <2>2
    <3> QED BY <1>1, <1>2, <1>9, <3>1, <3>2, <3>3 DEF PassInv, EmittedOnce
  <2> QED BY <2>1, <2>2
<1>11. NoneMissed'
  <2> SUFFICES ASSUME ~stop PROVE NoneMissed'
    BY <1>2 DEF NoneMissed
  <2>1. ImgDue \subseteq Out /\ \A p \in VidDue : VRank(p) < from => p \in Out
    BY <1>2, <1>3 DEF PassInv, NoneMissed
  <2>2. CASE from >= n
    <3>1. VidDue \subseteq Out
      BY <1>3, <1>4, <2>1, <2>2
    <3> QED BY <1>1, <1>2, <1>9, <2>1, <2>2, <3>1 DEF NoneMissed
  <2>3. CASE ~(from >= n)
    <3>1. \A p \in VidDue : VRank(p) < e => p \in Out \cup passTodo'
      <4> SUFFICES ASSUME NEW p \in VidDue, VRank(p) < e, ~(VRank(p) < from) PROVE p \in passTodo'
        BY <2>1
      <4>1. p \in Vid /\ VRank(p) \in from..(e - 1)
        BY <1>3, <1>4, <1>5, <2>3
      <4> QED BY <1>2, <2>3, <4>1
    <3>2. stage' = "videoWindow" /\ from' = e
      BY <1>2, <2>3
    <3> QED BY <1>1, <1>9, <2>1, <3>1, <3>2 DEF NoneMissed
  <2> QED BY <2>2, <2>3
<1>12. OrderKept'
  BY <1>2, OrderStays DEF PassInv
<1> QED BY <1>6, <1>7, <1>8, <1>10, <1>11, <1>12 DEF PassInv

\* The end of a window of videos.
LEMMA CloseVideoWindowKept == ASSUME PassInv, CloseVideoWindow PROVE PassInv'
<1>1. /\ Img' = Img /\ Vid' = Vid /\ ImgDue' = ImgDue /\ VidDue' = VidDue /\ Due' = Due
      /\ ImageFiles' = ImageFiles /\ VideoFiles' = VideoFiles
      /\ (\A p : IRank(p)' = IRank(p) /\ VRank(p)' = VRank(p))
      /\ DataGiven' = DataGiven
  BY GivenStays DEF CloseVideoWindow
<1>2. /\ stage = "videoWindow" /\ passTodo = {} /\ pending = <<>>
      /\ UNCHANGED <<data, from, next, worker, segs, seen, emitted, stop>>
      /\ IF stop THEN Cancel ELSE stage' = "videos" /\ UNCHANGED <<passTodo, pending, flushing>>
  BY DEF CloseVideoWindow
<1>3. CASE stop
  <2>1. from' \in 0..NFiles /\ segs' \in [Groups -> SUBSET PassPairs]
    BY <1>2 DEF PassInv, PassTypes
  <2> QED BY <1>2, <1>3, <2>1, CancelKept
<1>4. CASE ~stop
  <2>1. stage' = "videos" /\ UNCHANGED <<passTodo, pending, flushing>>
    BY <1>2, <1>4
  <2>2. PassTypes'
    BY <1>2, <2>1 DEF PassInv, PassTypes
  <2>7. ToSet(pending) = {} /\ ~flushing
    <3>1. Len(pending) = 0 /\ ToSet(pending) = {}
      BY <1>2 DEF ToSet
    <3> QED BY <3>1 DEF PassInv, PassTypes
  <2>3. DataGiven' /\ PassPlaces' /\ WindowShared'
    BY <1>1, <1>2, <2>1, <2>7 DEF PassInv, PassPlaces, WindowShared
  <2>4. Out' = Out
    BY <1>2 DEF Out
  <2>5. EmittedOnce' /\ NoneMissed'
    BY <1>1, <1>2, <2>1, <2>4, <2>7 DEF PassInv, EmittedOnce, NoneMissed
  <2>6. OrderKept'
    BY <1>2, OrderStays DEF PassInv
  <2> QED BY <2>2, <2>3, <2>5, <2>6 DEF PassInv
<1> QED BY <1>3, <1>4

\* The crop passes begin: the pairs of the full indexes are known.
LEMMA SeedKept == ASSUME PassInv, Seed PROVE PassInv'
<1>1. /\ Img' = Img /\ Vid' = Vid /\ ImgDue' = ImgDue /\ VidDue' = VidDue /\ Due' = Due /\ Known' = Known /\ Crops' = Crops
      /\ DataGiven' = DataGiven
  BY GivenStays DEF Seed
<1>2. /\ stage = "seed" /\ stage' = "crops" /\ seen' = Known /\ passTodo' = Crops
      /\ UNCHANGED <<data, from, next, worker, segs, pending, flushing, emitted, stop>>
  BY DEF Seed, Known, Crops
<1>3. DataGiven /\ ~data.targeted /\ pending = <<>>
  BY <1>2 DEF PassInv, PassPlaces
<1>4. /\ Known \in SUBSET PassPairs /\ Crops \in SUBSET PassPairs /\ Known \in SUBSET data.full
      /\ data.full = Img \cup Vid
  BY <1>3, CropsAre, FullIs DEF DataGiven
<1>5. PassTypes'
  BY <1>2, <1>4 DEF PassInv, PassTypes
<1>6. DataGiven' /\ PassPlaces' /\ WindowShared'
  BY <1>1, <1>2, <1>3 DEF PassInv, PassPlaces, WindowShared
<1>7. Out' = Out /\ ToSet(pending) = {} /\ IsInjective(pending)
  BY <1>2, <1>3 DEF Out, ToSet, IsInjective
<1>8. EmittedOnce'
  <2>1. ToSet(pending') = {} /\ IsInjective(pending')
    BY <1>2, <1>7
  <2>2. Out \subseteq data.full /\ IsInjective(emitted) /\ Out \subseteq Due
    BY <1>2 DEF PassInv, EmittedOnce
  <2> QED BY <1>1, <1>2, <1>7, <2>1, <2>2 DEF EmittedOnce
<1>9. NoneMissed'
  <2> SUFFICES ASSUME ~stop PROVE NoneMissed'
    BY <1>2 DEF NoneMissed
  <2>1. ImgDue \subseteq Out /\ VidDue \subseteq Out
    BY <1>2 DEF PassInv, NoneMissed
  <2>2. Known \cap Due \subseteq Out
    BY <1>3, <1>4, <2>1, DueIs
  <2> QED BY <1>1, <1>2, <1>7, <2>1, <2>2 DEF NoneMissed
<1>10. OrderKept'
  BY <1>2, OrderStays DEF PassInv
<1> QED BY <1>5, <1>6, <1>8, <1>9, <1>10 DEF PassInv

\* The end of a pass: nothing waits.
LEMMA FinishPassKept == ASSUME PassInv, FinishPass PROVE PassInv'
<1>1. Due' = Due /\ DataGiven' = DataGiven
  BY GivenStays DEF FinishPass
<1>2. /\ stage \in {"crops", "targeted"} /\ passTodo = {} /\ pending = <<>> /\ stage' = "done"
      /\ UNCHANGED <<data, from, next, worker, segs, passTodo, pending, flushing, seen, emitted, stop>>
  BY DEF FinishPass
<1>3. DataGiven /\ (stage = "crops" => ~data.targeted) /\ (stage = "targeted" => data.targeted)
  BY DEF PassInv, PassPlaces
<1>4. PassTypes'
  BY <1>2 DEF PassInv, PassTypes
<1>5. DataGiven' /\ PassPlaces' /\ WindowShared'
  BY <1>1, <1>2 DEF PassInv, PassPlaces, WindowShared
<1>6. Out' = Out /\ ToSet(pending) = {}
  BY <1>2 DEF Out, ToSet
<1>7. EmittedOnce'
  BY <1>1, <1>2, <1>6 DEF PassInv, EmittedOnce
<1>8. NoneMissed'
  <2> SUFFICES ASSUME ~stop, NEW p \in Due PROVE p \in Out
    BY <1>1, <1>2, <1>6 DEF NoneMissed
  <2>1. seen \cap Due \subseteq Out
    BY <1>2, <1>6 DEF PassInv, NoneMissed
  <2>2. CASE stage = "crops"
    <3>1. ImgDue \subseteq Out /\ VidDue \subseteq Out /\ Crops \subseteq seen
      BY <1>2, <2>2 DEF PassInv, NoneMissed
    <3>2. CASE p \in data.full
      BY <1>3, <2>2, <3>1, <3>2, DueIs
    <3>3. CASE p \notin data.full
      BY <1>3, <2>1, <2>2, <3>1, <3>3, CropsAre
    <3> QED BY <3>2, <3>3
  <2>3. CASE stage = "targeted"
    <3>1. Asked \subseteq seen
      BY <1>2, <2>3 DEF PassInv, NoneMissed
    <3> QED BY <1>3, <2>1, <2>3, <3>1, DueIs
  <2> QED BY <1>2, <2>2, <2>3
<1>9. OrderKept'
  BY <1>2, OrderStays DEF PassInv
<1> QED BY <1>4, <1>5, <1>7, <1>8, <1>9 DEF PassInv

\* A poll of a sequential loop sees the stop.
LEMMA SeeStopKept == ASSUME PassInv, SeeStop PROVE PassInv'
<1>1. from' \in 0..NFiles /\ segs' \in [Groups -> SUBSET PassPairs]
  BY DEF SeeStop, PassInv, PassTypes
<1> QED BY <1>1, CancelKept DEF SeeStop

\* The next of the pairs that wait is compared, or left out by a stop.
LEMMA FlushNextKept == ASSUME PassInv, FlushNext PROVE PassInv'
<1>1. /\ Img' = Img /\ Vid' = Vid /\ ImgDue' = ImgDue /\ VidDue' = VidDue /\ Due' = Due /\ Known' = Known /\ Crops' = Crops
      /\ Asked' = Asked /\ DataGiven' = DataGiven
      /\ (\A p : IRank(p)' = IRank(p) /\ VRank(p)' = VRank(p))
  BY GivenStays DEF FlushNext
<1> DEFINE h == Head(pending)
<1>2. /\ Sequential /\ pending # <<>>
      /\ \/ emitted' = IF h \in data.good THEN Append(emitted, h) ELSE emitted
         \/ stop /\ emitted' = emitted
      /\ pending' = Tail(pending)
      /\ flushing' = (flushing /\ Len(pending) > 1)
      /\ UNCHANGED <<data, stage, from, next, worker, segs, passTodo, seen, stop>>
  BY DEF FlushNext
<1>3. stage \in {"videoWindow", "crops", "targeted"}
  BY <1>2 DEF Sequential
<1>4. /\ DataGiven /\ pending \in Seq(PassPairs) /\ emitted \in Seq(PassPairs)
      /\ (stage \in {"videoWindow", "crops"} => ~data.targeted) /\ (stage = "targeted" => data.targeted)
      /\ (\A p \in Img : ~IsVideo(p)) /\ data.near \cap data.gated = {} /\ (\A p \in data.gated : IsVideo(p))
  <2>1. DataGiven
    BY DEF PassInv
  <2> QED BY <1>3, <2>1, FullIs DEF PassInv, PassTypes, PassPlaces, DataGiven
<1>5. /\ h \in PassPairs /\ pending' \in Seq(PassPairs) /\ Len(pending') = Len(pending) - 1
      /\ ToSet(pending) = {h} \cup ToSet(pending')
      /\ (IsInjective(pending) => IsInjective(pending') /\ h \notin ToSet(pending'))
  BY <1>2, <1>4, TakenOff
<1>6. /\ IsInjective(pending) /\ IsInjective(emitted) /\ Out \subseteq Due
      /\ \A p \in ToSet(pending) : p \in data.gated /\ p \notin Out /\ (p \in data.good => p \in Due)
      /\ stage = "videoWindow" =>
           /\ \A p \in Out : p \in Img \/ (p \in Vid /\ VRank(p) < from)
           /\ \A p \in passTodo : p \in Vid /\ p \notin Out /\ VRank(p) < from
           /\ \A p \in ToSet(pending) : p \in Vid /\ p \notin passTodo /\ VRank(p) < from
      /\ stage = "crops" => Out \subseteq data.full \cup seen /\ Known \subseteq seen /\ passTodo \subseteq Crops
      /\ stage = "targeted" => Out \subseteq seen /\ passTodo \subseteq Asked
      /\ stage \in {"crops", "targeted"} => ToSet(pending) \subseteq seen
  BY <1>3 DEF PassInv, EmittedOnce
<1>7. h \in data.gated /\ h \notin Out /\ (h \in data.good => h \in Due) /\ h \notin Img /\ h \notin data.near
  BY <1>4, <1>5, <1>6
<1>8. \/ emitted' = emitted /\ (h \in data.good => stop)
      \/ emitted' = Append(emitted, h) /\ h \in data.good
  BY <1>2
<1> HIDE DEF h
<1>9. /\ emitted' \in Seq(PassPairs) /\ IsInjective(emitted')
      /\ Out' = Out \/ (Out' = Out \cup {h} /\ h \in data.good)
      /\ (~stop /\ h \in data.good => h \in Out')
  <2>1. CASE emitted' = emitted /\ (h \in data.good => stop)
    <3>1. Out' = Out
      BY <2>1 DEF Out
    <3> QED BY <1>4, <1>6, <2>1, <3>1
  <2>2. CASE emitted' = Append(emitted, h) /\ h \in data.good
    <3>1. /\ Append(emitted, h) \in Seq(PassPairs) /\ ToSet(Append(emitted, h)) = Out \cup {h}
          /\ IsInjective(Append(emitted, h))
      BY <1>4, <1>5, <1>6, <1>7, Joined DEF Out
    <3>2. Out' = Out \cup {h}
      BY <2>2, <3>1 DEF Out
    <3> QED BY <2>2, <3>1, <3>2
  <2> QED BY <1>8, <2>1, <2>2
<1>10. PassTypes'
  <2>1. Len(pending) \in Nat /\ PendingMax \in Nat /\ flushing \in BOOLEAN
    BY <1>4, PassAssumption DEF PassInv, PassTypes
  <2>2. Len(pending) <= PendingMax
    BY <2>1 DEF PassInv, PassTypes
  <2>3. Len(pending) # 0
    BY <1>2, <1>4, EmptySeq
  <2>4. IF flushing' THEN 0 < Len(pending') /\ Len(pending') <= PendingMax ELSE Len(pending') < PendingMax
    <3> DEFINE n == Len(pending)
    <3>1. n \in Nat /\ n <= PendingMax /\ n # 0 /\ Len(pending') = n - 1
      BY <1>5, <2>1, <2>2, <2>3
    <3>2. flushing' => n > 1
      BY <1>2
    <3> HIDE DEF n
    <3>3. CASE flushing'
      BY <2>1, <3>1, <3>2, <3>3
    <3>4. CASE ~flushing'
      BY <2>1, <3>1, <3>4
    <3> QED BY <3>3, <3>4
  <2> QED BY <1>2, <1>5, <1>9, <2>1, <2>4 DEF PassInv, PassTypes
<1>11. DataGiven' /\ PassPlaces' /\ WindowShared'
  BY <1>1, <1>2, <1>3 DEF PassInv, PassPlaces, WindowShared, VideoFiles, ImageFiles
<1>12. EmittedOnce'
  <2>1. Out' \subseteq Due
    BY <1>6, <1>7, <1>9
  <2>2. \A p \in ToSet(pending') : p \in data.gated /\ p \notin Out' /\ (p \in data.good => p \in Due)
    BY <1>5, <1>6, <1>9
  <2>3. CASE stage = "videoWindow"
    <3>1. h \in Vid /\ h \notin passTodo /\ VRank(h) < from
      BY <1>5, <1>6, <2>3
    <3>2. \A p \in Out' : p \in Img \/ (p \in Vid /\ VRank(p) < from)
      BY <1>6, <1>9, <2>3, <3>1
    <3>3. \A p \in passTodo : p \in Vid /\ p \notin Out' /\ VRank(p) < from
      BY <1>6, <1>9, <2>3, <3>1
    <3>4. \A p \in ToSet(pending') : p \in Vid /\ p \notin passTodo /\ VRank(p) < from
      BY <1>5, <1>6, <2>3
    <3> QED BY <1>1, <1>2, <1>5, <1>6, <1>9, <2>1, <2>2, <2>3, <3>2, <3>3, <3>4 DEF EmittedOnce
  <2>4. CASE stage \in {"crops", "targeted"}
    <3>1. h \in seen /\ ToSet(pending') \subseteq seen
      BY <1>5, <1>6, <2>4
    <3>2. Out' \subseteq Out \cup seen
      BY <1>9, <3>1
    <3>3. /\ stage = "crops" => Out' \subseteq data.full \cup seen /\ Known \subseteq seen /\ passTodo \subseteq Crops
          /\ stage = "targeted" => Out' \subseteq seen /\ passTodo \subseteq Asked
      BY <1>6, <3>2
    <3> QED BY <1>1, <1>2, <1>5, <1>6, <1>9, <2>1, <2>2, <2>4, <3>1, <3>3 DEF EmittedOnce
  <2> QED BY <1>3, <2>3, <2>4
<1>13. NoneMissed'
  <2> SUFFICES ASSUME ~stop PROVE NoneMissed'
    BY <1>2 DEF NoneMissed
  <2>1. Out \subseteq Out' /\ ToSet(pending) = {h} \cup ToSet(pending')
    BY <1>5, <1>9
  <2>2. CASE stage = "videoWindow"
    <3>1. ImgDue \subseteq Out /\ \A p \in VidDue : VRank(p) < from => p \in Out \cup passTodo \cup ToSet(pending)
      BY <2>2 DEF PassInv, NoneMissed
    <3>2. h \in VidDue => h \in Out'
      BY <1>7, <1>9 DEF VidDue
    <3>3. ImgDue \subseteq Out' /\ \A p \in VidDue : VRank(p) < from => p \in Out' \cup passTodo \cup ToSet(pending')
      BY <2>1, <3>1, <3>2
    <3> QED BY <1>1, <1>2, <2>2, <3>3 DEF NoneMissed
  <2>3. CASE stage \in {"crops", "targeted"}
    <3>1. /\ stage = "crops" => ImgDue \subseteq Out /\ VidDue \subseteq Out /\ Crops \subseteq passTodo \cup seen
          /\ stage = "targeted" => Asked \subseteq passTodo \cup seen
          /\ seen \cap Due \subseteq Out \cup ToSet(pending)
      BY <2>3 DEF PassInv, NoneMissed
    <3>2. h \in Due => h \in data.good
      BY <1>7 DEF Due
    <3>3. seen \cap Due \subseteq Out' \cup ToSet(pending')
      BY <1>9, <2>1, <3>1, <3>2
    <3> QED BY <1>1, <1>2, <2>1, <2>3, <3>1, <3>3 DEF NoneMissed
  <2> QED BY <1>3, <2>2, <2>3
<1>14. OrderKept'
  <2>1. OrderKept /\ data' = data
    BY <1>2 DEF PassInv
  <2>2. CASE emitted' = emitted
    BY <2>1, <2>2, OrderStays
  <2>3. CASE emitted' = Append(emitted, h)
    BY <1>4, <1>5, <1>7, <2>1, <2>3, OrderGrows
  <2> QED BY <1>8, <2>2, <2>3
<1> QED BY <1>10, <1>11, <1>12, <1>13, <1>14 DEF PassInv

\* A pair of the crop passes or of a targeted pass that was not seen before.
LEMMA LookedAt ==
    ASSUME PassInv, stage \in {"crops", "targeted"}, NEW p \in passTodo, p \notin seen
    PROVE  /\ p \notin Out /\ p \notin ToSet(pending) /\ (IsImage(p) <=> ~IsVideo(p))
           /\ (stage = "crops" => p \notin data.full)
           /\ p \in Due <=> Included(p) /\ p \in data.near \cup data.good
<1>1. DataGiven /\ (stage = "crops" => ~data.targeted) /\ (stage = "targeted" => data.targeted)
  BY DEF PassInv, PassPlaces
<1>2. /\ ToSet(pending) \subseteq seen
      /\ stage = "crops" => Out \subseteq data.full \cup seen /\ Known \subseteq seen /\ passTodo \subseteq Crops
      /\ stage = "targeted" => Out \subseteq seen /\ passTodo \subseteq Asked
  BY DEF PassInv, EmittedOnce
<1>3. ~(IsVideo(p) /\ IsImage(p))
  BY DEF IsVideo, IsImage
<1>4. CASE stage = "crops"
  <2>1. p \in Crops /\ p \in data.crop /\ p \notin data.full
    BY <1>1, <1>2, <1>4, CropsAre
  <2>2. IsVideo(p) \/ IsImage(p)
    BY <1>1, <2>1 DEF DataGiven
  <2>3. Included(p)
    BY <1>1, <1>4 DEF Included
  <2>4. p \in Due <=> p \in data.near \cup data.good
    BY <1>1, <1>4, <2>1, DueIs
  <2> QED BY <1>2, <1>3, <1>4, <2>1, <2>2, <2>3, <2>4
<1>5. CASE stage = "targeted"
  <2>1. p \in Asked /\ p \in data.full \cup data.crop
    BY <1>2, <1>5 DEF Asked
  <2>2. IsVideo(p) \/ IsImage(p)
    BY <1>1, <2>1 DEF DataGiven
  <2>3. p \in Due <=> Included(p) /\ p \in data.near \cup data.good
    BY <1>1, <1>5, <2>1, DueIs
  <2> QED BY <1>2, <1>3, <1>5, <2>1, <2>2, <2>3
<1> QED BY <1>4, <1>5

\* One candidate pair is processed.
LEMMA ProcessKept == ASSUME PassInv, Process PROVE PassInv'
<1>1. /\ Img' = Img /\ Vid' = Vid /\ ImgDue' = ImgDue /\ VidDue' = VidDue /\ Due' = Due /\ Known' = Known /\ Crops' = Crops
      /\ Asked' = Asked /\ DataGiven' = DataGiven
      /\ (\A p : IRank(p)' = IRank(p) /\ VRank(p)' = VRank(p))
      /\ ImageFiles' = ImageFiles /\ VideoFiles' = VideoFiles
  BY GivenStays DEF Process
<1>2. PICK p \in passTodo :
       LET known == stage # "videoWindow" /\ p \in seen
           waits == ~known /\ Included(p) /\ p \in data.gated
           matches == ~known /\ Included(p) /\ (p \in data.near \/ (IsImage(p) /\ p \in data.good))
       IN /\ passTodo' = passTodo \ {p}
          /\ seen' = IF stage = "videoWindow" THEN seen ELSE seen \cup {p}
          /\ pending' = IF waits THEN Append(pending, p) ELSE pending
          /\ flushing' = (waits /\ Len(pending) + 1 >= PendingMax)
          /\ emitted' = IF matches THEN Append(emitted, p) ELSE emitted
  BY DEF Process
<1> DEFINE known == stage # "videoWindow" /\ p \in seen
           waits == ~known /\ Included(p) /\ p \in data.gated
           matches == ~known /\ Included(p) /\ (p \in data.near \/ (IsImage(p) /\ p \in data.good))
<1>3. /\ passTodo' = passTodo \ {p}
      /\ seen' = IF stage = "videoWindow" THEN seen ELSE seen \cup {p}
      /\ pending' = IF waits THEN Append(pending, p) ELSE pending
      /\ flushing' = (waits /\ Len(pending) + 1 >= PendingMax)
      /\ emitted' = IF matches THEN Append(emitted, p) ELSE emitted
  BY <1>2
<1>4. stage \in {"videoWindow", "crops", "targeted"} /\ ~flushing /\ UNCHANGED <<data, stage, from, next, worker, segs, stop>>
  BY DEF Process, Sequential
<1>5. /\ DataGiven /\ pending \in Seq(PassPairs) /\ emitted \in Seq(PassPairs) /\ p \in PassPairs
      /\ passTodo \in SUBSET PassPairs /\ seen \in SUBSET PassPairs
      /\ (stage \in {"videoWindow", "crops"} => ~data.targeted) /\ (stage = "targeted" => data.targeted)
      /\ Len(pending) \in Nat /\ Len(pending) < PendingMax /\ PendingMax \in Nat \ {0}
      /\ OrderKept
  BY <1>4, PassAssumption DEF PassInv, PassTypes, PassPlaces
<1>6. /\ data.full = Img \cup Vid /\ Img \cap Vid = {} /\ VidDue \in SUBSET Vid
      /\ (\A q \in Vid : IsVideo(q) /\ ~IsImage(q))
      /\ data.near \cap data.gated = {} /\ (\A q \in data.near \cup data.gated : IsVideo(q))
      /\ (\A q \in data.good : IsVideo(q) => q \in data.gated)
      /\ (\A q : ~(IsVideo(q) /\ IsImage(q)))
  BY <1>5, FullIs, DueIs DEF DataGiven, IsVideo, IsImage
<1>7. /\ IsInjective(emitted) /\ Out \subseteq Due /\ IsInjective(pending)
      /\ \A q \in ToSet(pending) : q \in data.gated /\ q \notin Out /\ (q \in data.good => q \in Due)
  BY <1>4 DEF PassInv, EmittedOnce
\* What is said of the pair, in either stage.
<1>8. ~known =>
        /\ p \notin Out /\ p \notin ToSet(pending) /\ (IsImage(p) <=> ~IsVideo(p))
        /\ (p \in Due <=> Included(p) /\ p \in data.near \cup data.good)
        /\ (~data.targeted => p \notin Img)
  <2>1. CASE stage = "videoWindow"
    <3>1. p \in Vid /\ p \notin Out /\ p \notin ToSet(pending)
      BY <2>1 DEF PassInv, EmittedOnce
    <3>2. Included(p) /\ p \notin Img /\ IsVideo(p) /\ ~IsImage(p) /\ ~data.targeted
      BY <1>5, <1>6, <2>1, <3>1 DEF Included
    <3>3. p \in Due <=> p \in data.near \cup data.good
      <4>1. p \in VidDue <=> p \in data.near \cup data.good
        BY <3>1 DEF VidDue
      <4>2. p \in Due => p \in data.near \cup data.good
        BY DEF Due
      <4> QED BY <1>5, <3>2, <4>1, <4>2, DueIs
    <3> QED BY <3>1, <3>2, <3>3
  <2>2. CASE stage \in {"crops", "targeted"}
    <3>1. ~known => p \notin seen
      BY <2>2
    <3>2. stage = "crops" /\ p \notin data.full => p \notin Img
      BY <1>6
    <3> QED BY <1>5, <2>2, <3>1, <3>2, LookedAt
  <2> QED BY <1>4, <2>1, <2>2
<1>9. /\ waits => ~known /\ p \notin Out /\ p \notin ToSet(pending) /\ p \in data.gated /\ (p \in data.good => p \in Due)
      /\ matches => ~known /\ p \notin Out /\ p \notin ToSet(pending) /\ p \in Due /\ (~data.targeted => p \notin Img)
      /\ ~(waits /\ matches)
      /\ ~known /\ p \in Due => waits \/ matches
  BY <1>6, <1>8
<1> HIDE DEF known, waits, matches
<1>10. /\ IF matches THEN Out' = Out \cup {p} ELSE Out' = Out
       /\ IsInjective(emitted') /\ emitted' \in Seq(PassPairs)
  <2>1. CASE matches
    BY <1>3, <1>5, <1>7, <1>9, <2>1, Joined DEF Out
  <2>2. CASE ~matches
    BY <1>3, <1>5, <1>7, <2>2 DEF Out
  <2> QED BY <2>1, <2>2
<1>11. /\ IF waits THEN ToSet(pending') = ToSet(pending) \cup {p} ELSE ToSet(pending') = ToSet(pending)
       /\ IsInjective(pending') /\ pending' \in Seq(PassPairs)
       /\ Len(pending') = IF waits THEN Len(pending) + 1 ELSE Len(pending)
  <2>1. CASE waits
    <3>1. pending' = Append(pending, p)
      BY <1>3, <2>1
    <3>2. Len(Append(pending, p)) = Len(pending) + 1
      BY <1>5, AppendProperties
    <3>3. ToSet(pending') = ToSet(pending) \cup {p} /\ IsInjective(pending') /\ pending' \in Seq(PassPairs)
      BY <1>5, <1>7, <1>9, <2>1, <3>1, Joined
    <3> QED BY <2>1, <3>1, <3>2, <3>3
  <2>2. CASE ~waits
    BY <1>3, <1>5, <1>7, <2>2
  <2> QED BY <2>1, <2>2
<1>12. PassTypes'
  <2>1. passTodo' \in SUBSET PassPairs /\ seen' \in SUBSET PassPairs
    BY <1>3, <1>5
  <2>2. flushing' \in BOOLEAN
    BY <1>3 DEF waits
  <2>3. IF flushing' THEN 0 < Len(pending') /\ Len(pending') <= PendingMax ELSE Len(pending') < PendingMax
    <3> DEFINE n == Len(pending)
    <3>1. n \in Nat /\ n < PendingMax /\ PendingMax \in Nat /\ Len(pending') = IF waits THEN n + 1 ELSE n
      BY <1>5, <1>11
    <3>2. flushing' <=> (waits /\ n + 1 >= PendingMax)
      BY <1>3
    <3> HIDE DEF n
    <3>3. CASE waits
      BY <3>1, <3>2, <3>3
    <3>4. CASE ~waits
      BY <3>1, <3>2, <3>4
    <3> QED BY <3>3, <3>4
  <2> QED BY <1>4, <1>10, <1>11, <2>1, <2>2, <2>3 DEF PassInv, PassTypes
<1>13. DataGiven' /\ PassPlaces' /\ WindowShared'
  BY <1>1, <1>4 DEF PassInv, PassPlaces, WindowShared
<1>14. OrderKept'
  <2>1. CASE matches
    BY <1>3, <1>4, <1>5, <1>9, <2>1, OrderGrows
  <2>2. CASE ~matches
    BY <1>3, <1>4, <1>5, <2>2, OrderStays
  <2> QED BY <2>1, <2>2
\* What is emitted and what waits stay apart.
<1>15. /\ Out' \subseteq Due /\ Out \subseteq Out' /\ ToSet(pending) \subseteq ToSet(pending')
       /\ \A q \in ToSet(pending') : q \in data.gated /\ q \notin Out' /\ (q \in data.good => q \in Due)
  <2>1. Out' \subseteq Due /\ Out \subseteq Out' /\ ToSet(pending) \subseteq ToSet(pending')
    BY <1>7, <1>9, <1>10, <1>11
  <2>2. ASSUME NEW q \in ToSet(pending') PROVE q \in data.gated /\ q \notin Out' /\ (q \in data.good => q \in Due)
    <3>1. CASE waits /\ q = p
      BY <1>9, <1>10, <3>1
    <3>2. CASE q \in ToSet(pending)
      <4>1. matches => q # p
        BY <1>9, <3>2
      <4> QED BY <1>7, <1>10, <3>2, <4>1
    <3> QED BY <1>11, <3>1, <3>2
  <2> QED BY <2>1, <2>2
<1>16. CASE stage = "videoWindow"
  <2>1. ~known
    BY <1>16 DEF known
  <2>2. /\ \A q \in Out : q \in Img \/ (q \in Vid /\ VRank(q) < from)
        /\ \A q \in passTodo : q \in Vid /\ q \notin Out /\ VRank(q) < from
        /\ \A q \in ToSet(pending) : q \in Vid /\ q \notin passTodo /\ VRank(q) < from
    BY <1>16 DEF PassInv, EmittedOnce
  <2>3. EmittedOnce'
    <3>1. \A q \in Out' : q \in Img \/ (q \in Vid /\ VRank(q) < from)
      BY <1>10, <2>2
    <3>2. \A q \in passTodo' : q \in Vid /\ q \notin Out' /\ VRank(q) < from
      BY <1>3, <1>10, <2>2
    <3>3. \A q \in ToSet(pending') : q \in Vid /\ q \notin passTodo' /\ VRank(q) < from
      BY <1>3, <1>11, <2>2
    <3> QED BY <1>1, <1>4, <1>10, <1>11, <1>15, <1>16, <3>1, <3>2, <3>3 DEF EmittedOnce
  <2>4. NoneMissed'
    <3> SUFFICES ASSUME ~stop PROVE NoneMissed'
      BY <1>4 DEF NoneMissed
    <3>1. ImgDue \subseteq Out /\ \A q \in VidDue : VRank(q) < from => q \in Out \cup passTodo \cup ToSet(pending)
      BY <1>16 DEF PassInv, NoneMissed
    <3>2. p \in VidDue => p \in Due
      BY <1>5, <1>16, DueIs
    <3>3. p \in VidDue => p \in Out' \cup ToSet(pending')
      BY <1>9, <1>10, <1>11, <2>1, <3>2
    <3>4. /\ ImgDue \subseteq Out'
          /\ \A q \in VidDue : VRank(q) < from => q \in Out' \cup passTodo' \cup ToSet(pending')
      BY <1>3, <1>15, <3>1, <3>3
    <3> QED BY <1>1, <1>4, <1>16, <3>4 DEF NoneMissed
  <2> QED BY <1>12, <1>13, <1>14, <2>3, <2>4 DEF PassInv
<1>17. CASE stage \in {"crops", "targeted"}
  <2>1. seen' = seen \cup {p} /\ (known <=> p \in seen)
    BY <1>3, <1>17 DEF known
  <2>2. /\ stage = "crops" => Out \subseteq data.full \cup seen /\ Known \subseteq seen /\ passTodo \subseteq Crops
        /\ stage = "targeted" => Out \subseteq seen /\ passTodo \subseteq Asked
        /\ ToSet(pending) \subseteq seen
    BY <1>17 DEF PassInv, EmittedOnce
  <2>3. EmittedOnce'
    <3>1. Out' \subseteq Out \cup seen' /\ seen \subseteq seen' /\ passTodo' \subseteq passTodo /\ ToSet(pending') \subseteq seen'
      BY <1>3, <1>10, <1>11, <2>1, <2>2
    <3>2. /\ stage = "crops" => Out' \subseteq data.full \cup seen' /\ Known \subseteq seen' /\ passTodo' \subseteq Crops
          /\ stage = "targeted" => Out' \subseteq seen' /\ passTodo' \subseteq Asked
      BY <2>2, <3>1
    <3> QED BY <1>1, <1>4, <1>10, <1>11, <1>15, <1>17, <3>1, <3>2 DEF EmittedOnce
  <2>4. NoneMissed'
    <3> SUFFICES ASSUME ~stop PROVE NoneMissed'
      BY <1>4 DEF NoneMissed
    <3>1. /\ stage = "crops" => ImgDue \subseteq Out /\ VidDue \subseteq Out /\ Crops \subseteq passTodo \cup seen
          /\ stage = "targeted" => Asked \subseteq passTodo \cup seen
          /\ seen \cap Due \subseteq Out \cup ToSet(pending)
      BY <1>17 DEF PassInv, NoneMissed
    <3>2. passTodo \cup seen \subseteq passTodo' \cup seen'
      BY <1>3, <2>1
    <3>3. seen' \cap Due \subseteq Out' \cup ToSet(pending')
      <4> SUFFICES ASSUME NEW q \in Due, q \in seen' PROVE q \in Out' \cup ToSet(pending')
        OBVIOUS
      <4>1. CASE q \in seen
        BY <1>15, <3>1, <4>1
      <4>2. CASE q \notin seen /\ q = p
        BY <1>9, <1>10, <1>11, <2>1, <4>2
      <4> QED BY <2>1, <4>1, <4>2
    <3>4. /\ stage = "crops" => ImgDue \subseteq Out' /\ VidDue \subseteq Out' /\ Crops \subseteq passTodo' \cup seen'
          /\ stage = "targeted" => Asked \subseteq passTodo' \cup seen'
      BY <1>15, <3>1, <3>2
    <3> QED BY <1>1, <1>4, <1>17, <3>3, <3>4 DEF NoneMissed
  <2> QED BY <1>12, <1>13, <1>14, <2>3, <2>4 DEF PassInv
<1> QED BY <1>4, <1>16, <1>17

\* At the start nothing is emitted and nothing is seen.
LEMMA PassInvInit == ASSUME AnalyzeInit PROVE PassInv
<1>1. /\ NFiles \in Nat /\ SliceGroups \in Nat \ {0} /\ PendingMax \in Nat \ {0} /\ VideoSets \in SUBSET SUBSET PassFiles
  BY PassAssumption
<1>2. DataGiven
  <2>1. PICK videos \in VideoSets :
     LET same == {p \in PassPairs : (p[1] \in videos) = (p[2] \in videos)} IN
     \E full \in SUBSET same, crop \in SUBSET same : \E v \in Said(videos, full \cup crop) :
       Given(videos, full, crop, v)
    BY DEF AnalyzeInit
  <2> DEFINE same == {p \in PassPairs : (p[1] \in videos) = (p[2] \in videos)}
  <2>2. PICK full \in SUBSET same, crop \in SUBSET same : \E v \in Said(videos, full \cup crop) :
       Given(videos, full, crop, v)
    BY <2>1
  <2>3. videos \in SUBSET PassFiles /\ full \in SUBSET PassPairs /\ crop \in SUBSET PassPairs
    BY <1>1
  <2>4. \A p \in full \cup crop : (p[1] \in videos) = (p[2] \in videos)
    OBVIOUS
  <2> HIDE DEF same
  <2>5. PICK v \in Said(videos, full \cup crop) : Given(videos, full, crop, v)
    BY <2>2
  <2>6. PICK targeted \in BOOLEAN, changed \in SUBSET PassFiles, skipBoth \in BOOLEAN, start \in 0..NFiles :
         /\ IF targeted THEN start = 0 ELSE changed = {} /\ ~skipBoth
         /\ data = [videos |-> videos, full |-> full, crop |-> crop,
                    near |-> v.near, gated |-> v.gated, good |-> v.good,
                    targeted |-> targeted, changed |-> changed, skipBoth |-> skipBoth, start |-> start]
    BY <2>5 DEF Given
  <2>7. /\ v.near \in SUBSET (full \cup crop) /\ v.gated \in SUBSET (full \cup crop) /\ v.good \in SUBSET (full \cup crop)
        /\ v.near \cap v.gated = {}
        /\ \A p \in v.near \cup v.gated : p[1] \in videos
        /\ \A p \in v.good : p[1] \in videos => p \in v.gated
    BY DEF Said
  <2>8. /\ data.videos = videos /\ data.full = full /\ data.crop = crop /\ data.near = v.near
        /\ data.gated = v.gated /\ data.good = v.good /\ data.targeted = targeted
        /\ data.changed = changed /\ data.start = start
    BY <2>6
  <2>9. /\ \A p \in full \cup crop : IsVideo(p) \/ IsImage(p)
        /\ \A p \in v.near \cup v.gated : IsVideo(p)
        /\ \A p \in v.good : IsVideo(p) => p \in v.gated
    BY <2>4, <2>7, <2>8 DEF IsVideo, IsImage
  <2>10. start \in Nat /\ (targeted => start = 0)
    BY <1>1, <2>6
  <2> QED BY <2>3, <2>7, <2>8, <2>9, <2>10 DEF DataGiven
<1>3. /\ stage = IF data.targeted THEN "targeted" ELSE "images"
      /\ from = IF data.start < Cardinality(ImageFiles) THEN data.start ELSE Cardinality(ImageFiles)
      /\ worker = [w \in AWorkers |-> Left] /\ segs = NoSegments
      /\ passTodo = IF ~data.targeted THEN {} ELSE Asked
      /\ pending = <<>> /\ flushing = FALSE /\ seen = {} /\ emitted = <<>> /\ stop = FALSE
  BY DEF AnalyzeInit, Asked
<1>4. Cardinality(ImageFiles) \in 0..NFiles /\ data.start \in Nat /\ data.targeted \in BOOLEAN
  BY <1>2, IRankIs DEF DataGiven
<1>5. Asked \in SUBSET PassPairs
  BY <1>2 DEF Asked, DataGiven
<1>6. from \in 0..NFiles /\ from \in 0..Cardinality(ImageFiles) /\ (data.start <= from \/ from = Cardinality(ImageFiles))
  BY <1>1, <1>3, <1>4
<1>7. PassTypes
  <2>1. worker \in [AWorkers -> 0..Left] /\ segs \in [Groups -> SUBSET PassPairs]
    BY <1>1, <1>3 DEF Left, NoSegments
  <2>2. passTodo \in SUBSET PassPairs /\ seen \in SUBSET PassPairs
    BY <1>3, <1>5
  <2>3. pending \in Seq(PassPairs) /\ emitted \in Seq(PassPairs) /\ Len(pending) = 0
    BY <1>3
  <2>4. stage \in {"images", "window", "videos", "videoWindow", "seed", "crops", "targeted", "done"}
    BY <1>3
  <2>5. flushing \in BOOLEAN /\ stop \in BOOLEAN /\ ~flushing
    BY <1>3
  <2>6. Len(pending) < PendingMax
    BY <1>1, <2>3
  <2> QED BY <1>6, <2>1, <2>2, <2>3, <2>4, <2>5, <2>6 DEF PassTypes
<1>8. PassPlaces /\ WindowShared
  BY <1>3, <1>4, <1>6 DEF PassPlaces, WindowShared
<1>9. Out = {} /\ ToSet(pending) = {} /\ IsInjective(emitted) /\ IsInjective(pending)
  BY <1>3 DEF Out, ToSet, IsInjective
<1>10. EmittedOnce
  BY <1>3, <1>4, <1>9 DEF EmittedOnce
<1>11. NoneMissed
  <2>1. ASSUME ~data.targeted, NEW p \in ImgDue PROVE ~(IRank(p) < from)
    <3>1. IRank(p) \in Nat /\ IRank(p) >= data.start
      BY <1>2, IRankIs DEF ImgDue
    <3> QED BY <1>3, <1>4, <3>1
  <2> QED BY <1>3, <1>4, <2>1 DEF NoneMissed
<1>12. OrderKept
  BY <1>3 DEF OrderKept
<1> QED BY <1>2, <1>7, <1>8, <1>10, <1>11, <1>12 DEF PassInv

\* Every step keeps the invariant.
LEMMA PassInvKept == ASSUME PassInv, [AnalyzeNext]_passVars PROVE PassInv'
<1>1. CASE RequestStop
  BY <1>1, StopAsked DEF RequestStop
<1>2. CASE \E w \in AWorkers : Claim(w) \/ Judge(w) \/ Abandon(w)
  BY <1>2, ClaimKept, JudgeKept, AbandonKept
<1>3. CASE UNCHANGED passVars
  BY <1>3, StopAsked DEF passVars
<1> QED
  BY <1>1, <1>2, <1>3, OpenWindowKept, EmitNextKept, CloseWindowKept, OpenVideoWindowKept, CloseVideoWindowKept,
     SeedKept, ProcessKept, FlushNextKept, SeeStopKept, FinishPassKept
  DEF AnalyzeNext

\* What the pass promises follows: at the end without a stop nothing waits and all is emitted.
LEMMA PassInvMeans == PassInv => PassExact /\ OrderKept
BY DEF PassInv, EmittedOnce, NoneMissed, PassExact, Out

\* Beyond the end of a window each worker counts once.
LEMMA NextCountedInit == ASSUME AnalyzeInit PROVE NextCounted
<1>1. IsFiniteSet(AWorkers) /\ NFiles \in Nat
  BY PassAssumption
<1>2. Cardinality(AWorkers) \in Nat
  BY <1>1, FS_CardinalityType
<1> QED BY <1>1, <1>2 DEF AnalyzeInit, NextCounted

\* A worker counts past the end of a window when it leaves, and only then.
LEMMA NextCountedKept == ASSUME PassInv, NextCounted, [AnalyzeNext]_passVars PROVE NextCounted'
<1> DEFINE L == {w \in AWorkers : worker[w] = Left}
           c == Cardinality(L)
           a == Cardinality(AWorkers)
<1>1. IsFiniteSet(AWorkers) /\ NFiles \in Nat
  BY PassAssumption
<1>2. \A S : S \in SUBSET AWorkers => IsFiniteSet(S) /\ Cardinality(S) \in Nat /\ Cardinality(S) <= a /\ a \in Nat
  BY <1>1, FS_Subset, FS_CardinalityType
<1>3. L \in SUBSET AWorkers /\ L' \in SUBSET AWorkers
  OBVIOUS
<1>4. IsFiniteSet(L) /\ c \in Nat /\ c <= a /\ c' \in Nat /\ a \in Nat /\ IsFiniteSet(L')
  <2> HIDE DEF L, a
  <2> QED BY <1>2, <1>3
<1>5. worker \in [AWorkers -> 0..Left] /\ next \in Nat /\ DataGiven /\ from \in 0..NFiles
  BY DEF PassInv, PassTypes, NextCounted
<1>6. stage = "window" => End \in Nat /\ from < End /\ End <= NFiles /\ next <= End + c
  <2>1. stage = "window" => from < Cardinality(ImageFiles) /\ next <= End + c
    BY DEF PassInv, PassPlaces, NextCounted
  <2> QED BY <1>5, <2>1, EndIs
<1>7. stage # "window" => next <= NFiles + a
  BY DEF NextCounted
<1> HIDE DEF L, c, a
<1>8. ASSUME next' = next, stage # "window", stage' # "window" PROVE NextCounted'
  BY <1>5, <1>7, <1>8 DEF NextCounted, a
<1>9. ASSUME next' = next, stage = "window", stage' # "window" PROVE NextCounted'
  <2>1. next <= NFiles + a
    BY <1>1, <1>4, <1>5, <1>6, <1>9
  <2> QED BY <1>5, <1>9, <2>1 DEF NextCounted, a
<1>10. ASSUME next' = next, stage = "window", stage' = "window", End' = End, c <= c' PROVE NextCounted'
  <2>1. next <= End + c'
    BY <1>4, <1>5, <1>6, <1>10
  <2> QED BY <1>5, <1>10, <2>1 DEF NextCounted, c, L
<1>11. CASE \E w \in AWorkers : Claim(w) \/ Judge(w) \/ Abandon(w)
  <2>1. PICK w \in AWorkers : Claim(w) \/ Judge(w) \/ Abandon(w)
    BY <1>11
  <2>2. stage = "window" /\ stage' = "window" /\ End' = End /\ worker[w] # Left
    <3>1. data' = data /\ from' = from /\ stage = "window" /\ stage' = "window"
      BY <2>1 DEF Claim, Judge, Abandon
    <3>2. worker[w] # Left
      BY <1>1, <2>1 DEF Claim, Judge, Abandon, Claims, Left
    <3> QED BY <3>1, <3>2, GivenStays
  <2>3. CASE worker'[w] = Left /\ \A v \in AWorkers \ {w} : worker'[v] = worker[v]
    <3>1. L' = L \cup {w} /\ w \notin L
      BY <2>2, <2>3 DEF L
    <3>2. c' = c + 1
      BY <1>4, <3>1, FS_AddElement DEF c
    <3>3. next' = next \/ next' = next + 1
      BY <2>1 DEF Claim, Judge, Abandon
    <3>4. next' \in Nat /\ next' <= End + c'
      BY <1>4, <1>5, <1>6, <2>2, <3>2, <3>3
    <3> QED BY <2>2, <3>4 DEF NextCounted, c, L
  <2>4. CASE worker'[w] # Left /\ \A v \in AWorkers \ {w} : worker'[v] = worker[v]
    <3>1. L' = L
      BY <2>2, <2>4 DEF L
    <3>2. c' = c
      BY <3>1 DEF c
    <3>3. next' = next \/ (next' = next + 1 /\ next < End)
      <4>1. CASE Claim(w)
        <5>1. next' = next + 1 /\ worker'[w] = IF next < End THEN next ELSE Left
          BY <1>5, <4>1 DEF Claim, End
        <5> QED BY <2>4, <5>1
      <4>2. CASE Judge(w) \/ Abandon(w)
        BY <4>2 DEF Judge, Abandon
      <4> QED BY <2>1, <4>1, <4>2
    <3>4. next' \in Nat /\ next' <= End + c'
      BY <1>4, <1>5, <1>6, <2>2, <3>2, <3>3
    <3> QED BY <2>2, <3>4 DEF NextCounted, c, L
  <2>5. \A v \in AWorkers \ {w} : worker'[v] = worker[v]
    BY <1>5, <2>1 DEF Claim, Judge, Abandon
  <2> QED BY <2>3, <2>4, <2>5
<1>12. CASE OpenWindow
  <2>1. CASE stage' = "window"
    <3>1. next' = from /\ from' = from /\ data' = data /\ ~(from >= Cardinality(ImageFiles))
      BY <1>12, <2>1 DEF OpenWindow
    <3>2. Cardinality(ImageFiles) \in 0..NFiles
      BY <1>5, IRankIs
    <3>3. from < End /\ End \in Nat /\ End' = End
      BY <1>1, <1>5, <3>1, <3>2, EndIs, GivenStays
    <3>4. next' \in Nat /\ next' <= End + c'
      <4>1. from \in Nat /\ from < End /\ End \in Nat
        BY <1>1, <1>5, <3>3
      <4>2. ASSUME NEW u \in Nat PROVE from <= End + u
        BY <4>1
      <4>3. c' \in Nat
        BY <1>4
      <4> QED BY <3>1, <4>1, <4>2, <4>3
    <3> QED BY <2>1, <3>3, <3>4 DEF NextCounted, c, L
  <2>2. CASE stage' # "window"
    <3>1. next' = next /\ stage # "window"
      BY <1>12, <2>2 DEF OpenWindow
    <3> QED BY <1>8, <2>2, <3>1
  <2> QED BY <2>1, <2>2
<1>13. CASE RequestStop \/ UNCHANGED passVars
  <2>1. next' = next /\ stage' = stage /\ data' = data /\ from' = from /\ worker' = worker
    BY <1>13 DEF RequestStop, passVars
  <2>2. End' = End /\ c' = c
    BY <2>1, GivenStays DEF c, L
  <2>3. c <= c'
    BY <1>4, <2>2
  <2> QED BY <1>8, <1>10, <2>1, <2>2, <2>3
<1>14. CASE EmitNext
  <2>1. next' = next /\ stage = "window" /\ stage' = stage /\ data' = data /\ from' = from /\ worker' = worker
    BY <1>14 DEF EmitNext, Merges
  <2>2. End' = End /\ c' = c
    BY <2>1, GivenStays DEF c, L
  <2>3. c <= c'
    BY <1>4, <2>2
  <2> QED BY <1>10, <2>1, <2>2, <2>3
<1>15. CASE CloseWindow
  BY <1>9, <1>15 DEF CloseWindow, Merges, Cancel
<1>16. CASE OpenVideoWindow \/ CloseVideoWindow \/ Seed
  BY <1>8, <1>16 DEF OpenVideoWindow, CloseVideoWindow, Seed, Cancel
<1>17. CASE Process \/ FlushNext \/ SeeStop \/ FinishPass
  BY <1>8, <1>17 DEF Process, FlushNext, SeeStop, FinishPass, Sequential, Cancel
<1> QED BY <1>11, <1>12, <1>13, <1>14, <1>15, <1>16, <1>17 DEF AnalyzeNext

\* The types of the pass.
LEMMA PassTyped == ASSUME PassInv, NextCounted PROVE AnalyzeTypeOK
<1>1. PassTypes /\ IsFiniteSet(AWorkers) /\ NFiles \in Nat /\ PendingMax \in Nat
  BY PassAssumption DEF PassInv
<1>2. next \in 0..(NFiles + Cardinality(AWorkers))
  <2> DEFINE c == Cardinality({w \in AWorkers : worker[w] = Left})
             a == Cardinality(AWorkers)
  <2>1. {w \in AWorkers : worker[w] = Left} \in SUBSET AWorkers
    OBVIOUS
  <2>2. c \in Nat /\ a \in Nat /\ c <= a
    BY <1>1, <2>1, FS_Subset, FS_CardinalityType
  <2>3. next \in Nat /\ (stage = "window" => next <= End + c) /\ (stage # "window" => next <= NFiles + a)
    BY DEF NextCounted
  <2>4. stage = "window" => End \in Nat /\ End <= NFiles
    BY <1>1, EndIs DEF PassInv, PassPlaces, PassTypes
  <2> HIDE DEF c, a
  <2>5. next <= NFiles + a
    BY <1>1, <2>2, <2>3, <2>4
  <2> QED BY <1>1, <2>2, <2>3, <2>5 DEF a
<1>3. Len(pending) <= PendingMax /\ (flushing => Len(pending) > 0)
  <2>1. Len(pending) \in Nat
    BY <1>1 DEF PassTypes
  <2>2. (flushing => 0 < Len(pending) /\ Len(pending) <= PendingMax) /\ (~flushing => Len(pending) < PendingMax)
    BY <1>1 DEF PassTypes
  <2> QED BY <1>1, <2>1, <2>2
<1> QED BY <1>1, <1>2, <1>3 DEF PassTypes, AnalyzeTypeOK

-----------------------------------------------------------------------------
(* The parts together.                                                         *)

\* What the caches serve was made from the file as it was asked for: a fingerprint from a
\* version of the video its stamp was current for or a later one, under the policy in
\* force; a buffer from the image, found by its path, size and time, and never through a
\* node that is another's by now (VideoFingerprint::build, DiskCache and the verification's buffer list).
THEOREM CachesAreTrue == AnalysisSpec => []CachesTrue
<1>1. AnalysisInit => VideoInv /\ VerifyInv
  BY VideoInvInit, VerifyInvInit DEF AnalysisInit
<1>2. VideoInv /\ VerifyInv /\ [AnalysisNext]_analysisVars => VideoInv' /\ VerifyInv'
  <2>1. [AnalysisNext]_analysisVars => [VideoNext]_videoVars /\ [VerifyNext]_verifyVars
    BY DEF AnalysisNext, analysisVars
  <2> QED BY <2>1, VideoInvKept, VerifyInvKept
<1>3. VideoInv /\ VerifyInv => CachesTrue
  BY VideoInvMeans, VerifyInvMeans DEF CachesTrue
<1> QED BY <1>1, <1>2, <1>3, PTL DEF AnalysisSpec

\* The samples of a sweep that succeeded are the first frames received at or after its
\* plan's times, from one decoder, short of times the last frame nearly reached only; and
\* a sweep that nothing befell succeeds when the stream reaches its targets
\* (VideoDecoder::framesAt, as build() uses it).
THEOREM SweepIsTrue == AnalysisSpec => []SweepTrue
<1>1. AnalysisInit => SweepInv
  BY SweepInvInit DEF AnalysisInit
<1>2. SweepInv /\ [AnalysisNext]_analysisVars => SweepInv'
  <2>1. [AnalysisNext]_analysisVars => [SweepNext]_sweepVars
    BY DEF AnalysisNext, analysisVars
  <2> QED BY <2>1, SweepInvKept
<1>3. SweepInv => SweepTrue
  BY DEF SweepInv
<1> QED BY <1>1, <1>2, <1>3, PTL DEF AnalysisSpec

\* The candidates for a hash are what is near it, every pair of near files is visited, at
\* most once however the groups are dealt out, and the pass over the candidates reports each
\* pair that is due once, none that is not, and the image matches in the order of a single
\* thread (MultiIndexHash, candidate_index.h; ScanPipeline::analyze).
THEOREM PairsAreExact == AnalysisSpec => []PairsExact
<1>1. AnalysisInit => CandidateInv /\ PassInv
  BY CandidateInvInit, PassInvInit DEF AnalysisInit
<1>2. CandidateInv /\ PassInv /\ [AnalysisNext]_analysisVars => CandidateInv' /\ PassInv'
  <2>1. [AnalysisNext]_analysisVars => [CandidateNext]_entries /\ [AnalyzeNext]_passVars
    BY DEF AnalysisNext, analysisVars
  <2> QED BY <2>1, CandidateInvKept, PassInvKept
<1>3. CandidateInv /\ PassInv => PairsExact
  BY EnumerationIsSound, QueryIsExact, PassInvMeans DEF PairsExact
<1> QED BY <1>1, <1>2, <1>3, PTL DEF AnalysisSpec

\* The variables of all parts keep to their types; of the pass, the counter of groups goes
\* past the end of a window by one for each worker that has left, and the pairs that wait
\* for the temporal comparison never outnumber a flush.
THEOREM AnalysisIsTyped == AnalysisSpec => []AnalysisTypeOK
<1> DEFINE I == CandidateInv /\ PassInv /\ NextCounted /\ VideoInv /\ SweepInv /\ VerifyInv
<1>1. AnalysisInit => I
  BY CandidateInvInit, PassInvInit, NextCountedInit, VideoInvInit, SweepInvInit, VerifyInvInit DEF AnalysisInit
<1>2. I /\ [AnalysisNext]_analysisVars => I'
  <2>1. [AnalysisNext]_analysisVars =>
          /\ [CandidateNext]_entries /\ [AnalyzeNext]_passVars /\ [VideoNext]_videoVars
          /\ [SweepNext]_sweepVars /\ [VerifyNext]_verifyVars
    BY DEF AnalysisNext, analysisVars
  <2> QED BY <2>1, CandidateInvKept, PassInvKept, NextCountedKept, VideoInvKept, SweepInvKept, VerifyInvKept
<1>3. I => AnalysisTypeOK
  BY PassTyped DEF AnalysisTypeOK, CandidateInv, VideoInv, SweepInv, VerifyInv
<1> QED BY <1>1, <1>2, <1>3, PTL DEF AnalysisSpec
=================================================================================
