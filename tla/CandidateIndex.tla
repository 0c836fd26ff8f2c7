---------------------------- MODULE CandidateIndex ----------------------------
(***************************************************************************)
(* The candidate index (src/candidate_index.cpp): the hashes of the files, *)
(* each cut into slices and filed under every slice, so that the pairs     *)
(* within a distance are found without comparing all.  It is exact up to   *)
(* Limit: a pair within it agrees within Radius on one slice at least.     *)
(* The pairs are enumerated in ranges that begin and end where the file    *)
(* changes, by several workers.                                            *)
(*                                                                         *)
(* A hash is a sequence of slices, a slice the set of its one bits; the    *)
(* code has 4 slices of 16 bits, radius 2 and limit 8.  The index is filled*)
(* file by file, as its callers do.                                        *)
(***************************************************************************)
EXTENDS Naturals, Sequences, FiniteSets, FiniteSetsExt, SequencesExt

CONSTANTS
  Parts,       \* kPartitions
  Bits,        \* bits of a slice
  Radius,      \* forRadius2
  Limit,       \* the largest distance that is searched by slices
  MaxEntries,  \* bound: hashes in the index
  MaxFiles     \* bound: files

ASSUME CandidateAssumption ==
  /\ {Parts, Bits} \subseteq Nat \ {0} /\ {Radius, Limit, MaxEntries, MaxFiles} \subseteq Nat
  /\ Limit < Parts * (Radius + 1)

VARIABLES entries  \* entries_: [index, hash]; group is the rank of its index

Slices == SUBSET (1..Bits)
Hashes == [1..Parts -> Slices]
Differ(s, t) == Cardinality((s \ t) \cup (t \ s))
Apart(g, h) == {x \in (1..Parts) \X (1..Bits) : (x[2] \in g[x[1]]) # (x[2] \in h[x[1]])}
Distance(g, h) == Cardinality(Apart(g, h))

\* A mutant: only the slices themselves are looked up.
ReachesSame(g, h, maxDistance) == \E p \in 1..Parts : g[p] = h[p]

\* An entry with hash h is in a bucket that a search for g looks up: for
\* equality the first slice decides.
Reaches(g, h, maxDistance) ==
  IF maxDistance = 0 THEN g[1] = h[1]
  ELSE \E p \in 1..Parts : Differ(g[p], h[p]) <= Radius

\* query: the entries within the distance, by their index and distance.
Query(h, maxDistance) ==
  {<<entries[k].index, Distance(entries[k].hash, h)>> :
     k \in {q \in DOMAIN entries :
              /\ maxDistance <= Limit => Reaches(h, entries[q].hash, maxDistance)
              /\ Distance(entries[q].hash, h) <= maxDistance}}

\* groupBoundaries: where a file begins, and the end.
StartsGroup(k) == k = 1 \/ entries[k].index # entries[k - 1].index
GroupStarts == {k \in DOMAIN entries : StartsGroup(k)}
GroupStart(k) == Max({q \in GroupStarts : q <= k})

\* The positions a search for the hash at k looks at.
Looked(k, maxDistance) ==
  IF maxDistance > Limit THEN DOMAIN entries
  ELSE {q \in DOMAIN entries : Reaches(entries[k].hash, entries[q].hash, maxDistance)}

\* The later files that are close to the hash at k, among the positions P.
Partners(k, P, maxDistance) ==
  {entries[q].index : q \in {r \in P : /\ entries[r].index > entries[k].index
                                      /\ Distance(entries[k].hash, entries[r].hash) <= maxDistance}}

\* The positions that the range from lo looks at for the first time in the
\* file's generation (seen): what an earlier hash of the file has looked at is
\* not looked at again, close or not.
FirstLooked(k, lo, maxDistance) ==
  Looked(k, maxDistance)
    \ UNION {Looked(q, maxDistance) : q \in {r \in lo..(k - 1) : r >= GroupStart(k)}}

\* What forEachCandidatePairInRange from lo visits at k: of the positions
\* looked at for the first time, the files that the same file has not had
\* (seenGroups).
Emitted(k, lo, maxDistance) ==
  Partners(k, FirstLooked(k, lo, maxDistance), maxDistance)
    \ UNION {Partners(q, FirstLooked(q, lo, maxDistance), maxDistance) :
               q \in {r \in lo..(k - 1) : r >= GroupStart(k)}}

\* How often the pair of files i < j is visited when the range from each start
\* in S to the next one is searched.
Visits(i, j, S, maxDistance) ==
  Cardinality({k \in DOMAIN entries :
                 /\ entries[k].index = i
                 /\ j \in Emitted(k, Max({s \in S : s <= k}), maxDistance)})

-----------------------------------------------------------------------------
CandidateInit == entries = <<>>

Files == 1..MaxFiles

\* add: the last file's next hash, or the first one of a later file.
AddHash(i, h) ==
  /\ Len(entries) < MaxEntries
  /\ entries # <<>> => i >= entries[Len(entries)].index
  /\ entries' = Append(entries, [index |-> i, hash |-> h])

Clear == entries # <<>> /\ entries' = <<>>

CandidateNext == (\E i \in Files, h \in Hashes : AddHash(i, h)) \/ Clear

CandidateSpec == CandidateInit /\ [][CandidateNext]_entries

-----------------------------------------------------------------------------
\* Type of the variable.
CandidateTypeOK == entries \in Seq([index: Files, hash: Hashes]) /\ Len(entries) <= MaxEntries

\* The definition the index is measured by: two files with some pair of hashes
\* within the distance.
Within(i, j, maxDistance) ==
  \E k, q \in DOMAIN entries :
    /\ entries[k].index = i /\ entries[q].index = j
    /\ Distance(entries[k].hash, entries[q].hash) <= maxDistance

HashesOf(i) == Cardinality({k \in DOMAIN entries : entries[k].index = i})

\* However the groups are dealt out to ranges, a pair of files is visited only
\* when it is close and never twice, and it is visited when it is close and the
\* earlier file has one hash (forEachCandidatePairInRange: shards at group
\* boundaries partition the pairs, and the slices miss none).
EnumerationSound ==
  \A maxDistance \in 0..Limit, S \in SUBSET GroupStarts :
    entries # <<>> /\ 1 \in S =>
      \A i, j \in Files :
        i < j =>
          /\ Visits(i, j, S, maxDistance) <= IF Within(i, j, maxDistance) THEN 1 ELSE 0
          /\ HashesOf(i) = 1 /\ Within(i, j, maxDistance) => Visits(i, j, S, maxDistance) = 1

\* Refuted.  The enumeration misses no pair of close files, however many hashes
\* a file has: an entry that the first hash looked at and found too far is not
\* looked at again for the mirrored hash, which may be close to it.
EnumerationExact ==
  \A maxDistance \in 0..Limit :
    \A i, j \in Files :
      i < j /\ Within(i, j, maxDistance) => Visits(i, j, {1}, maxDistance) = 1

\* A search for a hash finds each entry within the distance, by slices or not.
QueryExact ==
  \A maxDistance \in 0..(Parts * Bits), h \in {entries[k].hash : k \in DOMAIN entries} :
    Query(h, maxDistance) =
      {<<entries[k].index, Distance(entries[k].hash, h)>> :
         k \in {q \in DOMAIN entries : Distance(entries[q].hash, h) <= maxDistance}}
=============================================================================
