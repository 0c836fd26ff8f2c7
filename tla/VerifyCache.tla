---------------------------- MODULE VerifyCache ----------------------------
(***************************************************************************)
(* Verification of image pairs (src/image_verify.cpp): the threads of the   *)
(* analysis decode the images of a pair through one LRU cache they share,   *)
(* and score the pair on what they got.  The cache is a list of nodes, the  *)
(* most recent first, and a map from a key to its node; a key is the path,  *)
(* the size and the time of the file.  Decoding runs outside the lock, so   *)
(* two threads may decode, and store, the same image.                       *)
(***************************************************************************)
EXTENDS Naturals, Sequences

CONSTANTS
    Images,       \* the image files
    ImagePairs,   \* the candidate pairs the analysis verifies
    Verifiers,    \* the threads of the analysis
    VerifyMax,    \* kVerifyCacheMax
    MaxEdition    \* bound: editions of an image

ASSUME VerifyAssumption ==
    {VerifyMax, MaxEdition} \subseteq Nat \ {0} /\ ImagePairs \subseteq Images \X Images

VARIABLES
    edition,      \* image -> its edition on the disk
    nodes,        \* verifyCacheList
    index,        \* verifyCacheMap: key -> its node's address, 0 when it has none
    job           \* thread -> the pair it verifies

verifyVars == <<edition, nodes, index, job>>

Editions == 1..MaxEdition
Keys == Images \X Editions
Addresses == 1..VerifyMax + 1

\* A node of the list: where it is, its key, the edition its buffers show.
Nodes == [id : Addresses, key : Keys, shows : Editions]

\* What a thread got for one image: the edition of its stamp, and of its buffers.
Buffers == [image : Images, stamp : Editions, shows : Editions]

\* A verification: its pair, its progress, the call under way, what it got so far.
Jobs == [pair : Images \X Images,
         at : {"idle", "stat", "lookup", "decode", "store", "scored", "hamming"},
         stamp : Editions, shows : Editions, got : Seq(Buffers)]

VerifyTypeOK ==
    /\ edition \in [Images -> Editions]
    /\ nodes \in Seq(Nodes)
    /\ index \in [Keys -> Addresses \cup {0}]
    /\ job \in [Verifiers -> Jobs] /\ \A v \in Verifiers : Len(job[v].got) =< 2

VerifyInit ==
    /\ edition = [m \in Images |-> 1]
    /\ nodes = << >>
    /\ index = [k \in Keys |-> 0]
    /\ \E m \in Images :
         job = [v \in Verifiers |->
                  [pair |-> <<m, m>>, at |-> "idle", stamp |-> 1, shows |-> 1, got |-> << >>]]

\* The image a thread is busy with: the first of the pair, then the second.
ImageOf(v) == job[v].pair[Len(job[v].got) + 1]

\* VerifyCacheKey.
KeyOf(v) == <<ImageOf(v), job[v].stamp>>

\* The thread has the buffers b of its image: on to the second, or to the score.
Received(v, shows) ==
    LET got == Append(job[v].got,
                      [image |-> ImageOf(v), stamp |-> job[v].stamp, shows |-> shows])
    IN  job' = [job EXCEPT ![v].got = got,
                           ![v].at = IF Len(got) = 2 THEN "scored" ELSE "stat",
                           ![v].stamp = 1, ![v].shows = 1]

-----------------------------------------------------------------------------
\* verifyImagePair: a pair of images below the fast path is taken up.
TakePair(v, p) ==
    /\ job[v].at \in {"idle", "scored", "hamming"}
    /\ job' = [job EXCEPT ![v] = [pair |-> p, at |-> "stat", stamp |-> 1, shows |-> 1,
                                  got |-> << >>]]
    /\ UNCHANGED <<edition, nodes, index>>

\* The size and the time of the file make the key.
Stat(v) ==
    /\ job[v].at = "stat"
    /\ job' = [job EXCEPT ![v].at = "lookup", ![v].stamp = edition[ImageOf(v)]]
    /\ UNCHANGED <<edition, nodes, index>>

\* The file is gone, or it cannot be decoded: the pair keeps its Hamming score.
Fails(v) ==
    /\ job[v].at \in {"stat", "decode"}
    /\ job' = [job EXCEPT ![v].at = "hamming", ![v].got = << >>,
                          ![v].stamp = 1, ![v].shows = 1]
    /\ UNCHANGED <<edition, nodes, index>>

\* A hit: under the lock the node moves to the front and its buffers are copied.
Hit(v) ==
    /\ job[v].at = "lookup" /\ index[KeyOf(v)] # 0
    /\ \E i \in 1..Len(nodes) :
         /\ nodes[i].id = index[KeyOf(v)]
         /\ nodes' = <<nodes[i]>> \o SubSeq(nodes, 1, i - 1) \o SubSeq(nodes, i + 1, Len(nodes))
         /\ Received(v, nodes[i].shows)
    /\ UNCHANGED <<edition, index>>

\* A miss: the thread leaves the lock to decode.
Miss(v) ==
    /\ job[v].at = "lookup" /\ index[KeyOf(v)] = 0
    /\ job' = [job EXCEPT ![v].at = "decode"]
    /\ UNCHANGED <<edition, nodes, index>>

\* decodeBoth reads the file as it is now.
DecodeImage(v) ==
    /\ job[v].at = "decode"
    /\ job' = [job EXCEPT ![v].at = "store", ![v].shows = edition[ImageOf(v)]]
    /\ UNCHANGED <<edition, nodes, index>>

\* Eviction of the last node when the list is too long: its key goes from the map,
\* even when the map has a younger node of that key.
Evict(list, map) ==
    IF Len(list) > VerifyMax
    THEN [list |-> SubSeq(list, 1, VerifyMax),
          map |-> [map EXCEPT ![list[VerifyMax + 1].key] = 0]]
    ELSE [list |-> list, map |-> map]

\* The buffers get a node at the front, whether or not the key has one by now.
Store(v) ==
    /\ job[v].at = "store"
    /\ LET id == CHOOSE a \in Addresses : \A i \in 1..Len(nodes) : nodes[i].id # a
           kept == Evict(<<[id |-> id, key |-> KeyOf(v), shows |-> job[v].shows]>> \o nodes,
                         [index EXCEPT ![KeyOf(v)] = id])
       IN  nodes' = kept.list /\ index' = kept.map
    /\ Received(v, job[v].shows)
    /\ UNCHANGED edition

\* The environment rewrites an image.
Rewrite(m) ==
    /\ edition[m] < MaxEdition
    /\ edition' = [edition EXCEPT ![m] = @ + 1]
    /\ UNCHANGED <<nodes, index, job>>

VerifyNext ==
    \/ \E v \in Verifiers :
         \/ \E p \in ImagePairs : TakePair(v, p)
         \/ Stat(v) \/ Fails(v) \/ Hit(v) \/ Miss(v) \/ DecodeImage(v) \/ Store(v)
    \/ \E m \in Images : Rewrite(m)

VerifySpec == VerifyInit /\ [][VerifyNext]_verifyVars

-----------------------------------------------------------------------------
(* Properties                                                              *)

\* The map never leads to a node that was evicted, or to the node of another key,
\* and the list keeps to its size, although two threads that miss the same image
\* both put a node of it in the list and each eviction takes the key's entry away.
MapLeadsToNodes ==
    /\ Len(nodes) =< VerifyMax
    /\ \A k \in Keys : index[k] # 0 =>
         \E i \in 1..Len(nodes) : nodes[i].id = index[k] /\ nodes[i].key = k

\* A pair is scored on buffers of editions its images had while it was verified.
BuffersTrue ==
    \A v \in Verifiers : \A i \in 1..Len(job[v].got) :
        LET b == job[v].got[i] IN b.shows \in b.stamp..edition[b.image]

\* Refuted: a resident image is found ("lets a file reused across pairs stay
\* resident").  Two threads that missed together leave two nodes, and the eviction
\* of the older hides the younger, which stays in the list, unused, until its turn.
ResidentFound == \A i \in 1..Len(nodes) : index[nodes[i].key] # 0
=============================================================================
