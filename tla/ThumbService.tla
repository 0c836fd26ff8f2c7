------------------------------ MODULE ThumbService ------------------------------
(***************************************************************************)
(* Thumbnails: the window asks the backend for the art of the rows it shows, *)
(* and the backend serves it from a memory cache, the engine's art of the    *)
(* last analysis, or a fresh decode.  The thumbs table of the index is no     *)
(* source: dbOpen_ of the store is never set, so that nothing is read from    *)
(* the table or written to it.                                              *)
(*                                                                         *)
(* Art is modelled by the version of the file it was made from; 0 is a       *)
(* placeholder, or none.  A request asks for one size, so a row is its path. *)
(***************************************************************************)
EXTENDS Integers, Sequences, FiniteSets, SequencesExt

CONSTANTS ThumbPaths,     \* the representatives of the rows
          PendingCap,     \* 2000: requests that may be in flight
          CacheMax,       \* 3000: the window's pictures
          MemMax,         \* kMemMax: the store's pictures
          MaxEdits, MaxScans, MaxDeaths, MaxFails   \* bounds on what happens around it

ASSUME ThumbAssumption ==
    /\ {PendingCap, CacheMax, MemMax} \subseteq Nat \ {0}
    /\ {MaxEdits, MaxScans, MaxDeaths, MaxFails} \subseteq Nat

VARIABLES
    version,     \* of each file on the disk
    analysed,    \* the version of each file the index describes
    scanState,   \* "idle", or whether a running scan has analysed a file
    engineArt,   \* thumbMap_ of the engine: path -> version, 0 without art
    memStore,    \* memList_, most recent first: <<path, identity, art>>
    rooted,      \* the backend knows a folder (lastRoot_, lastAppDir_)
    serving,     \* the request the backend works on
    toBackend,   \* requests on their way
    toWindow,    \* answers on their way
    connected,   \* the backend lives; the window has heard when it does not
    pendingReq,  \* thumbPendingReq_: request -> path and the version then
    thumbCache,  \* thumbCache_ of the window
    shown,       \* the icon of each row
    thumbLeft    \* what remains of the bounds

guiVars == <<pendingReq, thumbCache, shown>>
storeVars == <<memStore, rooted, serving>>
scanVars == <<analysed, scanState, engineArt>>
thumbVars == <<version, scanVars, storeVars, toBackend, toWindow, connected, guiVars, thumbLeft>>

Idle  == [step |-> "idle"]

\* The window has rows because a folder was scanned or loaded.
ThumbInit ==
    /\ version = [p \in ThumbPaths |-> 1] /\ analysed = [p \in ThumbPaths |-> 0]
    /\ scanState = "idle" /\ engineArt = [p \in ThumbPaths |-> 0]
    /\ memStore = <<>> /\ rooted = TRUE /\ serving = Idle
    /\ toBackend = <<>> /\ toWindow = <<>> /\ connected = "up"
    /\ pendingReq = {}
    /\ thumbCache = [p \in ThumbPaths |-> 0] /\ shown = [p \in ThumbPaths |-> 0]
    /\ thumbLeft = [edits |-> MaxEdits, scans |-> MaxScans, deaths |-> MaxDeaths,
                 fails |-> MaxFails]

ThumbSpend(what) == thumbLeft[what] > 0 /\ thumbLeft' = [thumbLeft EXCEPT ![what] = @ - 1]

-----------------------------------------------------------------------------
(* Around the thumbnails: files are edited, scans run.                       *)

EditFile(p) ==
    /\ ThumbSpend("edits")
    /\ version' = [version EXCEPT ![p] = @ + 1]
    /\ UNCHANGED <<scanVars, storeVars, toBackend, toWindow, connected, guiVars>>

\* A scan has a worker of its own, with an engine that has no art yet.  The
\* window keeps its pictures.
StartThumbScan ==
    /\ connected = "up" /\ scanState = "idle" /\ ThumbSpend("scans")
    /\ scanState' = "unchanged" /\ engineArt' = [p \in ThumbPaths |-> 0]
    /\ rooted' = TRUE
    /\ UNCHANGED <<version, analysed, memStore, serving, toBackend, toWindow, connected, guiVars>>

\* runLoadIndex: a backend started anew is given a folder.
LoadRoot ==
    /\ connected = "up" /\ ~rooted
    /\ rooted' = TRUE
    /\ UNCHANGED <<version, scanVars, memStore, serving, toBackend, toWindow, connected, guiVars,
                   thumbLeft>>

\* putColorThumb, and the 48 pixel frame of a video.
AnalyseFile(p) ==
    /\ connected = "up" /\ scanState # "idle" /\ analysed[p] # version[p]
    /\ analysed' = [analysed EXCEPT ![p] = version[p]]
    /\ engineArt' = [engineArt EXCEPT ![p] = version[p]]
    /\ scanState' = "changed"
    /\ UNCHANGED <<version, storeVars, toBackend, toWindow, connected, guiVars, thumbLeft>>

\* At the end a scan that has read a file drops the window's pictures; the rows
\* keep their icons until the answers replace them.
FinishThumbScan ==
    /\ connected = "up" /\ scanState # "idle"
    /\ scanState' = "idle"
    /\ thumbCache' = IF scanState = "changed" THEN [p \in ThumbPaths |-> 0] ELSE thumbCache
    /\ UNCHANGED <<version, analysed, engineArt, storeVars, toBackend, toWindow, connected,
                   pendingReq, shown, thumbLeft>>

-----------------------------------------------------------------------------
(* The window.                                                               *)

InFlight(p) == \E r \in pendingReq : r.path = p

\* Rows are recreated: from the cache, with placeholders, without a request.
RefillRows ==
    /\ shown' = thumbCache
    /\ UNCHANGED <<version, scanVars, storeVars, toBackend, toWindow, connected, pendingReq,
                   thumbCache, thumbLeft>>

\* thumbRequestId_ counts up, so that no two requests share an id: one that
\* no request or answer on its way has will do.
FreshId == CHOOSE n \in 1 .. 1 + Cardinality(pendingReq) + Len(toBackend) + Len(toWindow) :
              /\ \A r \in pendingReq : r.id # n
              /\ \A i \in DOMAIN toWindow : toWindow[i].id # n

\* thumbCatchUpVisible visits the rows that are seen, and fileThumb asks for a
\* picture the cache does not hold, unless the same request is in flight or
\* the cap is reached.  Without a live backend the supervisor answers a miss at once.
RequestThumb(p) ==
    /\ thumbCache[p] = 0 /\ ~InFlight(p) /\ Cardinality(pendingReq) < PendingCap
    /\ connected = "up"
    /\ pendingReq' = pendingReq \cup {[id |-> FreshId, path |-> p, asked |-> version[p]]}
    /\ toBackend' = Append(toBackend, [id |-> FreshId, path |-> p])
    /\ UNCHANGED <<version, scanVars, storeVars, toWindow, connected, thumbCache, shown, thumbLeft>>

\* Over the limit a part of the cache goes, in the order of the hash table.
Evicted(cache) ==
    LET held == {p \in ThumbPaths : cache[p] # 0}
    IN  IF Cardinality(held) > CacheMax
        THEN {[cache EXCEPT ![p] = 0] : p \in held} ELSE {cache}

\* onThumbReady: an answer nobody waits for is dropped, a miss leaves the row.
ThumbReady ==
    /\ toWindow # <<>>
    /\ toWindow' = Tail(toWindow)
    /\ LET a == Head(toWindow)
       IN  \/ /\ \A r \in pendingReq : r.id # a.id
              /\ UNCHANGED <<pendingReq, thumbCache, shown>>
           \/ \E r \in pendingReq :
              /\ r.id = a.id
              /\ pendingReq' = pendingReq \ {r}
              /\ IF a.art = 0 THEN UNCHANGED <<thumbCache, shown>>
                 ELSE /\ thumbCache' \in Evicted([thumbCache EXCEPT ![r.path] = a.art])
                      /\ shown' = [shown EXCEPT ![r.path] = a.art]
    /\ UNCHANGED <<version, scanVars, storeVars, toBackend, connected, thumbLeft>>

-----------------------------------------------------------------------------
(* The store, on the backend's main thread; files change between its steps.  *)

Serving(step, r, id, art) == [step |-> step, req |-> r, id |-> id, art |-> art]
Answer(r, art) == Append(toWindow, [id |-> r.id, art |-> art])

\* Without a folder a miss at once.  Else ensureOpen and fileIdentity: the
\* database is opened again at each request, which empties the memory cache,
\* unless it cannot be opened.
TakeRequest ==
    LET r == Head(toBackend)
    IN  /\ connected = "up" /\ serving = Idle /\ toBackend # <<>>
        /\ toBackend' = Tail(toBackend)
        /\ \/ /\ ~rooted
              /\ toWindow' = Answer(r, 0)
              /\ UNCHANGED <<serving, memStore, thumbLeft>>
           \/ /\ rooted
              /\ serving' = Serving("identified", r, version[r.path], 0)
              /\ \/ memStore' = <<>> /\ UNCHANGED thumbLeft
                 \/ ThumbSpend("fails") /\ UNCHANGED memStore
              /\ UNCHANGED toWindow
        /\ UNCHANGED <<version, scanVars, rooted, connected, guiVars>>

\* The front of the list is the most recent; one over the limit goes.
MemAdd(p, id, art) ==
    LET longer == <<<<p, id, art>>>> \o memStore
    IN  IF Len(longer) > MemMax THEN Front(longer) ELSE longer

MemHits(p, id) == {i \in DOMAIN memStore : memStore[i][1] = p /\ memStore[i][2] = id}

ServeMemory ==
    /\ serving.step = "identified"
    /\ \E i \in MemHits(serving.req.path, serving.id) :
        /\ memStore' = <<memStore[i]>> \o RemoveAt(memStore, i)
        /\ toWindow' = Answer(serving.req, memStore[i][3])
    /\ serving' = Idle
    /\ UNCHANGED <<version, scanVars, rooted, toBackend, connected, guiVars, thumbLeft>>

\* The engine's art comes before a fresh decode, whatever version it shows.
DrawArt ==
    LET p == serving.req.path
    IN  /\ serving.step = "identified"
        /\ MemHits(p, serving.id) = {}
        /\ serving' = Serving("drawn", serving.req, serving.id,
                              IF engineArt[p] # 0 THEN engineArt[p] ELSE version[p])
        /\ UNCHANGED <<version, scanVars, memStore, rooted, toBackend, toWindow, connected,
                       guiVars, thumbLeft>>

\* The file cannot be decoded now: an honest miss.
DrawFails ==
    /\ serving.step = "identified" /\ ThumbSpend("fails")
    /\ MemHits(serving.req.path, serving.id) = {} /\ engineArt[serving.req.path] = 0
    /\ toWindow' = Answer(serving.req, 0)
    /\ serving' = Idle
    /\ UNCHANGED <<version, scanVars, memStore, rooted, toBackend, connected, guiVars>>

\* Kept in memory under the identity read at first; diskPut does nothing.
StoreArt ==
    /\ serving.step = "drawn"
    /\ memStore' = MemAdd(serving.req.path, serving.id, serving.art)
    /\ toWindow' = Answer(serving.req, serving.art)
    /\ serving' = Idle
    /\ UNCHANGED <<version, scanVars, rooted, toBackend, connected, guiVars, thumbLeft>>

-----------------------------------------------------------------------------
(* The backend dies with what it works on; the supervisor tells the window,  *)
(* which forgets its requests, and later starts another.                     *)

ThumbBackendDies ==
    /\ connected = "up" /\ ThumbSpend("deaths")
    /\ connected' = "lost"
    /\ toBackend' = <<>> /\ serving' = Idle /\ memStore' = <<>> /\ rooted' = FALSE
    /\ scanState' = "idle" /\ engineArt' = [p \in ThumbPaths |-> 0]
    /\ UNCHANGED <<version, analysed, toWindow, guiVars>>

\* A mutant: the window keeps its requests.
ConnectionLostKept ==
    /\ connected = "lost"
    /\ connected' = "down"
    /\ UNCHANGED <<version, scanVars, storeVars, toBackend, toWindow, guiVars, thumbLeft>>

ConnectionLost ==
    /\ connected = "lost"
    /\ connected' = "down"
    /\ pendingReq' = {}
    /\ UNCHANGED <<version, scanVars, storeVars, toBackend, toWindow, thumbCache, shown, thumbLeft>>

ConnectionBack ==
    /\ connected = "down"
    /\ connected' = "up"
    /\ UNCHANGED <<version, scanVars, storeVars, toBackend, toWindow, guiVars, thumbLeft>>

ThumbNext ==
    \/ \E p \in ThumbPaths : EditFile(p) \/ AnalyseFile(p) \/ RequestThumb(p)
    \/ StartThumbScan \/ LoadRoot \/ FinishThumbScan \/ RefillRows \/ ThumbReady
    \/ TakeRequest \/ ServeMemory \/ DrawArt \/ DrawFails \/ StoreArt
    \/ ThumbBackendDies \/ ConnectionLost \/ ConnectionBack

\* The store finishes what it has begun; answers and the loss of the backend
\* are events of the window's loop; ticks of the window visit every seen row.
ThumbFairness ==
    /\ WF_thumbVars(ThumbReady) /\ WF_thumbVars(TakeRequest)
    /\ WF_thumbVars(ServeMemory \/ DrawArt \/ StoreArt)
    /\ WF_thumbVars(ConnectionLost) /\ WF_thumbVars(ConnectionBack)
    /\ \A p \in ThumbPaths : SF_thumbVars(RequestThumb(p))

ThumbSpec == ThumbInit /\ [][ThumbNext]_thumbVars /\ ThumbFairness

-----------------------------------------------------------------------------

ThumbTypeOK ==
    /\ connected \in {"up", "lost", "down"} /\ scanState \in {"idle", "unchanged", "changed"}
    /\ rooted \in BOOLEAN
    /\ \A p \in ThumbPaths :
        /\ version[p] \in 1 .. 1 + MaxEdits
        /\ {analysed[p], engineArt[p], thumbCache[p], shown[p]} \subseteq 0 .. version[p]
    /\ Len(memStore) <= MemMax /\ Cardinality(pendingReq) <= PendingCap
    /\ Cardinality({p \in ThumbPaths : thumbCache[p] # 0}) <= CacheMax

\* Every request the window waits for is on its way, worked on or answered,
\* exactly once, while the backend lives, and no two are for one row: the
\* window never waits for an answer that cannot come.
RequestsTracked ==
    /\ connected # "lost" => \A r \in pendingReq :
        Cardinality({i \in DOMAIN toBackend : toBackend[i].id = r.id})
        + Cardinality({i \in DOMAIN toWindow : toWindow[i].id = r.id})
        + (IF serving # Idle /\ serving.req.id = r.id THEN 1 ELSE 0) = 1
    /\ \A r, s \in pendingReq : r.path = s.path => r = s

\* No placeholder stays for ever, through refused requests, rebuilt rows, lost
\* answers and a restarted backend, once the backend knows a folder for good: one
\* that was started anew answers misses until the next scan or load tells it.
PlaceholdersHeal == <>[]rooted => \A p \in ThumbPaths : (shown[p] = 0) ~> (shown[p] # 0)

\* "reopens only when the database path changes" (thumbnail_store.h:48): as one
\* folder is served, a request does not empty what the store holds in memory.
MemoryAbsorbs == [][connected = "up" /\ connected' = "up" /\ memStore # <<>> => memStore' # <<>>]_thumbVars

\* "A changed file yields fresh art on a new request": an answer does not show
\* the file as it was before the request.
FreshOnRequest ==
    \A r \in pendingReq : \A i \in DOMAIN toWindow :
        toWindow[i].id = r.id /\ toWindow[i].art # 0 => toWindow[i].art >= r.asked
=================================================================================
