---------------------------- MODULE ServiceWorker ----------------------------
(***************************************************************************)
(* The service worker: the caches of the application's own files over the  *)
(* changes of versions, and the cache of map tiles.  The two share no      *)
(* state.                                                                  *)
(***************************************************************************)
EXTENDS Integers, FiniteSets, Sequences, SequencesExt

-----------------------------------------------------------------------------
(* The application's files.  A new worker fills a cache of its own name, takes over and     *)
(* deletes the others, while the one before it may still put a response into its cache,    *)
(* which that creates again.  The caches are searched in the order of their creation.  A   *)
(* file has the version the server had when it was fetched.                                *)
CONSTANTS
    File,           \* STATIC_ASSETS, and what is fetched besides
    MaxVersion,     \* bound: versions of the application
    MaxLatePuts     \* bound: responses on their way to a cache

ASSUME ServiceWorkerAssumption == MaxVersion \in Nat \ {0} /\ MaxLatePuts \in Nat

Version == 1..MaxVersion

VARIABLES
    deployed,       \* the version at the server
    caches,         \* the caches in the order of their creation: CACHE_NAME and files
    worker,         \* the version of the active worker, 0 for none
    installing,     \* the version of a worker that installs, 0 for none
    latePuts        \* responses a worker has still to put: its version, the file and its version

serviceWorkerVars == <<deployed, caches, worker, installing, latePuts>>

ServiceWorkerTypeOK ==
    /\ deployed \in Version /\ {worker, installing} \subseteq 0..MaxVersion
    /\ \A i \in DOMAIN caches : caches[i].name \in Version /\ DOMAIN caches[i].files \subseteq File
    /\ \A i, j \in DOMAIN caches : caches[i].name = caches[j].name => i = j
    /\ latePuts \subseteq [by : Version, file : File, is : Version] /\ Cardinality(latePuts) <= MaxLatePuts

ServiceWorkerInit ==
    /\ deployed = 1 /\ caches = <<>> /\ worker = 0 /\ installing = 0 /\ latePuts = {}

-----------------------------------------------------------------------------
\* caches.open(name), which creates the cache if there is none, and put.
Put(all, name, files) ==
    LET at == {i \in DOMAIN all : all[i].name = name}
        merged(old) == [f \in DOMAIN old \cup DOMAIN files |-> IF f \in DOMAIN files THEN files[f] ELSE old[f]]
    IN IF at = {} THEN Append(all, [name |-> name, files |-> files])
       ELSE [i \in DOMAIN all |-> IF i \in at THEN [all[i] EXCEPT !.files = merged(@)] ELSE all[i]]
\* caches.match: the first cache that has the file; 0 when none has.
Match(all, file) ==
    LET at == {i \in DOMAIN all : file \in DOMAIN all[i].files}
    IN IF at = {} THEN 0 ELSE all[CHOOSE i \in at : \A j \in at : i <= j].files[file]
CacheOf(all, name) ==
    LET at == {i \in DOMAIN all : all[i].name = name}
    IN IF at = {} THEN <<>> ELSE all[CHOOSE i \in at : TRUE].files

Deploy ==
    /\ deployed < MaxVersion /\ deployed' = deployed + 1
    /\ UNCHANGED <<caches, worker, installing, latePuts>>

\* install: files that cannot be fetched are left out.
Install ==
    /\ installing = 0 /\ worker # deployed /\ installing' = deployed
    /\ \E fetched \in SUBSET File : caches' = Put(caches, deployed, [f \in fetched |-> deployed])
    /\ UNCHANGED <<deployed, worker, latePuts>>

OthersDeleted(all, name) ==
    LET at == {i \in DOMAIN all : all[i].name = name}
    IN IF at = {} THEN <<>> ELSE << all[CHOOSE i \in at : TRUE] >>
\* activate, which skipWaiting does not hold back for the pages that are open.
Activate ==
    /\ installing # 0 /\ worker' = installing /\ installing' = 0
    /\ caches' = OthersDeleted(caches, installing)
    /\ UNCHANGED <<deployed, latePuts>>

\* The handler of fetch: a file of any cache is answered from it, another is fetched and put
\* into the cache of the worker, for which nothing waits.
FileFetched(file) ==
    /\ worker # 0
    /\ IF Match(caches, file) # 0 THEN UNCHANGED latePuts
       ELSE /\ latePuts' = latePuts \cup {[by |-> worker, file |-> file, is |-> deployed]}
            /\ Cardinality(latePuts') <= MaxLatePuts
    /\ UNCHANGED <<deployed, caches, worker, installing>>
LatePut(put) ==
    /\ latePuts' = latePuts \ {put} /\ caches' = Put(caches, put.by, [f \in {put.file} |-> put.is])
    /\ UNCHANGED <<deployed, worker, installing>>
\* The worker is stopped, or the network fails, before the response is put.
PutLost(put) ==
    /\ latePuts' = latePuts \ {put}
    /\ UNCHANGED <<deployed, caches, worker, installing>>

ServiceWorkerNext ==
    \/ Deploy \/ Install \/ Activate
    \/ \E file \in File : FileFetched(file)
    \/ \E put \in latePuts : LatePut(put) \/ PutLost(put)

-----------------------------------------------------------------------------
\* A version in force is not undone by the one before it: a file that the active worker has
\* in its own cache is served from there, though a late response may create an old cache
\* again, and no file of the active worker's cache is older than the worker.
ServiceWorkerSound ==
    \A file \in DOMAIN CacheOf(caches, worker) :
        /\ Match(caches, file) = CacheOf(caches, worker)[file]
        /\ CacheOf(caches, worker)[file] >= worker

-----------------------------------------------------------------------------
(* The map tiles.  A tile that is not in the cache is fetched and put, every few puts the  *)
(* oldest tiles are deleted one by one, and the browser may stop the worker between any    *)
(* two of these steps and start it again, with its counter back at 0.                      *)
CONSTANTS
    Tile,
    MaxTiles,       \* MAX_CACHED_TILES
    TrimEvery,      \* puts between two trims
    MaxPuts,        \* bound: responses on their way to the cache
    MaxTrims        \* bound: trims under way

ASSUME TileCacheAssumption ==
    {MaxTiles, TrimEvery, MaxPuts, MaxTrims} \subseteq Nat \ {0} /\ "unread" \notin Tile

VARIABLES
    tiles,          \* the keys of the cache, the oldest first
    tileInsertCount,
    puts,           \* responses whose put is under way
    trims,          \* the trims under way: the keys each has still to delete
    untrimmed       \* the worker was stopped, and has not ended a trim since

tileCacheVars == <<tiles, tileInsertCount, puts, trims, untrimmed>>
Unread == <<"unread">>      \* a trim that awaits the keys

TileCacheTypeOK ==
    /\ tiles \in Seq(Tile) /\ IsInjective(tiles) /\ tileInsertCount \in 0..(TrimEvery - 1)
    /\ puts \in Seq(Tile) /\ Len(puts) <= MaxPuts /\ untrimmed \in BOOLEAN
    /\ trims \in Seq(Seq(Tile) \cup {Unread}) /\ Len(trims) <= MaxTrims

TileCacheInit == tiles = <<>> /\ tileInsertCount = 0 /\ puts = <<>> /\ trims = <<>> /\ untrimmed = FALSE

\* A tile of the cache is answered from it; the response of another goes to the page and,
\* if it is good, to the cache.
TileFetched(tile) ==
    /\ tile \notin ToSet(tiles) /\ Len(puts) < MaxPuts
    /\ puts' = Append(puts, tile)
    /\ UNCHANGED <<tiles, tileInsertCount, trims, untrimmed>>

CountedPut(count) == IF count + 1 >= TrimEvery THEN 0 ELSE count + 1
\* A put replaces what the cache has of the tile.
TilePut(i) ==
    /\ puts' = RemoveAt(puts, i) /\ tiles' = Append(RemoveFirst(tiles, puts[i]), puts[i])
    /\ tileInsertCount' = CountedPut(tileInsertCount)
    /\ trims' = (IF tileInsertCount + 1 >= TrimEvery THEN Append(trims, Unread) ELSE trims) /\ Len(trims') <= MaxTrims
    /\ UNCHANGED untrimmed
\* The store is full: the tile is not counted.
TilePutFails(i) ==
    /\ puts' = RemoveAt(puts, i)
    /\ UNCHANGED <<tiles, tileInsertCount, trims, untrimmed>>

SurplusButOne(keys) == IF Len(keys) > MaxTiles THEN SubSeq(keys, 1, Len(keys) - MaxTiles - 1) ELSE <<>>
Surplus(keys) == IF Len(keys) > MaxTiles THEN SubSeq(keys, 1, Len(keys) - MaxTiles) ELSE <<>>
TrimReads(i) ==
    /\ trims[i] = Unread
    /\ trims' = (IF Surplus(tiles) = <<>> THEN RemoveAt(trims, i) ELSE [trims EXCEPT ![i] = Surplus(tiles)])
    /\ untrimmed' = (untrimmed /\ Surplus(tiles) # <<>>)
    /\ UNCHANGED <<tiles, tileInsertCount, puts>>
TrimDeletes(i) ==
    /\ trims[i] # Unread
    /\ tiles' = RemoveFirst(tiles, trims[i][1])
    /\ trims' = (IF Len(trims[i]) = 1 THEN RemoveAt(trims, i) ELSE [trims EXCEPT ![i] = Tail(@)])
    /\ untrimmed' = (untrimmed /\ Len(trims[i]) > 1)
    /\ UNCHANGED <<tileInsertCount, puts>>

\* What was under way is lost with the counter.
WorkerRestarts ==
    /\ untrimmed' = TRUE
    /\ tileInsertCount' = 0 /\ puts' = <<>> /\ trims' = <<>>
    /\ UNCHANGED tiles

TileCacheNext ==
    \/ \E tile \in Tile : TileFetched(tile)
    \/ \E i \in DOMAIN puts : TilePut(i) \/ TilePutFails(i)
    \/ \E i \in DOMAIN trims : TrimReads(i) \/ TrimDeletes(i)
    \/ WorkerRestarts

-----------------------------------------------------------------------------
\* Once no trim is under way the cache holds at most MaxTiles and the puts counted since,
\* however puts and trims overlap; only a worker that was stopped may hold more, until the
\* first trim it ends.
TilesBounded == trims = <<>> /\ ~untrimmed => Len(tiles) <= MaxTiles + tileInsertCount
=============================================================================
