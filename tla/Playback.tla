------------------------------ MODULE Playback ------------------------------
(***************************************************************************)
(* Who may play a video: /hls/{id}/... through the gateway's authorisation  *)
(* and its metadata cache (gateway/internal/middleware/hlsauth.go), against  *)
(* the visibility the metadata service keeps (handler and repository         *)
(* video.go), while owners change, publish and delete their videos.          *)
(*                                                                         *)
(* Time passes in ticks, and every time is kept relative to now. A fetch     *)
(* from the metadata service reads the row at some moment and is answered    *)
(* at a later one, Timeout after its start at the latest; the handlers       *)
(* share one cache.                                                        *)
(***************************************************************************)
EXTENDS Integers, Sequences, SequencesExt, FiniteSets

CONSTANTS
    Videos,
    Handlers,   \* requests the gateway handles at the same time
    TTL,        \* metaCacheTTL: 10 s
    NegTTL,     \* metaNegCacheTTL: 5 s
    Timeout,    \* of hlsMetaClient: 3 s
    Window,     \* in which a visibility change takes effect: 15 s
    MaxEntries, \* metaCacheMaxEntries
    MaxEdits,   \* bound on changes of the rows
    MaxFaults   \* bound on fetches that fail and restarts of the gateway

ASSUME SizesAssumption ==
    /\ {TTL, NegTTL, Timeout, Window, MaxEdits, MaxFaults} \subseteq Nat
    /\ MaxEntries \in Nat \ {0}
ASSUME WindowAssumption == NegTTL <= TTL /\ TTL + Timeout <= Window

VARIABLES
    row,      \* videos: visibility and whether the video is ready
    age,      \* since the row went from private to not private or back; at most
              \* Window + 1 is told apart
    entries,  \* metaCache.entries: what is known of a video, and for how long
    lru,      \* metaCache.lru, the most recently used video first
    request,  \* the handlers
    edits, faults

metadata == <<row, age, edits>>
cache    == <<entries, lru>>
vars     == <<metadata, cache, request, faults>>

Visibility == {"public", "private", "unlisted"}
NoEntry    == [vis |-> "unknown", left |-> -1]
Answers    == {"done", "403", "404"}
Verdict    == Visibility \cup {"404", "unknown"}

\* Who asks: the owner, by an unexpired access token or an unexpired HLS token of this
\* video, or anyone else, whatever they present (validateAccessToken, validateHLSToken).
Creds == {"none", "owner"}

MetadataType ==
    /\ row \in [Videos -> [vis : Visibility \cup {"none", "deleted"}, ready : BOOLEAN]]
    /\ age \in [Videos -> 0..(Window + 1)]
    /\ edits \in 0..MaxEdits

EntriesType == entries \in [Videos -> [vis : Verdict, left : -1..TTL]]

\* A request that is being handled.
Asking ==
    [at : {"lookup", "fetch", "read", "vod"}, video : Videos, cred : Creds,
     shown : BOOLEAN, meta : Verdict, left : 0..Timeout]

RequestType == request \in [Handlers -> Asking \cup [at : Answers]]

TypeOK ==
    /\ MetadataType /\ EntriesType /\ RequestType
    /\ lru \in Seq(Videos)
    /\ faults \in 0..MaxFaults

\* Some videos were made long ago, others are still to be made.
Init ==
    /\ row \in [Videos -> [vis : Visibility, ready : {TRUE}]
                          \cup [vis : {"none"}, ready : {FALSE}]]
    /\ age = [v \in Videos |-> Window + 1]
    /\ entries = [v \in Videos |-> NoEntry] /\ lru = <<>>
    /\ request = [r \in Handlers |-> [at |-> "done"]]
    /\ edits = MaxEdits /\ faults = MaxFaults

-----------------------------------------------------------------------------
(* The metadata service *)

SetRow(v, vis, ready) ==
    /\ edits > 0 /\ edits' = edits - 1
    /\ row' = [row EXCEPT ![v] = [vis |-> vis, ready |-> ready]]
    /\ age' = IF (vis = "private") = (row[v].vis = "private") THEN age
              ELSE [age EXCEPT ![v] = 0]
    /\ UNCHANGED <<cache, faults>>

Exists(v) == row[v].vis \in Visibility

Create(v) ==
    /\ row[v].vis = "none"
    /\ \E vis \in Visibility : SetRow(v, vis, FALSE)
    /\ UNCHANGED request

\* Update, by the owner: one UPDATE with the owner in its WHERE.
Update(v) ==
    /\ Exists(v)
    /\ \E vis \in Visibility \ {row[v].vis} : SetRow(v, vis, row[v].ready)
    /\ UNCHANGED request

Delete(v) ==
    /\ Exists(v)
    /\ SetRow(v, "deleted", FALSE)
    /\ UNCHANGED request

\* Mutant of Kept: a ready row may become anything.
KeptNever(v, status) == FALSE

\* UpdateStatus: a ready row is not set back by a worker that begins once more.
Kept(v, status) == row[v].ready /\ status = "processing"

\* The requests, once v has failed: none of them was shown a video that is ready.
Failed(v) ==
    [r \in Handlers |-> IF request[r].at \notin Answers /\ request[r].video = v
                       THEN [request[r] EXCEPT !.shown = FALSE] ELSE request[r]]

\* UpdateStatus, by the workers and the reconciler: a late "failed" is written over
\* ready. An update that leaves the video as ready as it was is left out, an uploaded
\* row is one that is being processed.
UpdateStatus(v) ==
    /\ Exists(v)
    /\ \E status \in {"processing", "ready", "failed"} :
         /\ ~Kept(v, status)
         /\ row[v].ready # (status = "ready")
         /\ SetRow(v, row[v].vis, status = "ready")
         /\ request' = IF status = "failed" THEN Failed(v) ELSE request

\* getVideo: a private video is shown to its owner only.
Shown(owner, v) == Exists(v) /\ (row[v].vis = "private" => owner)

\* GetVODMapping: a ready video, whatever its visibility.
HasMapping(v) == Exists(v) /\ row[v].ready

\* GetInternal, whatever the visibility.
Fetched(v) == IF Exists(v) THEN row[v].vis ELSE "404"

-----------------------------------------------------------------------------
(* metaCache *)

Known(v) == entries[v] # NoEntry
Live(v)  == entries[v].left >= 0

\* The list without the element of v: lru.Remove.
Without(l, v) ==
    IF v \in ToSet(l) THEN RemoveAt(l, CHOOSE i \in DOMAIN l : l[i] = v) ELSE l

\* The list with v in front, where it is moved or pushed: MoveToFront, PushFront.
InFront(l, v) == <<v>> \o Without(l, v)

\* Mutant of Get: a hit prolongs the entry of a video that anyone may play.
GetSliding(v) ==
    /\ entries' = [entries EXCEPT ![v].left = IF entries[v].vis = "private" THEN @ ELSE TTL]
    /\ lru' = InFront(lru, v)

\* get: a hit makes v the most recently used.
Get(v) ==
    /\ lru' = InFront(lru, v)
    /\ UNCHANGED entries

\* get: an entry past its time is taken out.
Expire(v) ==
    /\ entries' = [entries EXCEPT ![v] = NoEntry]
    /\ lru' = Without(lru, v)

LifeTime(vis) == IF vis = "404" THEN NegTTL ELSE TTL

\* Mutant of Stored: an entry that is there is prolonged.
StoredProlonging(v, vis) ==
    [entries EXCEPT ![v] =
        [vis |-> vis, left |-> LifeTime(vis) + (IF Live(v) THEN @.left ELSE 0)]]

\* put: the entry of v is changed or made.
Stored(v, vis) == [entries EXCEPT ![v] = [vis |-> vis, left |-> LifeTime(vis)]]

\* put: an entry is made, and there are too many then.
Overfull(v) == ~Known(v) /\ Cardinality({u \in Videos : Known(u)}) + 1 > MaxEntries

\* Mutant of Put: the video that goes is left in the map.
PutLeavingEvicted(v, vis) ==
    /\ entries' = Stored(v, vis)
    /\ lru' = IF Overfull(v) THEN Front(InFront(lru, v)) ELSE InFront(lru, v)

\* put: the video at the back goes when there are too many.
Put(v, vis) ==
    LET list == InFront(lru, v) IN
    \/ /\ ~Overfull(v)
       /\ entries' = Stored(v, vis) /\ lru' = list
    \/ /\ Overfull(v)
       /\ entries' = [Stored(v, vis) EXCEPT ![Last(list)] = NoEntry]
       /\ lru' = Front(list)

-----------------------------------------------------------------------------
(* A request for a playlist or a segment *)

At(r, l)     == request[r].at = l
Answer(r, a) == request' = [request EXCEPT ![r] = [at |-> a]]

\* fetchVideoMeta: a call to the metadata service begins.
Fetching(req) == [req EXCEPT !.at = "fetch", !.left = Timeout]

\* HLSAuth: a request for a playlist or a segment. The id of a video is known once
\* its row exists. Whether getVideo would show it as ready is noted for a property.
Ask(r) ==
    /\ request[r].at \in Answers
    /\ \E v \in Videos, cred \in Creds :
        /\ row[v].vis # "none"
        /\ request' = [request EXCEPT ![r] = 
              [at |-> "lookup", video |-> v, cred |-> cred, meta |-> "unknown", left |-> 0,
               shown |-> Shown(cred = "owner", v) /\ row[v].ready]]
    /\ UNCHANGED <<metadata, cache, faults>>

\* Mutant of Open: unlisted counts as private.
OpenPublic(meta) == meta \in {"public", "404"}

\* HLSAuth: an unknown video is left to nginx-vod.
Open(meta) == meta \in {"public", "unlisted", "404"}

\* HLSAuth, as soon as getMeta returns: validateHLSToken, validateAccessToken.
Decide(r, meta) ==
    IF Open(meta) \/ request[r].cred # "none"
    THEN request' = [request EXCEPT ![r].at = "vod", ![r].cred = "none",
                                    ![r].meta = "unknown", ![r].left = 0]
    ELSE Answer(r, "403")

\* getMeta: a hit decides, a miss is fetched.
Lookup(r) ==
    LET v == request[r].video IN
    /\ At(r, "lookup")
    /\ \/ /\ Known(v) /\ Live(v) /\ Get(v)
          /\ Decide(r, entries[v].vis)
       \/ /\ Known(v) /\ ~Live(v) /\ Expire(v)
          /\ request' = [request EXCEPT ![r] = Fetching(@)]
       \/ /\ ~Known(v) /\ UNCHANGED cache
          /\ request' = [request EXCEPT ![r] = Fetching(@)]
    /\ UNCHANGED <<metadata, faults>>

\* fetchVideoMeta: the metadata service reads the row.
Read(r) ==
    /\ At(r, "fetch")
    /\ request' = [request EXCEPT ![r].at = "read", ![r].meta = Fetched(request[r].video)]
    /\ UNCHANGED <<metadata, cache, faults>>

\* getMeta: the row, or that there is none, is answered, cached and decided upon.
Store(r) ==
    /\ At(r, "read")
    /\ Put(request[r].video, request[r].meta)
    /\ Decide(r, request[r].meta)
    /\ UNCHANGED <<metadata, faults>>

\* fetchVideoMeta fails or runs into its timeout: nothing is cached. HLSAuth answers
\* 502.
FetchFails(r) ==
    /\ request[r].at \in {"fetch", "read"}
    /\ \/ request[r].left = 0 /\ UNCHANGED faults
       \/ faults > 0 /\ faults' = faults - 1
    /\ Answer(r, "done")
    /\ UNCHANGED <<metadata, cache>>

\* nginx-vod asks for the mapping; its own caches are left out. GetByID passes over
\* an error of its second query: the video has no renditions then.
Vod(r) ==
    /\ At(r, "vod")
    /\ \/ Answer(r, IF HasMapping(request[r].video) THEN "done" ELSE "404") /\ UNCHANGED faults
       \/ Answer(r, "404") /\ faults > 0 /\ faults' = faults - 1
    /\ UNCHANGED <<metadata, cache>>

-----------------------------------------------------------------------------
InFetch(r) == request[r].at \in {"fetch", "read"}

\* No fetch outlives its timeout.
Tick ==
    /\ \A r \in Handlers : InFetch(r) => request[r].left > 0
    /\ age' = [v \in Videos |-> IF age[v] > Window THEN age[v] ELSE age[v] + 1]
    /\ entries' = [v \in Videos |->
                     IF Live(v) THEN [entries[v] EXCEPT !.left = @ - 1] ELSE entries[v]]
    /\ request' = [r \in Handlers |->
                     IF InFetch(r) THEN [request[r] EXCEPT !.left = @ - 1] ELSE request[r]]
    /\ UNCHANGED <<row, edits, lru, faults>>

\* The gateway restarts with an empty cache.
Restart ==
    /\ faults > 0 /\ faults' = faults - 1
    /\ entries' = [v \in Videos |-> NoEntry] /\ lru' = <<>>
    /\ request' = [r \in Handlers |-> [at |-> "done"]]
    /\ UNCHANGED metadata

Next ==
    \/ \E v \in Videos : Create(v) \/ Update(v) \/ Delete(v) \/ UpdateStatus(v)
    \/ \E r \in Handlers :
         \/ Ask(r) \/ Lookup(r) \/ Read(r) \/ Store(r)
         \/ FetchFails(r) \/ Vod(r)
    \/ Tick \/ Restart

Spec == Init /\ [][Next]_vars

-----------------------------------------------------------------------------
(* Properties *)

Recently(v) == age[v] <= Window
Owner(r)    == request[r].cred # "none"

\* The answer of HLSAuth to r is a.
Decides(r, a) ==
    request[r].at \in {"lookup", "read"} /\ request'[r].at = a

\* Whoever the gateway lets through to a video is someone the metadata service
\* would show it to, unless its visibility changed within the window: a slow fetch
\* that began before the change included, and one that overtakes another
\* (hlsauth.go:128-133, 243-259, against video.go:172-188).
AdmittedInWindow ==
    [][\A r \in Handlers :
        Decides(r, "vod") /\ Exists(request[r].video)
        => Shown(Owner(r), request[r].video) \/ Recently(request[r].video)]_vars

\* Whoever is refused a video would not be shown it either, or its visibility changed
\* within the window: no entry of the cache keeps a published video closed for longer
\* (hlsauth.go:281-312, against video.go:172-188).
RefusedForAReason ==
    [][\A r \in Handlers :
        Decides(r, "403")
        => ~Shown(Owner(r), request[r].video) \/ Recently(request[r].video)]_vars

\* Whoever was shown a ready video when the player asked for it is not told 404 but
\* for a delete, a late "failed" written to it since (Failed clears shown), or a
\* renditions query that failed: no cached answer, change of visibility or worker that
\* begins on it once more takes the mapping away on the way to nginx-vod
\* (hlsauth.go:273-276, handler video.go:247, repository video.go:195).
ShownHasMapping ==
    [][\A r \in Handlers :
        At(r, "vod") /\ request[r].shown /\ request'[r].at = "404"
        => row[request[r].video].vis = "deleted" \/ faults' < faults]_vars

\* The map and the list of the cache hold the same videos, each once, and no more
\* than the bound, whatever handlers look up, expire, store and evict in between
\* (hlsauth.go:196-236).
CacheConsistent ==
    /\ ToSet(lru) = {v \in Videos : Known(v)}
    /\ IsInjective(lru)
    /\ Len(lru) <= MaxEntries

=============================================================================
