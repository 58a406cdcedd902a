# A TLA+ model of Flowix

Flowix is a small video hosting system: a browser uploads a file, a transcoder
turns it into an HLS ladder, nginx-vod serves it. This directory holds TLA+
models of its parts (how the bytes of a file reach the store, what happens to the
video between the services, who may play it, what the gateway does with a
request, how a browser keeps its session), the TLC configurations that check
them, and TLAPS proofs about them.

## 1. Inventory

| Component | State it keeps | Operations | What is hard about it | What makes it correct |
|---|---|---|---|---|
| Metadata service (`services/metadata`) | `videos` (status, visibility, owner), `video_renditions` in Postgres | create, get, list, update, `UpdateStatus` (internal), `ListStaleUploaded`, `GetVODMapping`, delete with an object sweep | writers that know nothing of each other (upload, reconciler, several workers), a delete of three steps | a listed rendition exists, `ready` has its whole ladder and is not taken back by a redelivery, a deleted video leaves nothing behind |
| Upload service (`services/upload`) | none of its own: rows, MinIO objects and multipart sessions, the AMQP channel of the publisher | presign, multipart create / parts / presign-part / complete, direct upload, resumable put, complete | the row, the bytes and the event are three stores: any prefix of the three may be all that happens | an upload that was completed is transcoded, one that was abandoned fails |
| Reconciler (`services/upload/internal/reconciler`) | the list of the current pass | list, stat, republish, abort, fail | it acts on a snapshot while clients and workers go on | it repairs every stale row and harms none that is alive |
| Transcoder worker (`services/transcoder/app/consumer.py`) | the message it holds, its AMQP connection, a heartbeat thread | consume, idempotency check, status updates, fetch, encode, store, ack, retry, dead-letter | minutes between a read and the write that depends on it, at-least-once delivery, lost connections, crashes between any two calls | every event ends in a verdict or in the DLQ, the original outlives every attempt |
| RabbitMQ | main queue, retry queue (30 s TTL), DLQ | deliver, requeue, expire, dead-letter | redelivery, duplicates, ack timeout, deletion of a queue with other arguments | - (external) |
| MinIO | raw objects, renditions, thumbnails, sessions | put, stat, get, remove, multipart | - | - (external) |
| Auth service (`services/auth`) | users in Postgres, one active refresh `jti` per user in Redis | register, login, refresh (atomic rotation), me | lost answers, parallel refreshes, a second login | one live refresh token per user, reuse is detected |
| Frontend session (`frontend/src/lib/api.ts`) | tokens in `localStorage`, a single-flight refresh per tab | request with silent refresh, logout, multipart upload with resume | tabs share the storage and the `jti` but not the flight | a tab does not log out another that holds a valid token |
| Gateway (`services/gateway`) | metadata cache (LRU, TTL 10 s / 5 s), rate-limit windows in Redis | HLS authorisation, playback tokens, proxy, rate limit, client address | cache fill races a visibility change, windows and their edges | a visibility change is seen within the TTL, the limit holds per address |
| Watch page (`frontend/src/app/watch`) | video, playback URL, poll timer | poll until a verdict, fetch a playback token, stop after five errors | answers that arrive late | it shows the verdict of the row; no player after the session has ended |
| Shared packages, nginx, migrations, monitoring | - | wiring | - | - |

How they interact:

```
 client --create--> upload --CreateVideo--> metadata (row 'uploaded')
   |  bytes ------------------------------> MinIO raw/{id}/original.mp4
   '--complete--> upload --video.uploaded-> RabbitMQ --> worker
                                               ^            | status, renditions -> metadata
 reconciler --list stale--> metadata           |            | renditions -> MinIO
      |--stat/abort--> MinIO                   |            '- ack / retry queue / DLQ
      '--republish-----------------------------'
 owner --delete--> metadata: row, then listed keys, then prefixes in MinIO
 player --HLS--> gateway --visibility, status--> metadata;  nginx-vod --mapping--> metadata
```

The behaviours that a test hardly reaches are listed, each at its line, under
`hazards` in `PROJECT.json`.

## 2. Plan

Written, in this order:

1. **VideoLifecycle, VideoPipeline**: the path of a video from `uploaded` to a
   verdict or a delete, and the abstract specification it implements. It came
   first because everything else either feeds it or reads its result.
2. **RawUpload**: the four ways a file reaches `raw/{id}/original.mp4`. It opens up
   the two steps VideoPipeline takes in one (`AssembleSession`, `PutRaw`).
3. **RefreshRotation**: refresh tokens between the auth service and the tabs.
4. **Playback**: the metadata cache of the gateway against the rows.
5. **Edge**: client address, rate limit, identity of a proxied request.
6. **Handoff**: what uploads and workers rely on of each other, in eight steps of a row,
   an original and an event. `RawUpload` and `VideoPipeline` are shown to implement it,
   the one from the side of the bytes, the other from that of the workers.

Left, most useful first:

* **HeartbeatKeeper**: the two threads of the worker over one BlockingConnection,
  the `quiesced` hand-over, and the exception path that does not ask for it.
* **BrokerLink**: publisher reconnection, publishing without confirms, deletion of
  a mismatched queue by the publisher and by the worker at start, SIGTERM.
* **WatchPage**: two effects of one component whose late answers outlive what they
  were asked for (section 6 says what they do).
* A refinement of `VideoPipeline` by `RawUpload`. Both implement `Handoff`, which is
  what they have in common: row, object and event. Beyond it sessions and partial
  objects have no counterpart in `VideoPipeline`: a mapping needs a `grant` that
  several sessions share.

## 3. Modules

| Module | Content | Lines |
|---|---|---|
| `VideoLifecycle` | what readers of a row are promised: five steps of a row and its renditions | 49 |
| `Handoff` | the order of row, original and event, and that the original goes last | 72 |
| `VideoPipeline` | upload service, reconciler, metadata service, workers and queues as one transition system | 763 |
| `RawUpload` | multipart sessions and tabs, resumable chunks, presigned PUT, direct upload, reconciler, for one video | 549 |
| `Playback` | rows, metadata cache, concurrent HLS requests, the mapping request of nginx-vod | 344 |
| `RefreshRotation` | Redis, `localStorage`, the single-flight refresh of each tab, API calls | 346 |
| `Edge` | `ClientIP`, rate limit in Redis, preflights, routes, `X-User-ID` | 260 |
| `MC...` | symmetry and constants for TLC, one per module | |
| `...Proofs` | the theorems about a module, and their proofs | |

Each action is one call on a shared store, with the local code up to the next call;
in the browser, what a tab does between two awaits. Definitions whose comment says
"Mutant of" are plausible faults of the code. No action uses them: substituted for
the definition they name they show that a property can fail.

### VideoPipeline: state and code

| Variable | Code |
|---|---|
| `row`, `rends` | `videos.status` (or no row yet / deleted), keys of `video_renditions` |
| `aged` | `created_at` older than `UPLOAD_STALE_TTL_SECONDS` |
| `raw`, `objs` | `raw/{id}/original.mp4`, `renditions/{id}/{q}.mp4` |
| `grant` | what still lets the client store the bytes: a multipart session, a presigned URL (or the body of the direct upload) |
| `main`, `retryQ`, `dlq` | `video.uploaded`, `.retry`, `.dlq` (the last as the set of videos in it) |
| `pc`, `job` | where `handle_message` / `process_message` is, and the message it was called with |
| `linked` | the AMQP connection is open; a worker learns that it is not from the next call that raises, if it raises |
| `todo`, `made` | rest of `ordered`, and `renditions` of the run |
| `up`, `rec`, `del` | progress of the complete call, of the reconciler on the video, of the delete |
| `published`, `everReady` | history for the properties |
| `faults`, `drops` | how many failures and lost connections are still allowed |

`Fetch` is stat, disk check and download together, since they only read an
object that a run cannot change. A call that may fail has a disjunct that spends
one `Fault`; an update may also be applied with its answer lost (`Unheard`) where
the caller looks at the answer (`MarkReady`). Callers that ignore it
(`update_status` of `processing` and of `failed`, and the reconciler's
`SetStatus`) use `TryUpdate`.

### VideoPipeline: abstractions

* A message is an identity, a video and a retry count. Identities bound the number
  of messages: an event is published only while one is free. A retry copy takes a
  free identity or that of its original; if every one is taken and an equal copy is
  in flight, the two are one message.
* The order of encoding is left open (`_ordered_for_transcode` fixes 720p, 360p,
  1080p), so what holds does not depend on it.
* `Ladder[v]` is what the height of the source calls for. A failed ffprobe makes the
  run take all `Qualities`. `Corrupt` videos fail in every attempt.
* `raw` stands for a non-empty object of type video; empty and foreign objects are
  refused by both complete handlers and count as none. A presigned URL is used at
  most once.
* One complete call per video at a time, one delete (the row is gone after it).
  Another delete of the same id answers 404.
* Videos are fewer than the reconciler's limit of 100 rows.
* `INTERNAL_TOKEN` is set in every service. Messages that do not parse are acked
  and have no effect; they are left out, as are thumbnails, metrics, and the bucket's
  lifecycle rule that removes raw objects after seven days.
* The DLQ is not consumed by any code of the repository.

### RawUpload

| Variable | Code |
|---|---|
| `row`, `aged` | status of the row and whether its `created_at` is past the TTL |
| `session` | multipart sessions of the key: in progress, ever used, the parts stored in each |
| `raw` | the pieces of the object, in order; the file is `<<1, ..., N>>` |
| `events` | who has published `video.uploaded` |
| `resumeKey`, `tab`, `part` | `localStorage`, and where `uploadVideoMultipart` is in each tab |
| `found`, `listed` | `uploadID` and the parts `ListParts` has gathered, in a `Complete` or `PresignPart` call |
| `offset`, `awaits` | the client of the resumable endpoint: what it believes stored, the request it waits for |
| `chunk` | `ResumableHandler.Upload` for one request: `stat`, `get`, `put`, the start of its range, what it has read |
| `finish` | the `Complete` call of a presigned or resumable upload, or the body of the direct one |
| `rec` | the reconciler's pass over the video |

* A file is N pieces, one per part or chunk. `Latest` is `FindUploadID` (the latest
  initiated session), `PageAfter`/`Truncated`/`ListPage` the loop over
  `ListObjectParts`.
* A lost answer is its own disjunct: the call was executed and the caller goes on as
  for an error. minio-go repeats a lost initiate, so one `Create` may leave two
  sessions. Assumed: an initiate that minio-go gave up on is executed before its
  retry or never.
* The complete calls of two tabs interleave with each other, with parts, and with
  the abort of the reconciler.
* A resumable client sends a chunk, waits for the answer, and after a lost one asks
  for the offset (`AskOffset`). It may go on while a chunk is still being handled:
  `overlapped` records that, since two things are not promised then (section 6).
* A presigned URL is used at most once. When `uploadVideoMultipart` falls back to a
  direct upload it makes another video, with another key and row.
* `TakeEvent` is the worker marking the row; the rest is VideoPipeline.

### Playback

| Variable | Code |
|---|---|
| `row`, `age` | visibility and readiness in Postgres; time since the row last went from private to not private or back |
| `entries`, `lru` | `metaCache.entries` with the time each has left, `metaCache.lru` |
| `request` | a handler of `HLSAuth`: `lookup`, `fetch` (the call is out), `read` (the row was read, the answer is not there yet), `vod` (passed on to nginx-vod) |

* Time is in ticks and relative. A fetch reads the row at one moment and is answered
  later, at most `Timeout` after its start; entries live `TTL` or `NegTTL`. The sizes
  keep what the code has: `NegTTL < TTL`, `TTL + Timeout <= Window` (10 s + 3 s in
  15 s).
* Who asks is a class: the owner with a token that is valid, or anyone else. Tokens
  are data here; signing and parsing them is left out.
* A video that does not exist is let through by `HLSAuth` (a 404 from the metadata
  service is no refusal); the mapping request then answers 404.
* `UpdateStatus` is any status written by a worker or the reconciler. The guard of the
  statement (`Kept`) keeps `processing` off a ready row and nothing else: a late `failed`
  takes readiness away. Requests for the video then forget that it was shown to them
  (`Failed`, history). An update that leaves the row as ready as it was is left out.
* `Vod` is nginx-vod asking for the mapping. Its own caches are not in the repository
  and are left out, as is the `Cache-Control` of answers.

### RefreshRotation

| Variable | Code |
|---|---|
| `active`, `owner`, `issued` | `auth:refresh:{user}` in Redis; token pairs are numbered by issue |
| `expired` | access tokens up to this one have expired |
| `access`, `refresh` | `localStorage`, shared by the tabs |
| `flight` | `refreshPromise` of a tab (`sent`, `granted` or `refused`, `stored`) and the token its request carries |
| `call` | `request()`: the token it was sent with, `refreshBefore`, whether it was retried |

* `Rotate` is the Lua script, atomic in Redis. `StorePair` is the answer reaching the tab
  that asked, which stores the pair; `Settle` resolves the promise after the import that
  is awaited next (api.ts:95), and wakes every call that waits, those that joined in
  between included.
* Compare-and-erase at api.ts:132 is one step: there is no await between them, and
  another tab's write in between is left out.
* `init` is the request of `/api/v1/auth/me` with the catch of auth.ts:38 (it removes the tokens for
  any error). Redis failing answers 503, which the client treats as a refusal.
* The copy of the token in the store of a tab is left out, and refresh tokens do
  not expire.

### Edge

| Variable | Code |
|---|---|
| `counters` | `ratelimit:{ip}:{bucket}` in Redis, with what is left of `PEXPIRE` |
| `request` | a request between middlewares: `limit` (bucket chosen, script not run), `route`, `upstream` |
| `asked`, `passed` | history: what a client sent in each bucket; how much of it was counted in time and let through up to each second |

* A way is the client and up to `MaxHops` trusted proxies, each appending its peer to
  whatever the client claimed. `Counters[c]` is every address a request of `c` can be
  counted under: `RealIP` and `RateLimit` each ask `ClientIP`.
* `Window` is `max(1, burst / rps)` seconds, an integer division as in the code.
* Redis may fail before or after the script ran; the request goes on in both cases.

## 4. Runs

The runs of `MCVideoPipeline` use one video: the actions of two videos touch
disjoint rows, objects and messages, except for the reconciler's pass and the
choice of the next message, which no safety property depends on (the theorems
hold for every number of videos).

| Run | Instance | Shows |
|---|---|---|
| `pipeline_drops` | 2 workers, 1 message identity, 3 qualities with a ladder of 2, 1 fault, 1 lost connection | `TypeOK`, `RenditionsBacked`, `RawUntilReady`, `UploadedNotLost`, and `LifecycleKept`: VideoPipeline implements VideoLifecycle |
| `poison_message` | 2 workers, 2 identities, a corrupt file, 2 faults | `NoSilentLoss` |
| `settles` | 1 worker, 1 identity, 2 qualities with a ladder of 1, 3 faults, fairness | `UploadSelfHeals`, `PublishedSettles`, and `HandoffKept`: VideoPipeline implements Handoff (with two workers and lost connections by the theorem only) |
| `raw_upload` | 3 pieces, pages of 1 part, 2 tabs, 2 chunk requests, 2 sessions, 3 starts, 3 faults, fairness | `MultipartWhole`, `ChunksInOrder`, `CompleteMeansWhole`, `StoredIsAnnounced`, and `HandoffKept`: RawUpload implements Handoff |
| `playback` | 2 videos, 2 requests, a cache of 1, lifetimes 2 and 1, timeout 1, window 3, 2 edits, 1 failure or restart | `CacheConsistent`, `AdmittedInWindow`, `RefusedForAReason`, `ShownHasMapping` |
| `refresh_rotation` | 2 tabs, 3 calls of which 2 share a tab, 3 starts, 1 upset, fairness | `OneRefreshEach`, `SessionSurvives`, `OnlyLatestHonoured`, `EveryCallEnds` |
| `edge_limit` | 2 clients, 1 proxy, 2 hops, claims of 2, 2 requests at once, 5 counted in 4 seconds, rate 1, burst 2, 1 failure of Redis | `OwnAddress`, `WithinLimit`, `VerifiedIdentity`, `RefusedForOwnTraffic` |
| `ready_failed` | 1 worker, no fault, 1 lost connection | `ReadyIsFinal` fails |
| `completed_failed` | 1 worker, no fault | `CompletedUploadNotFailed` fails |
| `stuck_processing` | 1 worker, a corrupt file, a ladder of 1, 1 fault, fairness | `EveryVideoGetsVerdict` fails |
| `orphans` | 1 worker, no fault | `NoOrphans` fails |
| `fresh_erased` | 2 tabs, 3 calls, no upset | `FreshTokensKept` fails |

Each passing run of a new module also checks its `TypeOK`.

### Bounds

* **VideoPipeline**: `MaxRetries` is 1 (the code has 3): one copy with retries left and
  one without are the two cases of the handler. One identity still gives two
  messages at once, a message and its retry copy differ in the count. One lost
  connection with two workers is what it takes to have a zombie beside its
  successor; one fault beside it lets any call of either fail, or a worker or
  service crash. A third quality makes the ladder of a run whose ffprobe failed
  longer than that of the other.
* **RawUpload**: three pieces give a first, an inner and a last one, and with pages of
  one part a listing of three pages. Two tabs are two complete calls of one session.
  Three faults are a lost answer, a failure in the recovery from it and one more.
* **Playback**: with two videos and room for one, every store evicts. Two requests
  race for an entry and for the row. The window is the smallest that the assumption
  on the sizes allows, so a change seen one tick late is a violation.
* **RefreshRotation**: two calls of a tab share a flight and one of another tab races
  it; three starts let the first to return start again.
* **Edge**: two seconds to a bucket and four in all give a full bucket, a boundary
  inside a window of two seconds, and the expiry of a key. Two hops are a proxy that
  sees the client and one that does not.

Playback and Edge are checked for deadlock: requests never end. In the other runs it is
not: VideoPipeline stops when a video is deleted and its messages are gone, RawUpload
when the client has finished and the event was taken, RefreshRotation when its bounds
are used up and no call is left.

`NoSilentLoss` is conditional on no connection having been lost. After a loss it
does not hold, and cannot: the message of a zombie is redelivered, skipped by the
next worker because the row has failed meanwhile, and the zombie then marks the row
`processing` again with no message left. The zombie may still finish; if it dies
the row stays `processing`.

### Fairness

`FairSpec` of VideoPipeline asks for weak fairness of: the delivery to and the steps
of each worker, the ack timeout of the broker, the TTL of the retry queue, the publish
of a complete call that has stored its object, the ageing of a row, each step of the
reconciler and the start of its next pass (a ticker in a loop), and the sweeps of a
delete. All are loops or straight-line code with timeouts on their calls. Nothing is
asked of clients, of owners, or of failures. Restarts and failures are finitely many
(`MaxFaults`), which stands for: the system is not down for ever. The properties
are checked without lost connections (see `NoSilentLoss`).

`FairSpec` of RawUpload asks for the ageing of the row, the start of the reconciler's
pass and its steps, and of nobody else: that a stored file is announced in the end
does not depend on the client coming back.

`FairSpec` of RefreshRotation asks that some step of a call or a flight is taken as
long as one is possible: requests are answered or given up by the browser, and
continuations run. `EveryCallEnds` is then about the waiting among calls. It says that
time and again no call is left; since `MaxStarts` and `MaxUpsets` bound the calls, that
is the same as each of them ending.

### What the violations show

* `ready_failed`: connection lost while the worker encodes; the ready update
  succeeds; `basic_ack` raises; the exception path cannot publish or ack either and
  sets `failed`. The redelivered message is skipped as already failed.
* `completed_failed`: stat says no object, the client completes, the reconciler
  fails the row. The same happens without a race when the stat fails for another
  reason. `MarkProcessing` may lift the row again if a worker was already past its
  status check, otherwise the video stays failed with its original stored.
* `stuck_processing`: the last retry fails, so does the update to `failed`, the
  message goes to the DLQ, and neither reconciler nor worker returns to the row.
* `orphans`: the delete's sweeps run between two renditions of a worker.
* `fresh_erased`: a tab refreshes with the old token while another has rotated it; the
  other stores the fresh pair; a second call of the first tab gets its 401 now, reads
  the fresh token as `refreshBefore`, joins the flight of the old one, is refused, finds
  the stored token unchanged and erases it.

## 5. Proofs

The theorems hold for all sets the constants stand for, finite or not where nothing
is said, and for all bounds, under the named assumptions of the modules.

| Module | Theorem | Statement | Invariant it rests on |
|---|---|---|---|
| `VideoPipelineProofs` | `TypeCorrect` | `Spec => []TypeOK` | itself |
| | `RenditionsAlwaysBacked` | `Spec => []RenditionsBacked` | `TypeOK /\ DeleteInv /\ BackedInv` |
| | `RawAlwaysKept` | `Spec => []RawUntilReady` | `TypeOK /\ DeleteInv /\ RawInv` |
| | `PipelineImplementsLifecycle` | `Spec => LifecycleKept` | the first two |
| | `UploadedNeverLost` | `Spec => []UploadedNotLost` | `TypeOK /\ LossInv` |
| | `NothingSilentlyLost` | `Spec => []NoSilentLoss` | `TypeOK /\ LossInv` |
| | `PipelineImplementsHandoff` | `Spec => HandoffKept` | `TypeOK /\ DeleteInv /\ RawInv /\ LossInv /\ HandoffInv` |
| `HandoffProofs` | `EventsFindOriginals` | `Spec => []EventFindsOriginal` | itself, with the types |
| `RawUploadProofs` | `ChunksAlwaysInOrder` | `Spec => []ChunksInOrder` | `Typed /\ RouteInv /\ WholeInv /\ ClientInv /\ OrderInv` |
| | `TypeCorrect` | `Spec => []TypeOK` | `TypeOK`, and every chunk starts within the file |
| | `MultipartAlwaysWhole` | `Spec => []MultipartWhole` | the two above `/\ SessionInv /\ WholeFile` |
| | `UploadsImplementHandoff` | `Spec => HandoffKept` | the same `/\ MadeInv /\ StoredInv` |
| | `CompleteAlwaysWhole` | `Spec => []CompleteMeansWhole` | the same `/\ JoinedInv` |
| `PlaybackProofs` | `AdmittedOnlyInWindow` | `Spec => AdmittedInWindow` | `Typed /\ ReadInTime /\ EntriesInTime /\ ShownStaysReady` |
| | `RefusedOnlyForAReason` | `Spec => RefusedForAReason` | the same |
| | `ShownAlwaysMapped` | `Spec => ShownHasMapping` | the same |
| | `CacheAlwaysConsistent` | `Spec => []CacheConsistent` | the same `/\ ListInv` |
| | `TypeCorrect` | `Spec => []TypeOK` | the same `/\ ListInv` |
| `RefreshRotationProofs` | `TypeCorrect` | `Spec => []TypeOK` | `TypeOK /\ FlightInv /\ ActiveIsLatest` |
| | `OnlyLatestExchanged` | `Spec => OnlyLatestHonoured` | the same |
| | `SessionAlwaysSurvives` | `Spec => []SessionSurvives` | the same `/\ (Calm => Ordered)` |
| | `EachRefreshPaid` | `Spec => []OneRefreshEach` | that of `TypeCorrect` `/\ Paid` |
| `EdgeProofs` | `AddressIsOwn` | `Spec => []OwnAddress` | `Typed`, `Handled` of every request, `Owed` |
| | `IdentityIsVerified` | `Spec => []VerifiedIdentity` | the same |
| | `RefusedForOwn` | `Spec => RefusedForOwnTraffic` | the same |
| | `LimitAlwaysKept` | `Spec => []WithinLimit` | the same, `Rated`, `Ahead`, `Due` (`RateInv`) |
| | `TypeCorrect` | `Spec => []TypeOK` | the first and `Spent` (`TypeInv`) |

Assumptions: VideoPipeline - `LadderAssumption` (each video has a non-empty ladder of
known qualities), `BoundsAssumption`, `KeepRawAssumption`, `NoJobAssumption`.
RawUpload - `SizesAssumption`, `IdleAssumption`. Playback - `SizesAssumption` and
`WindowAssumption`, `NegTTL <= TTL /\ TTL + Timeout <= Window`, which is what the
staleness of 15 s in the code's comment needs. RefreshRotation - `TabsAssumption`
(each call belongs to a tab), `BoundsAssumption`. Edge - `LimitsAssumption`,
`AddressesAssumption` (no client has the address of a trusted proxy),
`HandlersAssumption` (finitely many requests in flight).

Why the invariants are stronger than the properties:

* `BackedInv` adds the workers: what a run will report (`made`) is stored, and with
  `todo` it covers the ladder. Without it a report could list anything. It excepts
  deleted videos, whose objects the sweeps remove under a running worker;
  `DeleteInv` says that a sweep implies a deleted row.
* `RawInv` adds those who are about to publish (`up = "stored"`,
  `rec = "republish"`), so that publishing keeps the property, and that a worker
  about to remove the original has seen `ready` applied.
* `LossInv` covers `uploaded` always, `processing` while no connection was lost
  (`Covered`), and adds that nothing is published before its row exists and that
  connections are open as long as none was lost. The proof turns on two facts: a
  worker gives up a message only when the row has a verdict, or after it has put
  the message in a queue; and with its connection lost, the broker has put it back.
* `HandoffInv` says that messages and the jobs of workers are about videos that were
  announced, so that whoever writes `processing` or `ready` may, and that nobody can
  store bytes before the row is made. With `RawInv`, which has the original of whoever
  is about to publish or has seen `ready` applied, each step is one of `Handoff` or
  none of its business.
* `MadeInv` and `StoredInv` say the same of the four ways to upload: who may write the
  object or the event comes after the row, and who is about to publish has seen an
  object. For multipart the latter turns on the listing: a complete call does not
  join an empty list of parts (`PageFound`, `JoinedFound`).
* `OrderInv` of RawUpload adds the chunk being handled: what it has read is the
  beginning before its start, and its start is still the size of the object when it
  reads. That holds because only one is handled, which is what `overlapped` excludes.
  `RouteInv` says that the steps of the other routes are not possible meanwhile, and
  `WholeInv` and `ClientInv` say what the client knows when it announces the file.
* `JoinedInv` says that tabs announce only what went by parts. With `StoredInv` there is
  an object then, and with `WholeFile` it is the file if one session was used. For the
  other routes `CompleteMeansWhole` follows from `WholeInv` and `OrderInv`.
* `ShownStaysReady`: a request that still counts as shown is about a video that is ready
  or was deleted. The guard at `repository/video.go:195` keeps a redelivered message from
  breaking that; a late `failed` passes it, and ends the note (`Failed`).
* `EntriesInTime` and `ReadInTime` bound the age of what disagrees with the row. An
  answer that was read before a change is at most `Timeout` minus what it has left
  too old, and an entry at most `Timeout + TTL` minus what it has left. So a decision
  is off by at most the window, however lookups, fetches, stores and changes interleave.
* `ActiveIsLatest` makes the active token of a user the last one issued to them, which
  is what makes a superseded token useless. `Ordered` adds, while nothing disturbs the
  session, that a granted flight carries the last token, which is not stored yet; that
  a refused flight never carries the last token; and that a call that lost remembers
  an older one. So what it compares with the store differs, and nothing is erased.
* `Owed` counts the requests that wait for the script with the counter they will
  raise. Their sum is at most what the client itself sent in that bucket, since no
  other address leads to its counter: `CountersAreOwn`, which is the walk over
  `X-Forwarded-For` for every length of the way and of the claim.

* `WholeFile` follows each tab through its part of the upload, while one session was used:
  before part p is sent, the session holds the parts before it (`Progress`); what a
  complete call has listed so far is a beginning of the parts, and the page without a
  next one completes it (`LastPage`). It needs that an open session is the one a tab has
  found, and that only the tab that makes the row knows the key before (`SessionInv`).
* `ListInv` is `CacheConsistent` with its types. That a list loses exactly the video that
  is taken out (`WithoutList`, `InFrontList`, `FrontList`) needs that each occurs once; that
  the bound is kept needs that a list without repetition is as long as the set it lists
  (`DistinctLength`), since the code counts the map and evicts from the list.
* `Paid` adds to the tokens issued those that are still to come: a refresh that is asked
  for, a call that was not retried yet, a login that was not answered. Starts and
  failures pay for them, so a call that joins a refresh costs nothing.
* `Rated` says by client and bucket that what was let through is at most the burst, and
  that the counter of the current bucket knows of all of it and lives as long as the
  bucket: `Past` and `Current`. `Ahead` and `Due` keep the clock and the buckets chosen by
  waiting requests in order. A window meets two buckets (`TwoBuckets`), hence two bursts.
* `Spent` of Edge counts, with what a client has sent or got through, its requests that
  wait and those that may still be sent, which bounds every history and every counter.

Each step lemma has one step per action.

Every invariant and action property of a passing run is the statement of a theorem. Only
model-checked: the liveness properties (`UploadSelfHeals`, `PublishedSettles`,
`StoredIsAnnounced`, `EveryCallEnds`), since the prover handles neither fairness nor
ENABLED here.

## 6. What else was met

The code does these things, and the properties above are stated so that they are true
of it.

* **Sessions.** After a repeated initiate there are two sessions. minio.go:197-198 says
  that the latest wins, so that nothing is bound to a stale one; when the latest ends, the
  older is the latest again, and a complete call of a second tab can assemble a part of
  the file from it. `MultipartWhole` and what `CompleteMeansWhole` says of multipart are
  therefore stated for one session.
* **Resume.** The listed parts are encoded without JSON tags, so api.ts does not find
  `part_number` and sends every part again.
* **Chunks.** `resumable.go:160-216` stats, reads and rewrites the object in three calls.
  Two requests of one range at once may append a piece twice, and a late first chunk
  whose stat fails replaces a finished file, a confirmed one included. `ChunksInOrder`
  and what `CompleteMeansWhole` says of the other routes therefore except uploads whose
  chunk requests overlapped.
* **Reconciler.** It publishes any object of non-zero size, the beginning of a resumable
  upload included (reconciler.go:88-91).
* **Content type.** An octet stream is accepted when the upload is created and refused
  when it is completed (multipart.go:274, presign.go:157); the reconciler announces it
  later.
* **Late failures.** The statement of `UpdateStatus` protects a ready row against
  `processing` and `uploaded` only (`repository/video.go:195`), so the `failed` of a
  zombie worker (`ready_failed`) is written over it. The mapping is 404 from then on
  (handler video.go:247), for viewers who are watching as well; `ShownHasMapping`
  excepts this.
* **Playback.** Answers for public videos may be kept for a day by browsers
  and caches on the way, longer than the window. Playing a private video stops when the
  token of the player, fifteen minutes, has expired. An error of the renditions query
  makes the mapping 404, though the handler has a branch for errors
  (handler video.go:238).
* **Partial ladders.** The comment at `consumer.py:577` has nginx-vod serve a partial
  ladder, but the mapping answers 404 until the row is ready.
* **Rate limit.** Buckets are fixed, so two bursts fit around a boundary (`WithinLimit`
  says no more than two). A script that is delayed past the life of its key starts it
  anew. `X-User-ID` is left as the client sent it on the routes of auth and HLS, whose
  services do not read it. `clientip.go:104` says the leftmost address is taken when all
  are trusted, the loop keeps the rightmost.
* **Session.** A lost answer after the rotation costs the session, as does Redis being
  unavailable during a refresh. The catch of `init` removes the tokens for any error of
  `/api/v1/auth/me`. A refresh answered after a logout, or after the login of another user, stores
  its tokens over theirs.
* **Watch page.** A poll answered after the verdict sets the video back to `processing`
  with no further poll; a token request answered after the session has ended starts the
  player again (page.tsx:73-78).

## 7. Not modelled

* The heartbeat thread, the pika calls of the exception path and the topology changes of
  the publisher and the worker (planned, section 2).
* The watch page and the player: two effects of one component; described above.
* The other pages, thumbnails, encoder settings, titles and lists, HTTP wiring, request
  body limits, CORS headers, logging and metrics: no state that other parts depend on.
* Registration and passwords (a registration issues tokens as a login does), and the
  limiter of the auth service.
* nginx-vod, Postgres, Redis, RabbitMQ and MinIO beyond the calls the code makes on them;
  migrations, monitoring and generated API documentation.
