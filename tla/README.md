# Lyrit Loom: verification project

TLA+ models of the state that Lyrit Loom keeps and of the processes that change it, model-checked
with TLC, with theorems checked by TLAPS. The models are translated from the Rust, SQL and TypeScript
sources; line numbers are in `PROJECT.json` ("map"). Documentation is quoted only where a property
states what a document promises.

## 1. The system

Lyrit Loom stores projects with an audio track, a background image and a timed transcript. The API
(`apps/api`, axum) and any number of workers (`apps/worker`) share one PostgreSQL database
(`crates/persistence`) and one directory of artifacts (`crates/media`). They never talk to each other
directly: jobs go through the `jobs` table, and what a job does is told through `job_events`. A
browser (`apps/web`) calls the API and watches jobs over server-sent events.

| component | state | operations | interacts with | what is hard | what makes it correct |
|---|---|---|---|---|---|
| **job queue** (`PgJobRepository`, `db/migrations/0001_jobs.sql`) | `jobs`, `job_events` | insert, `claim_next` (SKIP LOCKED), `update_progress`, `complete`, `fail` | called by API and workers; events read by the stream | concurrent claims; a commit whose answer is lost; reports of workers that no longer own the job; abandoned rows; errors that would pass | one owner per running job, terminal rows final, the log is the story of the row, queued work is not starved |
| **worker** (`apps/worker/src/main.rs`) | its loop, the job it has | claim, handle, report the failure, sleep; run-once mode | queue, project store, ffmpeg, transcriber | crash between any two calls; `fail` is tried once and its result ignored; Ctrl-C drops a claim in flight | carries out only what it owns, settles or abandons every claim |
| **projects, assets, transcripts** (`PgAssetRepository`, `PgTranscriptRepository`, migrations 2 and 3) | `projects`, `assets`, `transcript_revisions`, transcription rows of `jobs` | activate an asset, request a transcription, activate a worker's transcript, replace the active one (If-Match) | API, worker | READ COMMITTED transactions that check, wait for a row lock and write; two ways of counting revisions; replaced audio | the active revision is the latest and fits the audio, nothing is overwritten unseen, a key is one job |
| **transcription pipeline** | both of the above, a directory per job | the transcription handler end to end, with the files it makes | ffmpeg, transcriber | activation and completion are separate transactions; results that do not pass the checks; directories of processes that died | a succeeded job has its revision, only owners activate checked results, directories go |
| **event stream** (`stream_job_events`) | cursor per connection | read events behind the cursor each tick, send, end at a terminal event or an error | `job_events`, clients | ids drawn before the commit; batches; broken connections and resumption, also from behind the last event | nothing missed, repeated or late; the outcome arrives; streams of finished jobs end |
| **asset upload** (`upload_project_asset`, `AssetService::upload`, `LocalArtifactStore`) | the form as far as read, files, the `assets` row | read the fields, stream to a temporary file, rename, inspect, record, delete on failure, answer with a status | file system and database | two stores that do not change together; fields in any order; dropped requests; removals that go on without their request; lost answers | a recorded asset is what was sent and has its bytes; leftovers and statuses are explained |
| **timeline** (`validate_timeline`, `transcriptEditor.ts`) | the draft of the editor | cue bounds, word text and times, split, merge, nudge; the checks of browser and server | editor, save | two checks of one rule in two languages; boundaries; sequences of commands | both checks agree, commands lose no word, structure commands keep a valid timeline valid |
| **reading assets** (`parse_range`, `AssetService::content`, `open`) | position in a file | range header, stream of chunks | player in the browser, file system | both ends of the file; a file shorter than its row | the bytes sent are those asked for; a cut body does not look complete |
| **project CRUD and listing** (`ProjectService`, `PgProjectRepository`) | `projects`: name, settings, `updated_at` | create, PATCH of either field, list by offset | web | pages over a list that writers reorder; times older than those they replace; PATCHes at the same time | what a reader misses or repeats is bounded by the writes; PATCHes of different fields merge |
| **web transcript editor** (`App.tsx`) | transcript, ETag, draft, saving, conflict, rename form | load, refresh, edit, save, reload, cancel, rename | API, other tabs, workers | answers in any order; effects behind the commit they belong to; components that go; stale tags | nothing overwritten unseen, never stuck, drafts kept at a conflict |
| web workspace (`App.tsx`) | project cards, uploads | | API | | only its event source and its refreshes are modelled |
| transcriber (`apps/transcriber`) | none | one request, one file | worker subprocess | | a step that fails, is killed, or leaves a result that passes the worker's checks or not |
| API errors (`error.rs`) | none | a status for each error | | what a status lets the client conclude | the statuses of an upload |
| wiring and start-up, data types, generated client | none | | | | not modelled: no state |

The hazards of each, at their lines, are in `PROJECT.json` ("hazards").

## 2. Modules

```
JobFeed <-----------(implements)--- JobQueue <------- MCJobQueue
   ^                                   ^   ^--------- JobQueueProofs <---.
   |                                   |                                 |
EventStream <-- EventStreamProofs  Transcription <--- TranscriptionProofs
                                       |      ^------ MCTranscription
                                       v
ProjectStore <----(implements)--- ProjectTransactions <-- MCProjectTransactions
   ^                                   ^
   |                               ProjectTransactionsProofs   (also of ProjectStore)
   |                                   ^
WebEditor <--------------------- WebEditorProofs ---> Timeline (also of Timeline)
   ^--- MCWebEditor                                      ^--- MCTimeline

Upload <--- UploadProofs     Download <--- DownloadProofs
ProjectListing <--- ProjectListingProofs
```

**JobFeed** is what the queue promises to somebody who only sees statuses and events: a job is
submitted, claimed, advanced while it runs, settled once, and each of these adds one event. The state
machine of `docs/ARCHITECTURE.md:266` also has a way back to `queued` and cancellation; the code has neither,
and so has JobFeed (see disagreements).

**JobQueue** is the queue as coded. `jobs[j]` is a row, `events[j]` the rows of `job_events` of `j` in
sequence order, `worker[w]` the control state of a process: `poll` (claim in flight, or asleep),
`claim` (the transaction of `claim_next` holds a row), `handle` (inside `handle_job`), `report` (the
handler returned an error), `down`. `claim_next` is two steps, `ClaimLock` and
`ClaimCommit`/`ClaimRollback`, because other claims skip the row it has locked; every other statement
pair (UPDATE, `append_event`) is one step, `Store`, as in its transaction. Each repository call of a
worker has three outcomes: applied and acknowledged; not applied (`HandlerError`, `ReportLost`,
`ClaimRollback`); applied with the acknowledgement lost (second disjuncts of `ClaimCommit`,
`Progress`, `Complete`; for a failure report it makes no difference). `Stop` ends a process at any
point, `Start` starts it without memory. `created_at` is the start of the inserting transaction, so
stamps may be equal and may become visible in another order than they were drawn. The guard on the
UPDATEs (`lease_owner = $2 AND status = 'running'`) is `Owns`; lease and heartbeat times are written
and never read and therefore left out. What happens inside ffmpeg and the transcriber is the time
between two calls.

**ProjectStore** gives the operations on one project as atomic steps. Rows of different projects never
meet in a statement. `base` of a transcript is a history field: the revision that was active before.
`transcriber` is the job whose metadata the row carries, since an edit copies it from its base.

**ProjectTransactions** is the same operations as coded, for `Txs` connections: what a transaction
reads before it locks the project row (`Begin...`), the locking read and the checks behind it
(`Lock...`), the writes and the commit (`Commit...`), and `Rollback` at any time. `Lock...` sees the
newest committed tables, as a locking read at READ COMMITTED does; `LockEnqueue` follows PostgreSQL's
rule for a join under FOR UPDATE, which looks at the project row again after waiting but not at the
asset it was joined with. Unique constraints are guards of the commits, and `ConstraintsNeverFire`
says that they are never needed.

**Transcription** composes JobQueue and ProjectStore. The request inserts the row both see. The handler
is the queue's, with the work before each progress call made explicit: `Prepare` (payload, path,
`create_dir_all`), `Normalize` (ffmpeg), `Transcribe` (the transcriber, whose result file is `valid` or
`invalid`), `ActivateTranscript` (a transaction of its own, whose acknowledgement may be lost). `ready`
says that this work is done and the next call may be made, `workspace` is the directory of each job,
`cleaning` the directory that the caller of `run_transcription` is about to remove, and `left` collects
those that nobody will remove. `RunError` is any failure behind the first call; the outcome of the
handler reaches the loop only when the directory was dealt with (`RemoveWorkspace`).

**EventStream** composes JobFeed with the stream handler and one client. `open` holds the id of an
event whose transaction has not committed: the writers lock the job's row first, so that there is at
most one. `OtherJob` uses up ids. `TickError` is a failed query, which ends the stream. `conn.from`
remembers the Last-Event-ID a connection began with. With `Resuming` the client is one that reconnects
with Last-Event-ID, as the contract asks, and that may stay connected behind the terminal event;
otherwise it is the web application, which closes its EventSource at the first error or at the end.

**Upload** models requests with a form and a file each. The handler takes the fields in the order the
client chose (`KindField`, `BadField`, `FileField`, ...); then temporary bytes, bytes under the storage
key, what ffprobe finds (`found`), the row. `sent` and `body` remember what the client sent; `answer` is the
`ApplicationError` of the request or `Created`, and `HttpStatus` the status that `error.rs` gives to it.
`Drop` is the end of the request's future (client gone, process ended); a commit may be reported as an
error, which the code takes for a failure. A request with an error to answer is `deleting`: the removal of its
file (`Remove`) and the answer (`AnswerError`) are two steps, since `remove_file` runs on the blocking pool and
goes through although the request is dropped meanwhile; it may also fail, or never happen when the process has
ended. `leaked` is an answered request whose removal of a file failed unnoticed.

**Timeline** is the draft as a sequence of cues of words, the commands of the editor on it, and both
checks: `NoIssues` (`validateTimeline`, issue by issue) and `ServerAccepts` (`validate_timeline`, and
that times decode as `i64`). `Unit` is the number of steps in a millisecond: 1 types whole milliseconds
only, 2 also halves.

**Download** is one request from the header to the end of the body. A byte is its position; a number
that does not fit into a `u64` counts as no number.

**ProjectListing** is one reader that pages through the list while `Writes` begin and commit: a project
is created, or a PATCH sets its name, its settings or both, or an activation touches the row. Position
in the list is computed from `updated_at`, which holds the time at which the writing transaction
began. `Coalesce` is the UPDATE on the newest version of the row, which a statement that waited for the
lock sees. `log`, `known` and `during` are history. `SkipsAreExplained` speaks of the step that reads
the last page. It does not hold of the states behind it: with four writes of two projects, two of them
before the first page, the listing misses a project that another one was written behind, and a late commit
after the last page gives the missed project a still older time, so that the write that hid it no
longer sorts behind it. (The run has two writes, with which this cannot happen; the attempt to prove
the invariant showed it, and TLC confirms it on four writes.)

**WebEditor** puts one tab in front of ProjectStore: `shown` and `etag` are App's `transcripts` and
`transcriptEtags` of the project, `review` the state of `TranscriptReview`, `call` the requests in flight.
Requests are sent, served and answered in three steps, so that answers overtake each other and the
server changes in between. An answer with a transcript commits `shown` and `etag` together (`Take`); the
draft is reset by the passive effect on `[transcript]`, which React 19 runs in a later task (`pending`,
`RunEffect`), so that an event of the user may come between the two. An event that updates state of the
component has the effect run before its own commit (`Update`). The rename form takes the place of the editor
(`OpenRename`), which is mounted afresh when it goes (`CloseRename`). A component that was unmounted no longer
reacts to its answers (`live`). `authored` is history: what a save replaced, what its draft was made from, what
was on the screen when it was sent, and whether the effect was pending (`early`).

The MC modules hold values of constants and symmetry sets only. Definitions commented as "Variant"
stand next to the definition they vary: each is a plausible mistake (a dropped guard, a stale read, a
missing lock) under which the property named for it in `PROJECT.json` ("mutants") is violated, which
shows that the property depends on the code. They are part of no specification.

## 3. What TLC checks

| run | instance | shows |
|---|---|---|
| `queue` | 2 jobs of either kind, 2 time stamps, one worker for both kinds and one run-once worker for probes | `LogFollowsPipeline`, `LastEventIsRow`, `OneWorkerPerJob`, `AttemptsWereQueued`, `TerminalIsFinal`, that JobQueue implements JobFeed, `SettledOrAbandoned`, `QueuedIsClaimed` |
| `queue_recovery` | 1 job, 2 equal, supervised workers | **violated:** abandoned work is never recovered |
| `store_transactions` | 3 connections, 3 audio assets, 1 background, 3 jobs, 2 keys, revisions up to 4 | the store invariants and that ProjectTransactions implements ProjectStore |
| `transcription` | 2 jobs, 2 workers, 2 audio assets, 1 background, 2 keys, revisions up to 3 (382,232 states) | `SucceededHasRevision`, `WorkspacesAreExplained`, `OnlyOwnersActivate` |
| `event_stream` | batches of 2, 5 events, 7 ids, resuming client | `ReceivedIsPrefix`, `NoLateEvent`, `EndMeansComplete`, `StreamsEnd`, `LearnsOutcome` |
| `event_stream_web` | as above, web client | **violated:** the web client may never learn the outcome |
| `upload` | 2 requests with up to 3 fields, files of 0 to 3 chunks where 2 are allowed, durations up to one above the limit, commits whose answer is lost (826,281 states) | `AssetHasBytes`, `RecordedIsWhatWasSent`, `OrphansAreExplained` |
| `timeline` | 3 words in one or two cues, 3 commands, half milliseconds, also before the start and behind the end | `ValidatorsAgree`, `AcceptedIsPlayable`, `WordsAreKept`, `StructureIsSafe`, `NudgeIsRigid` |
| `download` | files of 1 to 5 bytes, whole, cut or missing, numbers up to 7, chunks of 2 | `AnswersWhatIsAsked`, `CompleteIsAll` |
| `project_listing` | 4 projects, 2 writes, pages of 1 or 2, 3 times (1.7 million states) | `ErrorsAreBounded`, `PatchesMerge`, and of the step that reads the last page `SkipsAreExplained` |
| `web_editor` | 2 requests in flight, 2 jobs, 2 audio assets, revisions up to 3, drafts edited once (6.7 million states) | `OverwritesAreExplained`, `SavingIsAwaited` |
| `web_editor_conflict` | as above | **violated:** a load discards the draft during a conflict |

*Bounds.* Jobs, workers, connections, assets and keys are finite sets, and no action needs more than
two members at a time to interfere; a third connection (store) gives a bystander to both, and the
theorems do not depend on any number. The attempt counter and the event logs need no bound, since no job returns to the queue. `Times` of
two values has older, younger and equal stamps. `MaxRevision` is the largest INTEGER in the code and
4 or 3 here: the run reaches the refusal at the limit and, below it, a transcript, an edit and
another transcript. `Limit` is 100 in the code where a job has at most 7 events, so one batch
suffices there; 2 makes the batches matter. `MaxId` leaves ids for rollbacks and other jobs. In
Transcription all rows have the same time stamp, since the order of claims is JobQueue's subject.
In Upload one chunk more than `MaxBytes` is the body that is too long, a third field is one too many, and
two requests are enough as they share nothing. In Timeline two commands already make any pair of defects and a third one follows them; `Nudge` is half
the audio so that it is cut at either end. In Download the numbers pass the end of the file by two, and
a chunk is smaller than most ranges and larger than some. In ProjectListing one write can be older
than another one committed before it, two PATCHes can meet on a row, and pages are shorter than the list. In WebEditor two
requests overtake each other and a third revision comes from elsewhere; further edits of a
draft make no difference, since only whether it was edited is told apart.
Deadlock is checked except in EventStream, Upload, Timeline, Download and ProjectListing, which really end
(the job is settled and the client done; every request is answered or dropped; the bound on commands is
reached; the body has ended; the last page was read and no write is left).

*Fairness.* JobQueue: a worker polls for ever and a claim that failed is tried again, so `ClaimLock`
and `ClaimCommit` are strongly fair (the database does not refuse every attempt); ffmpeg and the
transcriber run under timeouts and every call of the database returns, so `Handle` and `Report` are
weakly fair, which does not say that they end well. `Stop` and `Start` are not fair; only
`SupervisedSpec`, used to be generous to the promise that abandoned work is recoverable, restarts
processes. EventStream: a resuming client connects again (weak), the interval ticks and its query is
not for ever in error (strong), not every connection breaks before anything got through (strong
fairness of `Receive`). Nothing makes the job's writers, breaks or errors happen.

### Where code and documents disagree

Shown by a run that checks what the document says:

1. `queue_recovery`: `claim_next` takes queued rows only and nothing reads `lease_expires_at`;
   `docs/ARCHITECTURE.md:280` says that lease and heartbeat make abandoned work recoverable.
2. `event_stream_web`: the web client neither reconnects nor polls; `contracts/openapi.yaml:427` asks for both.
3. `web_editor_conflict`: while the editor shows a conflict, the answer of any load may replace
   the draft; `docs/DELIVERY_GUIDE.md:354` says never to discard the working copy on `412`. A
   transcription that ends causes both the conflict and the load.

Left open by properties, which say only what the code and the document agree on:

4. No retries: the worker reports every error with `retryable: false` (`apps/worker/src/main.rs:98`), `fail`
   knows no other status than `failed`, and `max_attempts` (3 for a transcription) is compared with
   nothing; `docs/ARCHITECTURE.md:272` has `running --> queued: retryable error`, `:282` retries transient
   failures, `:50` promises bounded retries, and `docs/DELIVERY_GUIDE.md:245` has `complete/fail/requeue`. The
   lost acknowledgement of one progress call ends a job for good. `AttemptsWereQueued` would hold of a queue
   with retries too: it counts how often a job was taken out of the queue. That the code has no way back shows
   in `LogFollowsPipeline` and in JobFeed, which are the behaviour as coded; so does that it cannot cancel.
5. Ready: activation sets `ready` from the two source pointers (`crates/persistence/src/lib.rs:346`), and
   replaced audio takes the transcript away from a project that stays ready; `docs/ARCHITECTURE.md:202` also
   asks for an active transcript. `ReadyFollowsSources` says that ready needs both sources, and that both with a
   transcript are ready.

Stated by properties that say what the code does instead:

6. `OverwritesAreExplained`: the tag of a newer transcript is known before the effect has reset the draft
   (`App.tsx:645`), and the server takes a save in between, which overwrites a revision its author has not
   edited; `docs/DELIVERY_GUIDE.md:99` says that stale saves cannot overwrite a newer revision. The shortest way
   there: the editor is open on revision 1, somebody else saves revision 2, the answer of a load commits
   it, and Ctrl+S comes before the effect. `row.early` in the property is this exception; without it TLC finds
   the trace.
7. `SucceededHasRevision`: revision and completion are separate transactions, so that a failed job may have
   left an active revision (the converse of the property does not hold); `docs/ARCHITECTURE.md:345` draws one
   step.
8. `AssetHasBytes`: an upload whose commit succeeded but was reported as an error deletes the bytes of a
   recorded asset, even if the request is dropped while it does and nobody is told of an error; `docs/ARCHITECTURE.md:320` says originals are retained while the project exists.
9. `WorkspacesAreExplained`: the directory of a job whose worker died stays for ever;
   `docs/DEVELOPMENT.md:98` says that it is removed after success or failure.
10. `StreamsEnd`: a stream asked for from behind the terminal event sends keep-alives until its client goes.
11. `OneJobPerKey`: a request that repeats a key is answered with the first job, whatever it asks for;
   `docs/DELIVERY_GUIDE.md:260` has `409 idempotency_conflict` for another request under the same key.
12. `ValidatorsAgree`: the editor takes fractions of a millisecond (`Number(event.target.value)`) where the
   server has `i64`; `docs/DEVELOPMENT.md:104` says that the editor mirrors the server's invariants. (The server in turn compares the cues with the duration that the same request
   brings along, where `docs/ARCHITECTURE.md:236` names the audio.)

## 4. What is proved

All theorems hold for every value of the constants under the named assumptions of the modules: `None` is not
a member of the sets it stands beside, `MaxRevision` is a positive number, `Times` are numbers,
`Queues` maps workers to sets of kinds, limits and bounds are numbers of the range the code has. Jobs, workers, connections, assets and keys may be infinite
sets, the writes of ProjectListing are finitely many; the transcripts of Timeline are sequences of cues that the
server accepts and whose words are numbered; nothing is assumed about fairness.

**JobQueueProofs.** `IInv` is `TypeOK`, `LastEventIsRow`, `AttemptsWereQueued` and three strengthenings.
`NothingYet`: a job without a row has no event.
`JobsAtHand`: a worker has a job exactly if it is not polling or down; a row in its claim is still
queued; inside a handler it owns the row; when it reports a failure it owns the row or has completed it
without being told. `WorkersApart`: no two workers have the same job at hand, which is more than
`OneWorkerPerJob` and does not hold by itself, since a process becomes the owner by name. A claim takes only
rows that are queued and not locked, and by `JobsAtHand` nobody else is at such a row. `AttemptsWereQueued` needs that the last event is the row
(`LastEventIsRow`): what an append puts behind the last event is counted exactly if the row was queued, and then
the one statement that takes it out of the queue has incremented the counter (`QueuedBeforeAppend`,
`StoreKeepsAttempts`); nothing in it depends on jobs being queued once. From it: `TypeCorrect`, `RowsMatchEvents`,
`ClaimsTakeQueuedJobs`, `MutualExclusion`. `TerminalStays` follows by cases of `Next`: every writer has a
queued or running row. `QueueImplementsFeed` maps `Store` of each kind to one action of JobFeed and all
else to a stutter. `LogIsPipeline` needs one invariant more (`LogInv`): the length of the log of a running
job tells the next milestone, and a handler's `step` counts the same calls as the log of its job does, so
that the event a call appends is the one the pipeline has next.

**ProjectTransactionsProofs**, of the atomic store first. `IInv` is the conjunction of the store's
properties and the types; they hold each other up. A save writes revision `expected + 1`, which is
free because the active revision is the latest (`ActiveIsLatest`); its metadata is that of a job for
the same audio because the active row matches the audio (`ActiveMatchesAudio`); and
`EditsFollowTheirBase` survives an insert because a new number exceeds every old one, so that the row
a base names stays the same row. `ReadyFollowsSources` needs that the status is computed from both pointers also
while there is no transcript (`Sources`), for the step that activates one does not touch it. Theorems: `TypeCorrect`, `HistoryIsSound`, `RequestsAndStatus`.

Then of the transactions. `TxInv`: only the holder of the project row is in its write phase
(`WritersLock`); what it checked under the lock is still so (`Checked`), as a commit of anybody else
would need the lock; identities in flight are fresh (`FreshIds`), which does not depend on the lock.
Each commit is then one operation of ProjectStore (`TransactionsImplementStore`), so the store's
invariant carries over to the transactions, and with both, no unique constraint ever fires
(`ConstraintsHold`). The store's properties then hold of what concurrent transactions really commit:
`ActiveStaysLatest`, `AudioStaysMatched`, `RevisionsStayUnbroken`, `EditsKeepTheirBase`, `KeysStayUnique`,
`StatusFollowsSources`.

**TranscriptionProofs.** Every step of the composition is a step of JobQueue or leaves it alone
(`StepIsQueueStep`), so that the queue's `IInv` holds here. `TInv` adds: a handler behind its third call
has the result of its job in the store (`ResultsAreStored`), which no later upload, save or transcription
takes away (`ResultsStay`); a directory to be removed belongs to the job the worker reports on or has
just completed (`CleaningIsDue`); a job has no directory before its handler made one (`NoneBefore`).
Theorems: `ResultsExist`, `OwnersActivate`, `WorkspacesEnd`.

**EventStreamProofs.** `IInv` orders the ids: those committed rise (`IdsRise`), an open one is above them
all, because the row lock leaves one at a time; what is received and what is on the wire together are
the first events of the job, and the cursor is the id of the last of them (`SentInOrder`); the feed has a
terminal status at most at its end (`FeedShape`). Theorems: `TypeCorrect`, `ReadInOrder`,
`NothingComesLate`, `TheEndIsTheEnd`, `NoStreamLingers`.

**WebEditorProofs.** The store keeps its invariant in front of which the tab stands (`StoreInv`, from
ProjectTransactionsProofs). `DraftFollowsTag`: while a transcript is shown, the known tag is its own and, unless
the effect is pending, the draft was made from it, although the tag outlives the transcript; `CallsFollowEditor`: a save
in flight carries the tag of what was on the screen, and its draft was made from that or the save was `early`.
The store takes a save only on top of the tag. Theorems: `TypeCorrect`, `SavesReplaceWhatWasShown`,
`WaitsForOneAnswer`.

The second half of the module is about Timeline, for transcripts of any length and any number of
commands. `DraftInv` is that the draft is a sequence of cues whose words, read through all cues, are the
words 1 to `WordCount` in order (`WordsAreKept`); that no cue is empty is part of it and needed, since
a split cuts between two words and a merge joins two lists that both have some. What a command does
is told by what it does to `Words`, the concatenation of the cues' words: the lemmas from
`JoinsSteps` to `WordsConcat` say that FlattenSeq respects concatenation, and
`SplitCues` and `MergeCues` that the concatenation does not see where it is cut. The second group,
`Chain` to `CuesWithin`, goes from neighbours to any two: a check compares each element with the one
before it, and by induction its end lies before every later start. From these: `WordsKept`;
`ChecksAgree` (both checks demand the same of each cue and word; the conditions that the editor asks
in addition follow by `Chain`); `AcceptedPlayable` (the ends of words in order
bound the words of later cues); `StructureKept` (a word inside its cue cuts it in two that do
not overlap; two neighbours merge into what they span); `NudgesAreRigid`.
The induction these need is the lemma `Induction`: a set of numbers with 0 that has `k + 1` with every
`k` below `n` has all numbers up to `n`, from the well-foundedness of the numbers. It speaks of a set, not of a
predicate as an operator, so that it can be cited.

**ProjectListingProofs.** Any number of projects, any finite set of writes, any page sizes. The order
is total, so that positions tell rows apart (`PositionsDiffer`) and leave no gap (`PositionsAreFull`): the row selected
beyond the page is found whenever something is behind the page (`MoreIsSeen`). A write moves every other
row by one place at most, and in the direction that its own move explains (`OthersShift`); hence it
carries at most one row over the cursor each way (`OneMovesUp`, `OneMovesDown`). `ErrorsAreBounded` says
something of the end only; while pages are read `ListingInv` counts what the listing has gone past without
having read (`Missed`) and what it has read once more or will (`Again`), and neither exceeds the number of
writes meanwhile (`BoundInv`). A commit adds one write and at most one element to each set, a page adds none. `SkipInv`
says that each missed project is explained. TLC has checked `ListingInv` on the instance of the run
with three projects. Theorems: `Merge`, `ErrorsBounded`, `SkipsExplained`.

**DownloadProofs.** `ParsedIsWanted` is the lemma about `parse_range`: by the cases of the header, the
range it returns is exactly the set of positions HTTP means. `Inv` adds that the body is read from the first
of them on, as far as bytes were sent. Theorems: `TypeCorrect`, `RangesAreRight`, `BodiesAreWhole`.

**UploadProofs.** The invariant says for each place a request can be at which fields it has read, which
files and row it has and what it will answer; for a dropped one, that files are removed only if its error was known,
which with a row can only be the commit taken for a failure. A step of one request leaves all others alone. Theorems:
`TypeCorrect`, `RecordedHasBytes`, `RecordedAsSent`, `StorageIsClean`.

*Only model-checked:* liveness (`SettledOrAbandoned`, `QueuedIsClaimed`, `LearnsOutcome`), which the
prover does not reach. Every other property of a passing run is a theorem. The theorems about
sequences stay within one library operator, `FlattenSeq` (a recursive function), whose value for every input is derived
from its definition.

## 5. Not modelled, and the plan

Order of the modules, most important behaviour first: JobFeed, JobQueue, ProjectStore,
ProjectTransactions, Transcription, EventStream, Upload, then Timeline, Download, WebEditor and
ProjectListing. All of them exist, and all of their safety and action properties are proved. Next, if
the code grows into it:

1. Several tabs in front of one store, dragging in `WaveformTimeline`, and the job entry of the web
   workspace (after a failed or cut-off transcription the Transcribe button stays disabled).
2. The transcriber's own checks of its request (`contract.py`, `fake.py`). The worker trusts none of them:
   it reads the result again, which is why Transcription lets any result appear.

Not modelled, and why:

- `crates/api-model`, the generated client: field by field conversions; no state, no order.
- `apps/api` start-up and wiring: reads the environment once. Its shutdown waits for open responses, which is
  why `StreamsEnd` matters.
- Text of problem documents, tracing, headers of downloads, the checks of storage keys (keys are made by
  the program), hashes.
- The rest of `validate_transcript` (language, duration, confidence, metadata): one value each, no
  relation between them.
- ffmpeg, ffprobe and the speech model: steps that end well, badly, or are killed.
- Drawing, dragging, playback and export in the web application.
- What Ctrl-C reaches while a handler runs (`tokio::signal::ctrl_c` is called anew in each turn of the
  worker's loop): left to library and terminal. A process of the model stops at any point or not at all.
