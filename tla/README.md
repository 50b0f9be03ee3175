# Semantic Engine: specifications and proofs

These modules specify the parts of Semantic Engine whose correctness depends on
the order of commits, failures, restarts and concurrent calls. TLC checks them on
small instances; TLAPS proves every safety and action property of the runs for every
value of the constants. Liveness is checked by TLC only.

Semantic Engine recognises answers in chat messages. A *round* has *targets*; the
messages of a chat are submitted to a *session*; the recogniser gives each one a
verdict (a target, rejected, abstained) and an operator may resolve what it
abstained on. Everything runs in one local process: a desktop application, a
command line, or a loopback server.

## 1. Inventory

Crates are named without their prefix `src/crates/semantic-engine-`.

| Part | State it keeps | Operations | Talks to |
|---|---|---|---|
| Application service, `service` | sessions in memory (deque, events, deliveries), validations recorded by this process, answer cache, statistics | `validate`, `resolve`, `start_session`, `submit`, `resolve_session`, `end_session`, `remember_session_resolution`, `revoke_memory`, `purge_local_data`, paging of events, opening (`restore_sessions`) | calls the three stores and the recogniser; is called by the loopback API, the protocol, the desktop commands and the source runtime, always behind one mutex |
| Session store, `session-store` | tables `session_records`, `session_events`, `session_deliveries` | create, append validation / resolution / end, delete ended, load, each one transaction | SQLite |
| Audit store, `audit-store` | tables of validations and resolutions | record validation, record resolution (each with retention), purge, reads | SQLite |
| Recognition memory, `memory-store` | learned expressions with expiry and use | remember, revoke, match, purge | SQLite |
| Source store, `source` | tables `input_sources`, `source_checkpoints` | create, update, set desired state, remove (compare-and-set on a revision), save and load checkpoint | SQLite |
| Source runtime, `source-runtime` | map `active`, map `global_sequences`, pending authorisations | start, stop, delete, authorise, supervise, pump | source store, vault, adapters, and the service through its mutex |
| YouTube adapter, `youtube` | map of resume states by source and chat | `run` (read a live chat), OAuth, REST | provider over HTTP, runtime through a bounded channel |
| Twitch adapter, `twitch` | one connection, window of recent message ids | `run` (EventSub), OAuth, Helix | provider over WebSocket and HTTP |
| Context store and index, `context-store`, `context-index` | installed packages, active and previous one, drafts; revocation state | install, activate, rollback, revoke; inspect an index | SQLite, files, TUF library |
| Recogniser, `core`, `vectors` | none (pure) | validate, resolve, score | |
| Loopback API, `loopback` | open event streams, quotas | HTTP routes, WebSocket of events | service |
| Protocol, CLI, desktop, packages, vault wrapper | none that lasts, or files | dispatch, archives | service, runtime |

What each part promises, and what is hard about it:

* **Service and stores.** A message is delivered once per session, numbered
  without holes, resolved once, and audit, store and memory tell the same story.
  One operation is several commits and then an update in memory; any of the
  later ones can fail, and the process can stop between two. The copies are
  trimmed by different rules.
* **Source runtime.** A source that is paused does not listen, one that is
  deleted leaves no secret, positions of a session are distinct, and no call
  waits forever. Calls are concurrent; each is a dozen awaits, with state that is
  read before an await and used after it; a stop keeps a lock while it waits.
* **YouTube adapter.** No message is lost between two connections or two runs of
  the process: a checkpoint is saved after what it covers. The place in memory,
  the queue, the pump and the store are four copies that advance separately.
* **Recognition memory and cache.** An answer is the one the recogniser and the
  memory give at that moment, and `validate` never contradicts the audit. The memory expires,
  evicts and trims in one transaction by three orders, and the clocks it and the
  cache go by are not the same.
* **Context store and index.** A revoked package is not in force, a tombstone
  stays. A verification is a read, an inspection and two writes, with other
  verifications, activations and edits between.
* **Authorisations.** A credential belongs to a source, an operator's selection is
  kept. A poll holds a lock across requests to the provider, and can be dropped
  with its client at any await.
* **Twitch connection, pump, event stream.** The client of the API sees each
  event once and in order or is told of a gap, although notifications repeat,
  connections end on both sides, and the window moves under its cursor.

`PROJECT.json` lists every component with its status, and every hazard at the
line where it bites, with the property that covers it or the reason none does.

## 2. Modules

| Module | Models |
|---|---|
| `AuditStore` | the transactions of the audit: `RecordValidation`, `RecordResolution`, retention (`Retained`) |
| `SessionStore` | the transactions of the session store, with their refusals and trims |
| `SessionService` | the service: EXTENDS both stores; its state, one action per operation, restarts, invariants |
| `SessionJournal` | the abstract specification: sessions as append-only numbered journals |
| `MCSessionService` | small instances for TLC |
| `SessionService_proofs` | types; the service implements `SessionJournal`; sessions and audit agree; resolutions are final |
| `SessionCopies_proofs` | memory and store agree; journals have no hole; a restart is always possible; one resolution per delivery |
| `SourceStore` | the row of a source and its compare-and-set writes |
| `SourceRuntime` | start, stop, delete as concurrent processes; connectors, pumps, positions, restarts |
| `MCSourceRuntime` | symmetry for TLC |
| `SourceRuntime_proofs` | types; listeners stay in reach of a stop; with one call at a time, positions are distinct, a paused source is silent, a deleted one leaves nothing |
| `YouTubeResume` | reading a chat with checkpoints, queue, pump and crashes |
| `YouTubeResume_proofs` | types; nothing is lost behind a checkpoint; messages are delivered in order |
| `ContextStore` | the transactions of the context store |
| `ContextIndex` | the revocation state of a channel, as what one inspection makes of it |
| `ContextChannels` | EXTENDS both: overlapping verifications, and the commands on contexts |
| `ContextChannels_proofs` | types; revocations, tombstones and index files over overlapping verifications; what revives; where edits go |
| `Recognition` | the rules of the recogniser as operators |
| `RecognitionMemory` | the transactions of the memory |
| `LearningService` | EXTENDS both: cache, recorded validations, audit, learning, clocks, restarts |
| `LearningService_proofs` | types; answers are fresh and agree with the audit; the memory answers what it was taught and stays bounded |
| `SourceAuthorization` | EXTENDS `SourceStore`: create, authorise, test, select, delete as overlapping calls |
| `SourceAuthorization_proofs` | types; credentials belong to a linked source; selections are kept |
| `TwitchEventSub` | the Twitch connector: supervisor, connections, window, queue |
| `EventStream` | pages of a session's events and the WebSockets that send them |
| `ChatPipeline` | EXTENDS both, joined by the pump |
| `ChatPipeline_proofs` | type correctness; the client sees each event once and is told of every gap |
| `MCContextChannels`, `MCLearningService`, `MCSourceAuthorization` | small instances for TLC |

### 2.1 Service

`memory`/`order` are the service's deque of sessions, `disk` the session store,
`audit` the audit table, `recorded` the validations of this process, `learned` the
recognition memory seen as the set of (context, text, target) that a match may
answer. A transaction is an operator from a table or a stored session to the
*set* of results it may commit: the empty set is a refusal (conflict, missing,
ended) that rolls back, more than one result is a choice the model leaves open
(how much retention deletes).

The service is behind one mutex and never awaits inside an operation, so an action
is a whole operation. An operation that makes several commits has an outcome for
each commit at which it can fail: `Submit` either delivers or leaves the audit
row behind, `ResolveSession` likewise, `StartSessionEvicting` may evict and then
fail to create. A process that stops between two commits is that failing outcome
followed by `Restart`; one that stops after the last commit but before the update
in memory is the successful outcome followed by `Restart`, since `Restart` rebuilds
memory from the stores.

Abstractions:

* a *verdict* stands for (decision, target), an *origin* for (participant, source
  position), a *context* for the fingerprint of a package;
* the request fingerprint of a delivery is its submission: the rest of what it
  hashes (round, context) is fixed by the session;
* what the recogniser answers without memory is the constant function
  `Configured`; what it answers with memory is `ValidationWithMemory`;
* `created_at_ms` is increasing, so the restored order is the order of creation;
* operations that answer without changing state (conflicts, repeats of an equal
  start, reads) are not steps. `Replay` is one only because its answer is
  checked;
* age limits of the audit are an arbitrary number of oldest rows.

`aux_dropped` is auxiliary: the identities whose audit row retention has deleted.

### 2.2 Source runtime

Every call is a process (`calls`, with a program counter and the locals that
survive an await) and every await is a step. `active` is the map of that name,
`instances` what a start spawned (connector and pump), `sequences` is
`global_sequences`, `vault` the credentials in the vault of the system, `rows` the
source store, `accepted` the positions the session has accepted.

* The lock of `active` is held exactly while a call is at `stop_wait`
  (`ActiveUnlocked`): `stop_source` keeps its guard while it awaits connector and
  pump. All other uses of it are inside one step.
* A pump holds the lock of `global_sequences` while it submits, so taking a
  position, submitting and advancing are one step.
* A start that inserts over another instance drops its shutdown sender, which the
  connector's `select!` takes for a shutdown (`Replaced`).
* A connector is `"deaf"` while it is in an await that neither sees its shutdown nor has a
  time limit: `connect_async`, the writing of a Pong or of a Close
  (`twitch/src/eventsub.rs:152`, 185, 206), `stream_list` (`youtube/src/lib.rs:474`). It
  may begin such an await at any time and never come back from it.
* `Restart` drops calls, instances and maps at any point, pauses every source and
  keeps store, vault and journal.

Every failure of provider, vault, service or store in a call is `StartFail`,
`StopPause` without effect, or `DeleteFail`; supervision (backoff, retry,
re-authorisation) is `ConnectorRefresh` and the choice when `ConnectorFails`
happens. Retention of deliveries is left out of `NextSourceSequence`.

### 2.3 YouTube

The chat is the sequence of its messages `1, 2, ...`; a page token is the number
of the last message before it. `saved` is the stored checkpoint, `known` the entry
of the client's map, `connector` the connector's own copy, `queue` the channel,
`pump` with `checkpoint_safe`, `delivered` the position of each message in the
session. A connector whose queue is full or closed queues what fits and ends
(`Queue`). The position a message gets is the next free one. Left out:
connections tried again at the same token, the window of recent ids (a batch
holds only messages after its token), events that are not messages. `aux_skipped`
and `aux_refused` are auxiliary: messages passed over on purpose by a connector
that found its place, and messages the service has refused once.

### 2.4 Contexts and channels

`store` is the database of contexts: installed `versions`, the `history` of
activations with the previous one of each, the `active` one, the `statuses` that
channels have reported and `drafts`. `index` is the file `revocation-state.json` of
each channel, `tuf` the highest version in the cache of the TUF library, which is
all that is modelled of it. A command on the store holds its mutex and is one step.
A verification (`verifications`) is four: refresh, read and inspect, write the file,
apply the statuses; it may fail at each, and another may run between. A package,
an archive, an identity (name and version) and a release are values; `IdentityOf`
lets two packages have one identity. `editing` is the context whose targets the
operator sees. `aux_reported` is auxiliary: the identities that a verification which
succeeded has reported revoked.

Left out: the legacy payload of `storage_format_version`, the export of a context,
the signatures and files inside a package (a package that is not valid is
`VerifyFails`). One desktop process is assumed, as the mutex of the store is.

### 2.5 Recognition, memory and cache

A text is its normal form, the form without spaces and its likeness to
expressions, which are tables of the instance; scores are hundredths. The rules
that use them (`ExactMatches`, `ValidateFuzzy`, `Ambiguous`, `Issue`) are the code's.
`rows` is the table of the memory; an expired, evicted or revoked row is closed
and only counts in the history. A transaction of the memory is an operator from
table to table; what it evicts it takes in the order of last use, then of row
number, as the statement does.

`LearningService` is the view on `validate` that `SessionService` abstracts: there
`learned` and `Configured`, here memory, cache and rules. Here in turn sessions are
only their deliveries, in `delivered`: one session at a time for each context, which
`StartSession` begins anew; after a `Restart` a delivery has no text to learn from.
`recorded` is what this process has validated, `audit` the rows of the audit, of which a
new one lets retention delete any others (`Audit`). `validate` may be called by itself
or by `submit` (`Deliver`); a message that the session has is answered by `submit` from
the recogniser alone (`SubmitAgain`). An action is an operation behind the mutex,
with an outcome for each place at which it fails (`ValidateFails`: after the cache
was written and before the audit was). The memory goes by the wall clock, which
`ClockBack` sets back; the cache by a steady clock, on which only the ages of
cached answers count. `aux_taught` is auxiliary: what operators have taught and not
revoked.

### 2.6 Authorisations

Calls are processes as in 2.2, with the two OAuth clients behind them. `pending` is
the authorisation that waits for its user, of either adapter; `lock` the mutex that
a poll holds from its first await to its last; `linked` the credential column of
the row, `video` the selected broadcast; `stopping` says that a stop holds the lock
of `active`, which a deletion needs (`DeleteCheck`) and which may never be let go of (2.2).
`Dropped` is a handler whose client went away: axum drops the future at the await it
is in, which releases its lock. A worker that was already started runs to its end, at
any later time and without what the handler would have done next: those are the
steps `late_...` (`LateStore`, `LateLink`, `SelectUpdate`, `LatePurge`, `LateRemove`). `Crash`
keeps rows and vault only. `aux_stray` is auxiliary: the sources for which a credential
was stored when the row was gone or about to go, the vault failed, or a poll was
dropped or cut by a crash between vault and row; only those may leave a credential
without an owner.

### 2.7 From the chat to the client

The supervisor is at the head of a cycle ("validating"), in it ("running"), or has
told it to end ("closing"); `conn` is where `run` is. `queue` is the bounded channel:
`try_send` never waits, so a full queue ends the cycle and, unless it was told to
end, the connector. A connection is "connecting" until `connect_async` returns, "greeting"
until its welcome and its subscription, then "connected"; "answering" and "closing"
are the writing of a Pong and of a Close. Whether it was handed over is `subscribed`
until it is connected. Twitch may send any message again, at any time that a subscription
stands. A fault that `run` tries to queue after its queue was full is left out.

The journal of the session is the sequence of messages it took; event 1 is the
start of the session, so message i is event i+1. A session recognises a message
among its latest `max_recorded_validations` deliveries; any submission may be
refused. A stream polls (`Tick`), sends, and moves its cursor when the client has
taken the page (`Sent`); it also waits for the client when it answers a Ping
("answering") and when it says that the session is gone ("refusing"). The client
that comes back gives the last sequence it has.

## 3. Properties and runs

| Run | Instance | Checks |
|---|---|---|
| `one` | 2 identifiers, room for 1 session, windows of 2 events and 2 deliveries, audit of 1 row, 5 events | `TypeOK`; `RestartAlwaysPossible`; `MemoryMirrorsStore`; `JournalContiguous`; `OneResolutionPerDelivery`; `ImplementsJournals` |
| `two` | 2 sessions on one round with different contexts, 1 message from 2 origins, 2 targets, audit of 2 rows, 4 events | `AuditInv` (inductive); `JournalBackedByAudit`; `NoContradictoryResolutions` |
| `runtime_serial` | 4 calls one at a time, 2 sources of one session, 2 messages, updates | `PositionsDistinct`; `PausedIsSilent`; `DeletedLeavesNothing` |
| `runtime_calls` | 3 calls, 2 at a time, 2 sources | `TypeOK`; `NoOrphanListener`; `EveryCallReturns` |
| `runtime_positions` | 3 calls, 2 at a time, 2 sources | violation of `PositionsDistinct` |
| `resume_crash` | 4 messages, queue of 4, refusals, crashes, one start per process | `TypeOK`; `CheckpointCovers`; `ChatOrder` |
| `resume_lost` | as above, several starts per process, no refusals | violation of `CheckpointCovers` |
| `contexts` | 3 packages of 2 identities, 1 channel with 4 releases and 2 archives, 2 overlapping verifications, 3 activations | `TypeOK`; `ReportedStaysRevoked`; `IndexKnowsItsDocument`; `OnlyRollbackRevives`; `TombstonesAppendOnly`; `EditsHitTheContextShown` |
| `contexts_rollback` | as above | violation of `RevokedOutOfForce` |
| `learned` | 4 requests for 2 messages, memory of 2 entries and 1 in history, cache of 1 answer, 1 recorded validation, 1 delivery | `TypeOK`; `AnswersAreFresh`; `AuditedAnswerStands`; `OnlyTaughtApplies`; `MemoryAnswersJustified`; `MemoryBounded`; `TargetOrderIrrelevant` |
| `authorization` | a source of each adapter of which one is created, 2 overlapping calls, 3 revisions | `TypeOK`; `CredentialsAreLinked`; `SelectionKept`; `EveryCallReturns` |
| `pipeline` | 2 messages, window and queue of 1, a session that remembers 1 delivery and keeps 1 event, 3 messages taken, 2 connections with 1 permit | `TypeOK`; `SeenOnceInOrder`; `GapsAreAnnounced`; `StopsComplete`; `ClientCatchesUp` |

### Why the bounds are enough

* `one`: with windows of 2 and sequences up to 5, both trims remove something
  several times, a delivery outlives its event and an event its delivery, and the
  audit forgets a row that a session still uses. Room for one session and two
  identifiers makes every second start an eviction. `two` has no trim of the
  session, so that the two sessions and the audit interact over complete
  histories.
* `runtime_serial`: four calls one at a time allow start a, start b, stop a, start a
  (with failures and restarts between). `runtime_calls`: an overlap needs two
  calls, the third makes one call's leftovers meet two later ones; messages and
  updates are turned off there since they do not affect who listens.
* `resume_crash`: a batch of more messages than the queue takes, two batches, and a
  baseline with messages on both sides fit into four messages.
* `contexts`: two verifications are enough for one to write over what another wrote
  since it read; the releases hold a revocation, a document that omits it, and a
  second document under the same sequence. Three activations allow a rollback to
  a context that was revoked while another was active.
* `learned`: a memory of two with three inserts expires, evicts and trims; a cache of
  one answer evicts at every second key. Each message may come from a participant that
  is valid, with a text that is close to all three targets, or from one that is not,
  with a text that is a target's expression. Messages are interchangeable, and so are
  the targets: no answer to the first text names one, and what the second is answered
  depends on the participant alone.
* `authorization`: `MaxSources` is 1 so that capacity is reached; two calls overlap in
  every pair, of one kind or of two, and the worker of one that was dropped with what
  is called next on the other. A source has one adapter, so both are there and one is
  created. Of the three revisions, two are those a call may find, and the third the one
  that its write makes stale for the other.
* `pipeline`: everything that has a size is at its limit with one element. Two
  messages and a session that forgets after one give the repeat that is taken and
  the repeat that is refused; three messages and one kept event leave a client
  gaps of one and of several events.
* No bound constrains what the code can do except `MaxSequence`, `MaxMessages`,
  `MaxRevision`, `MaxPosted`, `MaxHistory`, `MaxTime`, `MaxRows`, `MaxCreated`,
  `MaxJournal` (counters), `MaxConcurrent` and the number of calls. `History` is 1
  where the code keeps four times the capacity.

`CHECK_DEADLOCK FALSE` is said where the system may stop: a process whose sources
are deleted and whose clock has run to its bound, or a connector and a server
that were told to end. Elsewhere `Restart` and `Purge` are always possible, and what
could be stuck is asked by the liveness properties.

### Fairness

No await is assumed to end that has no time limit of its own. Those awaits are steps of
the models that may never come, and the properties name them as the one thing that
can keep what should end.

* `runtime_calls` (`FairSpec`): weak fairness of the steps of a call: tokio schedules
  every ready task, the HTTP clients of the providers have time limits, the store and
  the vault answer. Weak fairness of `PumpEnds`: a pump whose channel is closed and
  empty returns. Strong fairness of `ConnectorStops`, which is a connector that is told
  to stop while it is where it sees it or in an await with a time limit (refresh,
  validation, welcome, subscription, `live_chat_id`): strong because it may go in and out of
  deaf awaits, and a `select!` picks any branch that is ready. None of
  `ConnectorHears`. `EveryCallReturns` therefore says: a call returns, or from some
  time on a stop waits for a connector that was told to stop and is deaf (`StopHangs`),
  with the lock of `active` that every other call needs.
* `authorization` (`Fairness`): weak fairness of a call that waits for no lock (the
  HTTP clients have timeouts: `twitch/src/lib.rs:160`, `youtube/src/lib.rs:894`) and of the
  workers; strong fairness of taking a lock, since tokio's mutex is first come, first
  served. None of `StopEnds`: `EveryCallReturns` excepts a deletion that waits for the
  lock of `active` behind a stop that never ends.
* `pipeline`, the connector (`ConnectorFairness`): weak fairness of the supervisor's
  requests, of the welcome and the subscription, of a supervisor that sees its
  shutdown and of a backoff that does; strong fairness of a connected client seeing
  that its cycle is told to end (`Closes`), as it may answer Pings in between. None of
  `Opens`, of `Answered` and of the end of a Close: `StopsComplete` excepts a connector that
  is in one of these for good (`Deaf`). The pump takes what is queued.
* `pipeline`, the streams (`StreamFairness`): strong fairness of a stream that polls
  seeing its interval, its client or the stop of the server. None of `Sent`, `Answer` and
  `Refused`, which need the client to read: `ClientCatchesUp` and `StopsComplete` except a
  stream that stays in a send for good (`Stalls`).

No fairness is assumed of failures, of the provider sending anything, of restarts,
of users answering, of a credential being refreshed, nor of a network or a client
taking or giving what is waited for without limit.

## 4. Where code and documents disagree

Each violation run states what a document promises, and TLC finds a behaviour of
the code that breaks it. `PROJECT.json` quotes the lines.

1. `runtime_positions`: a start that overlaps the stop of the last source of its
   session loses the entry of `global_sequences`; positions begin again at 0.
2. `resume_lost`: the resume state in memory advances when a checkpoint is
   *queued*; a source started again in the same process trusts it, and the next
   checkpoint passes messages that were never submitted.
3. `contexts_rollback`: a rollback makes the previous context active without asking
   whether its identity was revoked since (`docs/integration/context-channels.md:68`).

A fourth one has no run of its own. `docs/integration/context-channels.md:63` says that
observed revocations become append-only tombstones. Nothing locks the file between the
reading of it and its replacement: of two overlapping verifications the one that
writes last wins, and the tombstones that only the other one had seen are lost
(`ContextChannels_overtaken.cfg`, `TombstonesNeverLost`, violated in 7 steps). The passing
run `contexts` checks `TombstonesAppendOnly`, which excepts the write of a verification that
was overtaken (`Overtaken`), and `ReportedStaysRevoked`, which has no exception: what the
store was told stays revoked there.

The passing runs say what holds on the other side of each line: with one call at a
time 1 cannot happen, with one start per process 2 cannot, and nothing but a
rollback revives a revoked context.

### Further experiments

These configurations are not among the runs of `PROJECT.json`; each asks for one
more thing that does not hold.

* `SessionService_restart.cfg`, `FingerprintsSurviveRestart`: the store trims
  deliveries by event sequence, memory by number. Resolutions take sequences too,
  so a restart forgets fingerprints that memory had (ADR 0009 says that a restart
  keeps them).
* `SessionService_replay.cfg`, `ReplayReturnsRecordedVerdict`: a repeated submission
  is answered without the recognition memory, so perhaps with another verdict
  than the one recorded (`docs/product/performance.md:6`). `AuditedAnswerStands` of
  `LearningService` is about what `validate` answers, and excepts this.
* `SourceRuntime_paused.cfg`, `PausedIsSilent`: a pause between a start's write of its
  row and its insertion in `active` succeeds, and the source goes on listening
  (`docs/integration/twitch.md:45`).
* `SourceRuntime_deleted.cfg`, `DeletedLeavesNothing`: a start that has loaded a
  credential writes it back refreshed after a deletion purged it.
* `YouTubeResume_again.cfg`, `RedeliveryIsHarmless`: a message that is read again gets
  a new position, hence another fingerprint: it is an identity conflict and not a
  repetition, and blocks every later checkpoint of that connection.
* `LearningService_poisoned.cfg`, `AnswersAreAlwaysFresh`: an answer is cached before
  the audit sees it, and its key leaves out participant and message. What is
  invalid by these is answered to valid submissions of the same text, until it
  ages. `AnswersAreFresh` is the same without invalid answers.
* `LinkedHasCredential` of `SourceAuthorization`, as an invariant of
  `SourceAuthorization_calls.cfg`: an authorisation that is repeated and whose update
  conflicts deletes the credential the row still refers to, and a deletion that
  conflicts after its purge leaves the row.

## 5. What is proved

All theorems hold for every value of the constants that satisfies the named
assumptions of the modules (`AuditAssumption`, `SessionStoreAssumption`,
`SessionServiceAssumption`, `NoSessionAssumption`, `NoRowAssumption`,
`SourceRuntimeAssumption`, `NoInstanceAssumption`, `SourceAuthorizationAssumption`,
`YouTubeResumeAssumption`, `ContextStoreAssumption`, `ContextIndexAssumption`,
`ContextChannelsAssumption`, `MemoryPolicyAssumption`, `LearningServiceAssumption`,
`RoundAssumption`, `TwitchEventSubAssumption`, `EventStreamAssumption`,
`ChatPipelineAssumption`): windows and capacities are positive, markers are not
values, the calls that are made are finitely many. `RoundAssumption` is what is checked of
a round before a session starts (`core/src/lib.rs:384`, `service/src/lib.rs:883`):
thresholds in order, at least one target, each with expressions. In particular for any number of sessions,
messages and events, where the runs have two or three.

Every theorem `Spec => []P` comes from an inductive invariant that implies `P`. TLC
also finds these invariants (`AuditInv`, `StoreInv`, `CopyInv`, `SerialInv`, `QuietInv`,
`ListenersInv`, `ResumeInv`, `ChannelInv`, `AuthInv`, `LearnInv`, `StreamInv`) true on the
instances of the runs, so that none of the proofs is about an empty set of states; for
`StreamInv` the positions of an event (`Nat`) have to be bounded for that.

* `TypeCorrect` (`SessionService_proofs`): `Spec => []TypeOK`. Each helper that
  builds a record (`Pushed`, `Appended`, the transactions) has a lemma on its type;
  the step has one case per action.
* `AuditInvariant`, `SessionsAgreeWithAudit`, `ResolutionsAreFinal`
  (`SessionService_proofs`). `JournalBackedByAudit` alone is not inductive: a delivery
  may be built from a validation that this process recorded earlier
  (`RecordedBacked`), the write-through of a resolution goes by the definition in
  memory while the journal is on disk (`SameDefinitions`), and a resolution that is
  backed by *a* row is only final if an identity has one row (`Unique`). Their
  conjunction with the types is `AuditInv`. The proof has two halves: a commit to
  the audit keeps every statement about it true (`Preserves`: a row changes only
  from unresolved to resolved, and goes only into `aux_dropped`), and an operation
  adds to a session only what its own commit made true.
* `JournalsImplemented` (`SessionService_proofs`): `Spec => Journals!Spec` under the
  mapping `StoredJournals`. `StoreInv` is `TypeOK` with the fact that events are
  numbered at most `latest`; trimming by sequence then keeps a suffix, which is
  what an abstract journal may do when it appends. Failed commits and everything
  that only touches audit, memory or the recogniser are stutters.
* `CopiesAgree`, `JournalsContiguous`, `AlwaysRestarts`, `ResolvedAtMostOnce`
  (`SessionCopies_proofs`). Memory trims a deque by its length, the store deletes by
  a bound on the sequence. The two agree on events because events have no hole, so that
  a window is an interval and its length its number of events; on deliveries they do not, and
  `CopyInv` says what is left: every stored delivery is in memory, up to a
  text that is gone (`Mirrored`). `Listed` (a stored session is in the deque, which is
  within its capacity) is why a restart never finds more sessions than it accepts.
  That a delivery is resolved once is carried by its `emitted` flag, as long as
  its own event is kept (`OnceFor`).

* `RuntimeTyped`, `ListenersReachable` (`SourceRuntime_proofs`), for any number of
  overlapping calls. Types need that the journal of a session has a largest
  position (`LargestKnown`), which `NextSourceSequence` takes as given.
  `NoOrphanListener` needs `Owned`: what is in `active` is an instance of that
  source whose start has returned, so that no later step of a call replaces it
  without `Replaced` telling it to stop.
* `SerialPositions`, `SerialEntries` (`SourceRuntime_proofs`), under
  `MaxConcurrent = 1`, the condition without which `runtime_positions` finds a
  counterexample. `PositionsDistinct` follows from `EntryAhead` at the step of a
  pump, but `EntryAhead` says nothing of a session without an entry, where a pump
  would begin at 0. So `PumpInv`: an instance that may submit has an entry, and is
  in `active`, about to be entered, or awaited by the call in progress. A stop
  that finds no other source of its session in `active`, with no other call in
  progress, can then forget the entry. `CallInv` carries what the one call has
  read across its awaits. `SerialInv` is their conjunction.
* `SerialPauses`, `SerialDeletes` (`SourceRuntime_proofs`), under the same condition.
  `QuietInv` relates three places to the store: the source of a call in
  progress is out of `active` (`CallsQuiet`), an instance that may submit has a row that
  is marked active (`PumpsMarked`), and no credential outlives its row
  (`DeletedPurged`). On top of `SerialInv`, which says that what may submit is in `active` or
  belongs to the one call, no pause or deletion leaves a listener behind.
* `ResumeType`, `NothingLost`, `ReadInOrder` (`YouTubeResume_proofs`), under
  `MayResume = FALSE`, the condition without which `resume_lost` finds a counterexample.
  `CheckpointCovers` speaks of the stored checkpoint only; the next one to be stored
  is somewhere in the queue. `QueueInv` therefore says of *every* position of the queue that
  what stands there continues the token in force before it (`InForce`,
  `Continues`): no message between is missing, unless it is refused and the pump
  knows it (`Gapless`). `ConnectorInv` says the same of the connector's own place,
  `BaselineInv` and `PostedInv` that a baseline is ahead of all that was read, and `StoredInv` that
  what a new process reads again is not behind what the session has, without
  which messages would be delivered out of order after a crash.
* `ChannelsType`, `RevocationsStay`, `IndexComplete`, and the action properties
  `RevivedByRollback`, `TombstonesGrow`, `EditsStayPut` (`ContextChannels_proofs`), for
  any number of overlapping verifications. The state a verification has read may be
  overwritten by another before it writes its own. `Carries` says what it
  carries over its awaits: a state that stands for a release of its channel with
  all that this release revokes (`Known`), and that has lost nothing of the
  state it read (`Grown`). A row that has been reported revoked stays so because a
  status is only ever written for the identity it was listed for.
* `AuthorizationTyped`, `NoStrayCredential`, `SelectionsStay`
  (`SourceAuthorization_proofs`), for any number of overlapping calls. Every write is a
  compare-and-set on the revision that the call has read; `Reads` says what this buys:
  either the source has been deleted, or the row is at a later revision, so that
  the write will be refused, or row, settings and link are as the call read them
  (`AsRead`). `StaysLinked` and `GoneForGood` (identifiers are not used again) are for
  the writes to the vault that no revision protects.
* `LearningTyped`, `CachedAnswersFresh`, `AuditedStands`, `OnlyTaught`,
  `MemoryJustified`, `MemoryStaysBounded`, `OrderIrrelevant`
  (`LearningService_proofs`), for any round that passes its checks, any capacity and
  any clock within its bound. `Kempt` is what the table of the memory is between two transactions; that
  expiry, eviction and trimming keep it, and teach nothing, are the lemmas `ExpiredTable`,
  `EvictedTable`, `TrimmedTable` and `RememberedTable`. `AnswersAreFresh` compares the last
  answer with the recogniser; it follows from what the cache may hold (`Holds`): an
  entry is the verdict on an invalid submission, or what its key gives to *every* valid sender,
  whoever asked first (`FromPairs`). `AuditedAnswerStands` is about the row
  of a message while there is one: a new answer is compared with it by the audit, and a
  recorded one agrees with whatever row its message has (`RecordedOK`), which retention
  may take at any commit but nothing can change. `OrderIrrelevant` compares the rules on
  a round and on its reverse, where the round has a margin: targets that tie for the
  best score are then ambiguous, so that the first one decides neither decision, target
  nor score. It does decide which expression the evidence of an ambiguous answer names,
  and the property excepts just that.
* `PipelineTypeCorrect`, `PipelineSeenOnce`, `PipelineGapsAnnounced`
  (`ChatPipeline_proofs`), for any chat, window, queue, journal, page and number of
  streams. What the client has says nothing of the pages on their way to it, so the
  strengthening is `ReaderInv`: the cursor of the client's stream is the last event
  the client has, and a page that is being sent begins after that event and announces
  what lies between. It holds across lost connections because a stream that nobody
  reads can only end. `ConnectorType` and `StreamType` are the type invariant by
  component, with the shape of a stream (`StreamStates`) that `TypeOK` leaves open.
  That a message comes back only after `MaxRecorded` others is the step of
  `PumpSubmits`, from `~Knows`.

Only model-checked: the liveness properties (`EveryCallReturns` of `SourceRuntime` and
of `SourceAuthorization`, `StopsComplete`, `ClientCatchesUp`), which rest on fairness and
so on `ENABLED`, out of reach of the prover; and the violations of section 4,
which are behaviours that TLC exhibits. The conditions of the conditional theorems
(`MaxConcurrent = 1`, `MayResume = FALSE`) are those of the runs that check the same
property; for both there is a run without the condition that violates it. No
recursive definition is used.

## 6. What is not modelled, and why

* Wire formats, OAuth exchanges, HTTP routing, package archives, the vector
  scorer, the user interface, the CLI and the scripts: input and output or pure
  computation around the components above, with no state whose order matters here.
* TUF verification is a library; of it the models keep that older metadata is
  refused.
* Quotas and permits of HTTP requests: counters in front of the operations, which
  refuse and change nothing else. Permits of event streams are modelled.
* The snapshots of sources that an operator is shown. They decide nothing; a
  fault that is overwritten by an older state is listed as a hazard.
* `created_at_ms`: the models take it to be increasing. The wall clock of the
  memory is modelled.
* SQLite transactions are atomic and durable. Distances between texts are tables.

## 7. Plan

Modelled and checked: everything listed in section 2. Every safety and action
property of a passing run is stated by a theorem. What further work could add:

1. Abstract specifications beside `SessionJournal`: a memory that maps a context and a
   text to at most one target, which `RecognitionMemory` implements up to expiry and eviction; a
   channel as a set of revocations that only grows.
2. What is left of the conditional theorems when calls overlap: which pairs of calls
   `PositionsDistinct` tolerates, beyond `MaxConcurrent = 1`.
3. Properties for the hazards that have none (`PROJECT.json` gives the reason of each).

## 8. Running

In this directory:

    tlc -workers 2 -config SessionService_one.cfg MCSessionService.tla
    tlapm SessionService_proofs.tla

`PROJECT.json` gives module and configuration of every run, and for every property
a mutation of the code's model that breaks it.
