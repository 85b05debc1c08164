# Verification of the multi-model AI chat platform

TLA+ specifications, TLC models and TLAPS proofs about the platform in this
repository: `backend/`, a NestJS application, and the parts of `frontend/`, a Vue
application, that keep state of their own.

## 1. The system and its parts

The server is one Node process. Node runs one callback at a time, so code
between two `await`s is atomic; every `await` (database, provider, queue, timer)
is a point where any other request or background loop may step in. What is
stored in PostgreSQL survives the process; what is in memory does not. A browser tab
runs one task at a time in the same way: an `await` in a page is where another
click, answer or event comes in.

| Component | State it keeps | Operations | Hard behaviour | Correct when |
|---|---|---|---|---|
| Chat turn (`messages/messages.service.ts`) | assistant and user rows in `messages`; per running generation the loop's locals | accept a send, run the detached generation, reconnect, stop, mark orphans | every await of the loop interleaves with Stop, reconnects, other sends and the death of the process | the row tells the truth, every generation settles, Stop wins |
| Generation registry (`messages/generation.registry.ts`) | in-memory map: snapshot buffer, subscribers, abort controller, completion promise | register, subscribe, publish, requestCancel, unregister | fan-out against attach and detach; lost with the process | a reader gets the exact answer; an entry lives as long as its loop |
| SSE endpoints (`messages/messages.controller.ts`) | one queue per connected client | send, reconnect, stop | clients leave at any time | each feed ends with one terminal event |
| Turn admission (`assertChatTurnAllowed`, `quota.service.ts`) | token column of the user rows, usage rows | look up the idempotency token, count the quota, insert | nothing is locked between reads and the insert | one user row per token, bounded quota overrun |
| Usage accounting (`usage/`) | `usage_records`, one row per user message | start, fallback model, end | ended by more than one generation when a turn is retried | each finished turn is accounted for |
| Files (`files/`) | `files` rows, stored objects, BullMQ jobs | upload, worker claim, extraction with time limit, retry, sweep, delete | redelivery, crash, timeout without cancellation | a row never stays without a job; READY implies text |
| Billing (`billing/`) | `payments`, `subscriptions`, `webhook_events`, `users.plan` | checkout, webhook, activate, expire, cancel | repeated and reordered events, unlocked reads | one effect per payment; one active subscription |
| Model catalogue (`models/`) | `ai_models` with default and fallback | create, update, set default, delete, resolve | concurrent administrators | an enabled default exists |
| Themes (`themes/`) | `themes` with enabled, default, order | enable, default, reorder, boot repair | concurrent administrators | an enabled default exists |
| Provider adapters, web search (`ai/`, `websearch/`) | none | network calls | timeouts | normalized errors |
| Composer (`frontend/src/utils/uploadQueue.ts`, the file half of `views/ChatView.vue`) | queue, set of finished ids, running flag; the chips and the conversation each belongs to | pick, upload, retry, remove, switch conversation, restore drafts, send | every call while an upload, a load or a send is in flight | one upload at a time, none twice, no chip without an upload, no chip in another conversation |
| Chat view and client (the chat half of `views/ChatView.vue`, `api/client.ts`) | the rows on the screen, which of them streams, the stream's handle | send, stop, leave, come back, re-attach, reload | streams that are aborted, replaced or lost, loads that come late | the screen agrees with the row; one stream is live |

How they interact: a send passes admission, which inserts the user row and its
usage row in one transaction; the turn then inserts the assistant row, registers
a generation and subscribes the sender's feed. The detached loop reads the
provider, writes the row, publishes to the registry and finally saves, resolves
the completion promise, publishes the terminal event, updates the usage row and
unregisters. Reconnects and Stop decide between the registry (when the
generation is live) and the row (when it is not). The page talks to the server in
requests and two streams: the composer stores files and names them in a send, which
attaches them when it is accepted; the chat view sends, recovers a row it finds open,
and stops. `PROJECT.json` lists every
component with what is modelled of it, and every hazard at its line.

## 2. Modules

| Module | What it is |
|---|---|
| `ChatTurn` | the generation loops, the registry, the feeds, Stop, the rows and the restart of the process |
| `AnswerStream` | the abstract specification: what readers of an answer are promised |
| `TurnAdmission` | what happens inside `ChatTurn!AcceptTurn`: token lookups, quota, insert |
| `Billing` | checkout, webhook deliveries and their transactions, subscriptions, the plan on the user row |
| `PaidAccess` | the abstract specification: what a payment becomes and what access rests on |
| `FilePipeline` | one uploaded file: its row, its stored object, its job, the runs of the worker, the sweeper and the requests |
| `Composer` | the files of a message in one browser tab: picks, upload queue, chips, conversations, removals and sending |
| `ChatView` | the chat page of one browser tab: its rows, its streams, Stop and reloads |
| `MCChatTurn`, `MCTurnAdmission`, `MCBilling`, `MCFilePipeline`, `MCComposer`, `MCChatView` | values for the constants of the TLC instances, symmetries and constraints |
| `ChatTurnProofs`, `ChatTurnRowProofs`, `ChatTurnDeliveryProofs` | theorems about `ChatTurn` and their proofs: types and registry; rows, usage and Stop; readers and the refinement |
| `TurnAdmissionProofs`, `BillingProofs`, `FilePipelineProofs`, `ComposerProofs`, `ChatViewProofs` | theorems about the modules they are named for, and their proofs |

### ChatTurn

One action per stretch of code between two awaits. State and code:

* `loop[s]`: the locals of `runGeneration` for send `s`. `pc` names the await
  the loop is suspended at: `search`, `provider` (the `for await` over provider
  events), `persistFirst` and `persist` (`persistProgress`), `fallback` and
  `fallbackUsage` (the switch to another model), `save` (terminal save),
  `publish` (its continuation), `account` (`recordTurnEnd`). `content` is the
  entity's text, `tried` is `attemptedModelIds`, `outcome` the branch taken.
* `registry[s]`: the map entry: `live` (present), `content` (the snapshot buffer),
  `aborted` (the abort signal).
* `feed[f]`: a sender's feed (`eventFeed`) or a reconnect
  (`reconnectGeneration`): its queue, the text its client has, and how it ended.
* `stop[p]`: a Stop request: the entities it read and has not handled yet, each
  with the row **as it was read**, because that entity is what is saved later.
* `row[s]`, `usage[m]`: the database rows. `usage` is indexed by message id of
  either kind, since `markOrphanedInterrupted` looks usage up by the id of the
  assistant row.

Data is abstracted: the answer is chunks numbered 1, 2, 3, so a text is a number
of chunks, and "exact answer" means a prefix of that numbering. The interval
of the save throttle is a choice (`AfterDelta`). The provider may yield, end or
throw at any moment; whether an error is retryable is a choice. Every database
write may throw while `faults < MaxFault`. `Crash` kills loops, registry, feeds
and stops, and keeps the rows. A TypeORM `save(entity)` writes every column the
entity differs in, so it is the overwrite of the row by the entity; the
throttled and terminal saves write status, text and model of the loop's own
entity.

Not told apart: narration events (they change no state), conversation title and
model, prompt and history, sources, error texts.

### TurnAdmission

Requests of one user, split at the awaits of `assertChatTurnAllowed` and
`beginChatTurn`: first token lookup with comparison of texts, quota count, second
lookup without comparison, transaction. A usage row carries its UTC day, and
`Midnight` moves the day. `ChatTurn!AcceptTurn` is the same decision as one step;
the two modules share no variables, and what `ChatTurn` needs of admission (a
replay shares user row and usage row) is what `DuplicatesAreRaceWidth` says of requests that
do not overlap.

### AnswerStream

`produced`, `text`, `attached`, `told`: a reader's text is always a prefix of the
answer; it grows chunk by chunk while attached; whoever is told `done` has all of
it and nothing is produced afterwards. `ChatTurn!KeepsPromise` maps `loop.content`,
`feed.copy`, `feed.pc = "live"` and `feed.end` to these variables and TLC checks
the refinement.

### Billing

One user. `payment`, `inbox`, `sub` and `plan` are the rows of `payments`,
`webhook_events`, `subscriptions` and `users.plan`. A webhook transaction is three
steps, because it can be held up in between: the insert of the inbox row (the
unique key makes a second delivery of the event wait for the first), the lock on the
payment row with the read of the active subscriptions, and the commit, when
its writes show. `delivery[d].previous` is what it read. The commit is refused when the
partial unique index finds a subscription that became active after that read. A
user's cancellation of a checkout and of a subscription are requests
outside a transaction: they read, wait, and save what they read. The period of
a subscription ends at any moment (`overdue` is an `active` row whose period is over).
A subscription row is named by the delivery that inserted it, so two rows for one payment
would be two.

Not told apart: amounts, dates, signatures (a request with a bad one changes
nothing), the mock gateway, the administrator's listing.

### PaidAccess

`fate` of each payment (none, open, granted, closed) and `access`, the payment that the
user's access rests on. `Billing!KeepsPromise` maps payment status and the existence
of a subscription to `fate`, and the only active subscription to `access`.

### FilePipeline

One file, because files share nothing but the worker's slots. `status`, `attempts` and
`text` (is `extractedText` set) are the row, `ABSENT` while there is none; `stale` says
that `updatedAt` is older than the sweeper's cutoff; `object` is the object in MinIO.

* `job`: the BullMQ job whose id is the file's: its state, the run that holds its lock,
  failed attempts and stalls. BullMQ is external and modelled as the code uses it: an id
  that is taken makes `add` do nothing, a locked job cannot be removed, a job that
  ended stays for a while, a failed attempt is tried again after a backoff, an active
  job without a lock is tried once more and then fails.
* `run[w]`: a run of `processFile`, at `find`, `claim`, `fetch`, `extract`, `ready` or `fail`.
  A run that lost its lock, or whose job was redelivered, goes on beside the next one.
* `call[c]`: who calls `enqueueProcessing`: the upload, the sweeper, retries and
  reprocesses, each between two of its awaits, with what it read of the row, because
  `save` writes that back. TypeORM's `save` inserts the row if somebody deleted it.
* `delete[d]`: a deletion of a file that no message uses: row first, then object.

A fault is a failed call, a lost lock, a lost queue or a restart of the process; `MaxFault`
bounds them. `GrowStale` is time: it may pass at any moment but during an
extraction, whose limit (two minutes) is shorter than the sweeper's cutoff (ten).

Not told apart: file contents, the wording of errors, the check for messages that use
the file, a stored MIME type of no known kind (the upload has checked it).

### Composer

One tab. An action is one task of the page: the answer of a request and all that the code
does with it, or a click. State and code:

* `queue`, `running`, `done`: the closure of `createUploadQueue`: its array (the file in
  flight stays at its head until it is answered), its flag and its set of finished ids.
  `transfer[f]` is the upload request in flight, `attempt[f]` how often `f` was sent.
* `chip[f]`: the chip of a file without a server row (pending, uploading, error);
  `shown[r]`: how many chips show the server row `r` (a list, so it can be more than one).
  `home[f]` is the conversation a pick belongs to, `pick[f]` how far a pick has come, for
  a new chat creates its conversation first. `removed` is `removedUploadIds`.
* `active`, `load[l]`: the open conversation and the loads in flight: first the messages,
  then the files, each read by the server (`ReadMessages`, `ReadFiles`) some time before it
  arrives (`LoadFiles`, `RestoreChips`), and each followed by a look at what is open now.
* `row[r]`, `used`, `deletion`: the server's rows, those a message uses, and `DELETE`
  requests on their way. The server checks a send's files and attaches them in two
  steps (`CheckFiles`, `AcceptTurn`), and a deletion can come between them.
* `turn`: the message being sent with files. The page may give it up while the server goes on
  to accept it (`TurnFails`).

`landed`, `strayed` and `overtaken` only record what has happened, for the properties:
an upload that succeeded and whose chip no send has cleared since; a conversation that was created for a pick while
another was being opened; a retry that went ahead of the file in flight.

Left out: previews, the polling of processing states and the retry of a processing (its
server side is `FilePipeline`), drag and drop (a pick), and leaving the view altogether.

### ChatView

One tab. An action is the code between two awaits of the page, with what the server does
between them as actions of its own. State and code:

* `active`, `loaded`, `shown`, `streaming`, `handle`, `recovery`, `loading`: `activeId`,
  where the rows on the screen came from, those rows, `streaming`, `streamHandle` with
  `activeStreamRowId`, `networkRecoveryRowId`, `messagesLoading`.
* `feed[f]`: a send (`streamMessage`) or a recovery (`reconnectStream`): the await it is at,
  the row it writes to, how many tokens it has delivered, and `on`: whether the
  object it writes to is still the one on the screen (a load replaces the array).
  An aborted feed calls no handler any more, except that a refusal whose body is
  being read still does (`client.ts:508`).
* `load[l]`, `stop`: `loadMessages` and the Stop request with the rows it is answered with.
* `known`, `row[r]`: the server's conversations and assistant rows. `Produce`, `Settle` and
  the feeds' deliveries are the server as far as the page can see it: tokens in order, then
  a terminal event. `ChatTurn` shows how the server does that.

`Overtaken` names the steps in which a send resumes although the page streams, and `stray`
records that one was taken.

Left out: user rows, the search narration, the sidebar, the model selector beyond where its
value comes from, request errors that only show a message, the token refresh, and a
body that ends cleanly without a terminal event.

## 3. Runs

| Run | Shows |
|---|---|
| `ChatTurn_single` | one send with search, two models whose fallbacks form a cycle, a reconnect, a Stop, a failed write and a restart: types, exact delivery, nothing lost, `done` is whole, the registry mirrors the loop, completed rows are whole, no stranded row, Stop wins, usage names the model that answers, and the readers see what `AnswerStream` promises |
| `ChatTurn_retry` | two sends of one token and a Stop that walks over both rows: the usage row closes with an outcome of one of the generations; Stop reports only settled rows |
| `ChatTurn_live` | under fairness, with a fallback cycle, a failed write and a restart: generations settle, the sender's feed ends, every Stop is answered |
| `TurnAdmission` | two requests at a time: a token has no more user rows than requests overlap, and the overrun of the quota is at most the race width |
| `Billing` | two payments, five deliveries of four events, a cancelled checkout, a cancelled subscription, expiry, one failure or restart: one active subscription, one grant for a payment, effects together, no premium left behind, every delivery answered, `PaidAccess` kept |
| `FilePipeline` | three workers, an upload, a retry, a deletion, the sweeper and one fault: the file follows its status diagram, READY has its text; no more runs overlap than one and one for each fault, and without a fault no object stays behind |
| `FilePipeline_live` | under fairness an unfinished file becomes READY or FAILED in spite of any two faults |
| `Composer` | two files and two conversations, with two navigations or removals, two failed uploads and a send that the page may give up: one upload at a time, every chip has an upload before it, no chip in a foreign conversation, an upload that landed stays visible where it belongs, a finished file is not sent again |
| `ChatView` | two feeds, a load, two rows, Stop, a lost connection, navigations and reloads: the screen shows of a row no token twice and none that the server has not produced, a completed answer is whole; and no step but one that is `Overtaken` ends that the page streams exactly while the one feed it can abort is alive |

**Bounds.** Two chunks tell first from later delta and snapshot from live;
a third adds no new branch. One send is enough for what concerns one
generation, because generations of different rows share only the Stop and the
usage row; those runs have two sends. One failed write and one restart at any
point cover each single fault; `ChatTurn_single` and `ChatTurn_live` have both together. Two models
suffice for a fallback and for a cycle. In `Billing` two payments are needed for one
grant to supersede another, five deliveries for the three ways a success is
repeated (the same event, another event, after a failure report) beside the second payment;
one cancellation of a subscription can race every other step. In `FilePipeline` two workers are
the processor's concurrency and a third would show a run that no fault accounts for, two attempts tell the last from the others (the code has
three), and one retry meets every state that the first cycle can leave; one fault is
enough to lose the lock and have two runs of one job. `FilePipeline_live` has two
faults, so that one can follow the repair of the other, and one worker to stay small.
In `Composer` two files tell the head of the queue from a waiting one, two conversations (one
is made on the way) tell here from elsewhere, two moves are a switch and the way back, or one of
them and a removal, two loads can overtake each other, and two failed uploads give an
error chip, its retry, and a failure of the file that the retry went ahead of. In `ChatView` two feeds are one that was left and the
one after it, two rows are a turn and its retry or another conversation's, one token tells
empty, growing and whole, two moves are leaving and coming back, or a Stop before or after a reload, and one fault is a lost
connection, a lost Stop or a network that returns. Files, loads and feeds are
interchangeable and taken as symmetric. Both runs have a constraint, `Bounded`:
after a state that a history variable marks (`strayed`, `stray`) most properties promise little or
nothing, and TLC checks that state but does not go on from it. `KeepsOneLive` has no such
exemption: TLC checks it up to and with the first step that is `Overtaken`, and the theorem
`OneLiveFeed` proves it for the steps after that too. Further bounds to keep the runs small: in
`Composer` two uploads fail only where nothing is sent, and in `ChatView` only the first of the two
answers may fail.

**Fairness.** `FairSpec` has weak fairness on the steps of a loop that has
begun, on a Stop and on a reconnect in progress and on delivery to a connected
client. The code justifies it: the event loop runs every ready continuation; a
database call resolves or rejects; the adapters time the provider out; the
completion wait of Stop has its own timer. Nothing is assumed of clients
(sending, stopping, leaving), of the provider's answers or of crashes. `Billing!FairSpec`
has weak fairness on the steps of each delivery: the gateway repeats what was not answered
with success, and a transaction that has begun goes on. `FilePipeline!FairSpec` has weak fairness
on the worker's and the callers' steps, on BullMQ's backoff and stalled check, and on time
and the sweeper's timer, which is set at start and fires every minute; nothing is assumed of
users, faults and restarts. `TurnAdmission`, `Composer` and `ChatView` state no fairness:
nothing they check is about what must happen.

**Deadlock** checking is off: a conversation in which all requests have ended is
a legal end, and so is a page nobody touches.

Each property has a mutant: a definition of the model changed in the way of a
plausible bug, defined beside the original, for which TLC finds the property
violated.

### What the code does not keep

Each of these runs checks one sentence of the repository and TLC finds it violated. For the first
two a theorem says what does hold: `SettledIsLostToStaleMarks` and `EndedIsLostToCancel` (section 4).

| Run | Sentence | What happens |
|---|---|---|
| `ChatTurn_stop_stale` | Stop calls "never touch completed/failed/interrupted rows" | Stop saves an entity it read while the row was open over a row settled since: its generation was not yet, or no longer, registered when Stop asked (`:868`), and nothing is looked at again before the save (`:883`). One send and no other row suffice |
| `Billing_cancel_paid` | the terminal states of a payment are immutable | a cancellation that read the row while it was pending is saved over the success |
| `ChatView_stale_load` | a conversation's model selector and rows follow the conversation that is open (`ChatView.vue:281`) | the messages of a conversation that was left arrive late (`ChatView.vue:382` does not look at `activeId` again): rows and model are put on the screen of the one that is open; over a new chat the rows stay hidden and only the model is wrong |

Seen in the source while modelling, and part of the models unless said otherwise, without
a run of their own. On the server:

* a row that is committed (`messages.service.ts:380`) and not yet registered (`:413`), or has
  just been unregistered, is marked `interrupted` by a reconnect or a Stop, where
  `CONVERSATION_RESILIENCE.md:79` reserves that status for orphans after a restart and
  for explicit stops;
* marking an orphan looks its usage row up by the id of the assistant message
  (`messages.service.ts:902`), and usage rows carry the id of the user message, so it stays
  pending, where the comment at `:893` says it is reconciled;
* a reconnect that attaches after the terminal event (`:725`) and before the
  unregistration (`:807`) never gets a terminal event, where `:912` promises one; `ReadersAreTold`
  proves that it is the only reader that does not;
* two overlapping sends of one token both find nothing and insert, where
  `CONVERSATION_RESILIENCE.md:26` says "No duplicate user bubble": lookup and insert are not
  atomic and the token's index is not unique (`message.entity.ts:41`). `DuplicatesAreRaceWidth`
  states what is left of the promise;
* the claim of a file admits a row that is already `PROCESSING`, so a redelivered job runs
  beside a run that lost its lock, where `file-processing.service.ts:149` says "two runs
  never process the same row concurrently": `OneRun` allows one run more for each failure;
* a retry that comes between a run's `markFailed` and the end of its job finds the job active and
  adds none, so the row is `PROCESSING` without a job until the sweep, where
  `files.service.ts:271` says that must not be shown;
* a retry that read the row before another retry's run finished saves `PROCESSING` over
  `READY`, where `files.service.ts:269` says a READY file can never be processed again that
  way; `admin-files.controller.ts:86` calls the reprocess "the ONLY path" back, while a
  retry is another one;
* a retry or reprocess that saves after a deletion inserts the row again, with its object gone;
* a deletion looks for messages that use the file and removes it afterwards, while a send
  may attach it (`files.service.ts:319` and `:331`);
* a Stop that comes while a fallback is being looked up does not end that step: row and usage
  row are renamed to the other model and the loop enters the provider loop once more, with an
  aborted signal that then ends the turn (`messages.service.ts:688` to `:713`), where the comment
  at `:667` says that "a stopped turn stays stopped, on the model that was actually answering".
  `StopWins` names this as its exception and says that there is no other: no Stop is followed by a new
  lookup, by a provider call after a search, or by another model;
* a fallback chain is followed to its end, where `messages.service.ts:606` says single-hop;
* a retry with another model keeps the usage row's first model
  (`usage.service.ts:69`); `UsageNamesAnsweringModel` is therefore stated of one send, and
  while no write has failed, for row and usage row are renamed in two writes of which either may;
* the second token lookup does not compare texts, the first one does
  (`messages.service.ts:324` and `:330`);
* failed turns are not counted against the quota and a replay is not checked at all;
* two saves of subscription rows that were read without a lock can turn `expired` into
  `cancelled` (`subscriptions.service.ts:63` and `:189`), which changes no entitlement;
* a cancellation's last step sets `users.plan` to free although a new subscription may
  have become active since its save (`subscriptions.service.ts:204`): `NoPremiumLeftBehind` is
  one direction only, and the other one does not hold. Entitlements are computed from
  the subscription, not from `users.plan`, so only what is displayed is wrong.

In the composer:

* a retry of a failed upload puts its file in front of the one in flight, which is then
  not the head that the answer removes: a finished file is sent again
  (`uploadQueue.ts:61` to `:63` and `:84`, against `:12`); `NeverSentTwice` exempts it by
  `overtaken`. If the overtaken file fails instead, it stays in the queue with a failed
  chip, and its retry does nothing (`uploadQueue.ts:83`), where `:8` to `:11` say that a retry
  starts it; `EveryChipIsServed` exempts that too;
* a new pick or a removal sets the queue going again behind a failed chip, where `docs/FILES.md:158`
  says that a failure holds the queue until it is retried or removed; a failed upload whose
  chip has gone halts it without a sign;
* a switch and back while a removal is on its way brings the chip of a row that is then deleted;
  a load whose messages were read before a send was accepted brings a chip of a file it has used;
* the end of a send clears the chips that became ready after it, although they were not sent
  (`ChatView.vue:938`); `UploadsStayVisible` exempts what such an end has cleared, and nothing else that
  a send does;
* creating a conversation for a pick while another is being opened leaves the chips of the
  one on the screen of the other (`strayed`).

In the chat view:

* after a Stop the row keeps `STREAM_ID` as its active id (`ChatView.vue:184`, `:920`, `:984`), so the
  local interruption that the comment at `:1180` describes does not find it; if the
  Stop's answer is lost, the row stays `streaming` on the screen with no Retry;
* a send in a new chat goes on after its conversation is created without looking at `streaming` or
  at what is open again (`ChatView.vue:341` to `:343`, `:860` to `:919`), so it takes the screen, and the handle
  of whatever streams by then. A second send in the new chat is one way to that (row 7 of
  `docs/CONVERSATION_RESILIENCE.md` says otherwise). A single send is enough: while its
  conversation is created the user selects another one, whose open row is recovered, and then the
  new conversation is opened under that recovery, whose stream goes on without a handle;
* a refusal whose body is read after the abort still calls `onError` (`client.ts:508` to `:517`), whose
  `finish()` resets another stream (`ChatView.vue:1144`), and a third may then write beside it.
  `Overtaken` names these steps, of the send and of the refusal; `KeepsOneLive` says that there are no others;
* the rows a Stop is answered with may overtake tokens of a recovery, which then show twice for a
  moment; `networkRecoveryRowId` outlives a Stop;
* an `online` event that comes before the broken read rejects finds nothing to recover, and the
  row is not re-attached (`CONVERSATION_RESILIENCE.md:22`);
* a load that replaces the rows under a running send makes its answer invisible until it
  ends; a load that fails leaves the rows of the conversation that was open before;
* a body that ends cleanly without a terminal event leaves `streaming` set (not modelled).

## 4. Proofs

`ChatTurnProofs` proves, for every set of sends, readers, stops and models and for every
bound, from the assumptions `SendsAssumption`, `ModelsAssumption` and
`BoundsAssumption`:

* `TypeCorrect`: `Spec => []TypeOK`. `TypeOK` alone is not inductive: the
  terminal save writes `loop.outcome` to the row, so it must be known to be a settled
  status, and the fallback step looks up a fallback, which must exist. `Typed` adds
  `LoopReady`, which says both.
* `RegistryMirrors`: `Spec => []RegistryMirrorsLoop`, by induction one generation at
  a time (`Mirrored(t)`): its entry is live exactly while its loop runs, and the
  snapshot buffer equals what the loop received except between the receipt of the
  first delta and its publication, and after an error in between.

`ChatTurnRowProofs` goes on with what the rows say, from the same assumptions:

* `CompletedIsWhole`, `NobodyStranded`: from `Sound`, an invariant of one send at a time
  (`RowSound(t)`): a completed row has a loop that is over and agrees with it in text and
  model, for nobody but the loop writes `completed`; and while no write failed, an open row
  has a loop that is on its way to its terminal save or died with the process, and a loop past
  that save has left a settled row; a failed row's loop is over.
* `StopIsTruthful`, `StopAlwaysWins`: the two action properties, one case per action. `StopWins` has an
  exception, the fallback step that is under way when the Stop comes (section 3).
* `UsageNamesModel`, `UsageIsClosed`: from `Books`: every accepted send is anchored at a user row
  that is there (`Anchored`), a usage row that one turn has alone names the model the loop asks,
  but for the moments of a switch (`ModelNamed`), and a usage row some loop of which has ended
  carries the outcome of one that has (`OutcomeKept`).
* `GenerationsRunDown`: the part of `GenerationSettles` that does not rest on fairness, for finitely
  many models. `Remaining` counts the chunks to come, the models not tried and the awaits of one
  round; every step of a generation lowers it (a fallback is a new model, by `FallbackIsNew`,
  which is why a cycle of fallbacks ends) and nobody raises it.

`ChatTurnDeliveryProofs` proves what readers get, and the refinement:

* `ExactlyDelivered`, `NothingIsLost`, `DoneMeansWhole`. `Within` bounds texts from above: what is
  published, saved or read of a row is at most what its loop received. `Fed(f)` says of
  one feed that its queue continues the text its client has (`Fits`): the chunks in it are the
  next ones in order, a terminal event is last and tells what the loop came to, and while
  the generation is live the text and the chunks that wait make up the snapshot buffer. What a queue is made of, and what an event at its end or the removal
  of its first does to that, are lemmas about queues alone.
* `ImplementsPromise`: `Spec => KeepsPromise`, the refinement of `AnswerStream`. A received delta is
  `Produce`; a start and an attach are `Attach`; the read of a reconnect is `Choose`; a replay from
  the row is `Replay`; a delivery is `Show` or `Finish`; a client that leaves and a restart
  are `Detach`; every other action leaves the mapped variables as they are.
* `NothingIsTakenBack`, from the refinement: while a reader is attached its text only grows, an end it
  was told and the text under it stay, and after `done` the answer gets no more.
* `SenderIsTold`, `ReadersAreTold`: the part of `SenderFeedEnds` that does not rest on fairness. While
  a feed is live its generation will publish a terminal event or the event waits in its queue
  (`Hears`); the one step that breaks this is a reconnect that attaches between that
  publication and the unregistration (`TooLate`), which no sender does.
* `SettledIsLostToStaleMarks`: a settled row is written again only by the orphan marking of a Stop or a
  reconnect that had read it while it was open, or by its own loop when such a marking came
  first. `ReadOpen` says that those markings carry rows that were open when they were read.
* `StopsAreAnswered`: the part of `StopAnswers` that does not rest on fairness, for finitely many
  sends. A Stop has found finitely many rows, each costs it two steps (`Left`), and until it is
  answered or lost there is a newest row for its next one. That a newest one exists rests on
  `Stamped`: no row is stamped later than the clock.

`BillingProofs` proves, for every set of payments, plans, events, deliveries and
cancellations and every number of failures, from `BillingAssumption`:

* `TypeCorrect`: `Spec => []TypeOK`.
* `AtMostOneActive`, `GrantedOnce`, `AllOrNothing`: the three invariants that make billing
  correct. None is inductive: that a payment is granted once depends on its
  row being pending while a transaction holds it, which depends on one transaction holding it,
  and on no subscription existing for a pending payment. The inductive invariant
  `Ledger` is their conjunction with `LocksHold` (one open transaction per event, one
  lock per payment, no effect before commit) and `ReadsExist` (what was read outside locks are
  rows that exist).
* `ImplementsPromise`: `Spec => KeepsPromise`, the refinement of `PaidAccess`, from `Ledger`
  and `CheckedOut`. `AtMostOneActive` is what makes the mapping of `access` a function of the
  state.
* `PlanFollowsSubscription`: `Spec => []NoPremiumLeftBehind`, inductive given the types.
* `EndedIsLostToCancel`, `AccessIsPaid`: what is left of the immutable terminal states. An ended
  payment is rewritten only by a user's cancellation that was on its way, and by the
  refinement what became of it for the user stays; access always rests on a granted payment.
* `RetriesRunDown`: the part of `DeliveriesAnswered` that does not rest on fairness, for finitely many
  deliveries. A transaction that the unique index refuses was overtaken by another one's grant, and
  grants are used up, so `Remaining` falls with every step of a delivery and rises only with failures.

`TurnAdmissionProofs` proves, for every set of sends, tokens and limits, from
`AdmissionAssumption`:

* `TypeCorrect`: `Spec => []TypeOK`.
* `DuplicatesBounded`: a token has at most as many user rows as requests may be in flight.
  The induction is over those who may still insert (`Inserters`): each of them saw no row of
  the token, so while there is none they are all in flight, and once there is one nobody
  joins them.
* `OverrunBounded`: the quota's overrun. `Exposed` is the sends that are charged or that have passed
  the check and may still be; only the check adds to them, one at a time, when it has just
  counted fewer than the limit, and what it did not count is in flight. It rests on
  `Rows` (a row's send is in flight or ended, and retries share the row of the
  first) and `StillCounted` (a row that no retry has taken up is not failed while its turn runs).
  At midnight nobody is charged.

`FilePipelineProofs` proves, for every number of workers, requests, deletions, attempts and
faults, from `FilesAssumption`:

* `TypeCorrect`: `Spec => []TypeOK`.
* `OneRunAtATime`: by `RunsHoldTheJob`, a run holds the job's lock from beginning to end unless a
  failure took it, a locked job is neither removed nor replaced, and the runs without it (`Loose`) are
  no more than the failures.
* `NoObjectLeftBehind`: `NoOrphanObject` is inductive by itself.
* `StatusFollowsDiagram`: the action property, faults included. It rests on `Orderly`:
  before the row is inserted nobody else is busy with the file, while nobody has claimed it no
  run and no sweep is about to fail it, and only requests save what they read.
* `ReadyMeansText`: by the cases of what is written to the row.

`ComposerProofs` proves, for every set of files, conversations and loads and for every bound,
from `ComposerAssumption`:

* `OneUploadAtATime`, `EachSentOnce`, `ChipsAreOwn`, `NoChipIsForgotten`. A step is first reduced to what it does to the
  queue (`QueueMove`: a file joins, ends, fails, is retried or dropped, or the queue is touched, left
  or reset), and the invariants are shown for these moves. `Waiting` is the inductive core: no file
  waits twice, `OneTransfer`, a file that was never given a chip is nowhere else (`Unpicked`),
  and a removed file has no chip (`Gone`). `InOrder` says that until a retry overtakes it the file
  in flight is the head of the queue, if it is there, and neither it nor a waiting one is recorded as
  done. `Belongs` is about the server's half: rows and lists are of files that were picked, and of the
  conversation they are listed for. `Served` adds to `EveryChipIsServed` that a finished file has
  no chip, which needs that chips are of the open conversation.
* `TypeCorrect`, `UploadsArePaid`: that attempts and chips stay within their bounds needs a count of
  attempts by failures (`Credit`): a file was sent no more often than once and once for each
  failure that is not a failed chip still. `RowsMade` says that rows are those of uploads that were made.
* `NoUploadIsLost`: `UploadsStayVisible`, from `Visible`: a file that landed and stayed is shown
  or some load under way brings it (`Brings`), whose conversation is still open or will be found not
  to be. It needs that what a load has read as used is used (`Drafts`), and that what landed has a
  row and a conversation (`Landed`, `Known`).

`ChatViewProofs` proves, for every set of feeds, loads, rows and conversations and for every bound,
from `ChatViewAssumption`:

* `TypeCorrect`: `Spec => []TypeOK`. A feed that delivers or recovers has a row (`Aimed`), and the
  rows a Stop reaches have a newest one.
* `OneLiveFeed`: `Spec => KeepsOneLive`, without an exemption by history: from any state that is
  `OneLive`, given the types, a step leaves the streams alone, ends them, begins one where none was,
  or is `Overtaken`. So `OneLive` holds until the first such step (`OneLiveBefore`).
* `ScreenIsTruthful`: `ShowsServersText`, from `Truth`: rows on the screen, rows a load carries and
  the snapshot of a recovery tell no more of a row than there is and call it completed only when
  they have all of it, and a recovery appends to exactly what it has delivered (`AppendsTrue`), but for
  the row the answer of a Stop was written over. The server's rows only grow (`Grown`).

The step lemmas have one case per action; what several actions do alike (a delivery that
leaves its transaction, rows that only end, one payment that moves) is a lemma of its own.

A least or greatest number of a set (the newest row a Stop finds, the first place of a file
in the queue) exists by the library's theorem on well-founded relations.

Every invariant and action property that a passing run checks is proved. Only model-checked, on the
instances of section 3: the five liveness properties, because fairness and `ENABLED` are out of the
prover's reach (for four of them the theorems above prove what is left when fairness is granted: finitely
many steps, or an event that is waiting; `FileSettles` has no such measure, for the sweeper may look at
a file any number of times before its worker moves); and the three sentences that do not hold,
which TLC refutes.

## 5. Not modelled

* Provider adapters and web search: network I/O; `ChatTurn` has what the service sees of
  them. File contents and extraction: bytes.
* The token quota (same shape as the message quota), authentication (stateless),
  conversations, plans and the audit log (edits of single rows).
* The model catalogue and the themes: administrators edit single rows, few and rarely.
  Reading them showed what a model would: a default theme that is first in the order and is
  disabled finds itself as its replacement (`themes.service.ts:92` to `:99`) and leaves no
  default, where `docs/API.md:423` promises one; a crash between the replacement's update and
  the save leaves two, which the repair at boot does not notice; two administrators can disable
  each other's replacement; setting a default model beside its deactivation, or a save of
  a row read before, leaves a default that is not active (`models.service.ts:144`, `docs/DESIGN.md:135`).
* Presentation in the frontend, wiring, test scripts.
* The only Python code of the repository, `.github/prompts/` and `.opencode/skills/`: packs of scripts
  for coding assistants (searches in CSV files, generators of slides and design
  texts), vendored twice. No part of the platform imports or runs them, and what they
  compute is text.

## 6. Plan

1. `ChatTurn`, `TurnAdmission`, `AnswerStream`, their runs (done); type correctness and
   the registry invariant, all of `TurnAdmission` proved, then all safety properties of
   `ChatTurn` and the refinement of `AnswerStream` (done).
2. `Billing` and `PaidAccess`, their runs, all their safety invariants and the refinement
   proved (done).
3. `FilePipeline`: row, object, job, worker runs, requests and sweep, its runs and
   the proofs of all its safety properties (done).
4. `Composer` and `ChatView`: the stateful parts of the frontend, their runs and their proofs (done). A
   deletion between the check and the attachment of a file is in `Composer`.
5. Left: `ModelCatalog` and `ThemeCatalog`, concurrent administrators (section 5 says what is known).
