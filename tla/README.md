# A verification of the Google I/O 2015 web app

TLA+ modules of the parts of this repository in which requests, tasks, tabs,
timers, animations and people's hands meet, the TLC runs that check them on small
instances, and the theorems about them that TLAPS proves.

`PROJECT.json` lists the components, the runs, for each property a mutant of the
code's model that breaks it, the source lines behind each definition, the
hazards and the findings.

## 1. The system

The site is a Go backend on App Engine (`backend/`), a Polymer front end with a
service worker (`app/`) and a musical experiment (`experiment/`).

| part | state it keeps | operations | talks to |
|---|---|---|---|
| schedule sync (`handler.go`, `schedule.go`, `db_gae.go`) | versions of the schedule and change entities in the datastore, cached versions on memcache shards, a counter in memcache that guards the sync | `syncEventData`, `getLatestEventData`, `fetchEventData`, `storeEventData`, `storeChanges` | storage bucket, datastore, memcache, task queue |
| clock (`handler.go`, `db_gae.go`) | announced sessions (kind Next) | `handleClock`, once a minute by cron | the stored schedule, change entities, task queue |
| push tasks (`handler.go`, `async_gae.go`, `push.go`) | push configuration of each user, tasks | `handleNotifySubscribers`, `handlePingUser`, `handlePingDevice`, `patchUserNotifySettings` | datastore, task queue, GCM and other push services |
| user updates (`handler.go`, `push.go`, `push-notifications.js`) | changes in the datastore, the token of a device in IndexedDB | push event, `serveUserUpdates`, `getChangesSince` | service worker and backend |
| bookmarks and surveys (`gdrive.go`, `schedule.go`, `survey.go`) | `user_data.json` in the application folder of the user's Drive, its ID and etag in the datastore | `bookmarkSessions`, `unbookmarkSessions`, `addSessionSurvey` | Drive, datastore |
| sign-in, subscription, token (`google-signin.html`, `auth.js`, `notifications.js`, `simple-db.js`, `bootstrap.js`) | who is signed in, the browser's push subscription, the endpoints and the switch on the server, the token | sign-in, sign-out, subscribe, unsubscribe, automatic subscription, push event | backend, push manager, IndexedDB |
| schedule page (`schedule.js`, `request.js`, `cache-then-network.js`, `offline-session-updates.js`) | what the page shows, a memory cache, the worker's cache, a queue of failed updates in IndexedDB | load, save, rate, sign out, replay | backend, service worker |
| router and page animation (`router.js`, `page-animation.js`, `elements.js`) | `router.state`, templates in the page, what animations have hidden, a video that has taken the screen | navigate, import, exit, swap, enter, play and close a video | browser history |
| experiment (`core.js`, `Root.js`, `InstrumentContainer.js`, `RecordButton.js`, `HistoryManager.js`) | which instrument is expanded, paused, muted, being recorded, listens | start, open, close, scroll, resize, record, history, leave | its instruments, browser history |
| instruments (`GuitarView.js`, `DrumView.js`, `ArpeggiatorView.js`, `HexagonView.js`, `ParallelogramView.js`) | strings, balls, the puck, the grid, notes; a recording and the track it becomes | pointer, keys, beats, record, reset, expand, contract | sequencer, playback bus |
| experiment's sound (`AudioManager.js`, `ChannelManager.js`, `Sequencer.js`, `Metronome.js`, `PlaybackBus.js`, `LinkedList.js`, `Pool.js`) | volumes and their fades, whether the metronome ticks, the next beat, lists of what will sound | fade in and out, mute, tick, schedule, emit | Web Audio, a worker |
| composition in a link (`DataModel.js`, `StateManager.js`) | the instruments' data | serialize, read | the address |
| countdown, globe (`countdown-timer.js`, `webgl-globe/`) | the value shown and its animation; meshes, matrices, a k-d tree of places | draw, announce the end, pick a place | `requestAnimationFrame`, WebGL |
| credentials (`auth.go`, `handleAuth`) | access and refresh token of each user in the datastore, and the copy in each call that needs Drive | exchange of a code, refresh, update, clear | Google's token service, datastore |
| feeds, templates, configuration, build | little | fetch, render | external services |

A change of the schedule travels through most of the system: `Publish` in a
bucket -> sync -> version + change + task in one transaction -> push tasks ->
ping -> push event -> `serveUserUpdates` -> notification -> token.

What is hard about it:

- no part of the backend holds a lock. A memcache counter that may be evicted, datastore
  transactions that are tried again, and etags take the place of locks;
- caches are filled and purged outside of the transactions they shadow, in the
  backend and in the page;
- tasks run at least once, in any order, and instances may die between any two
  calls; retries are counted by the queue and by the handlers;
- clients are told *that* something changed and fetch *what* changed by a
  time stamp of seconds;
- the page waits for promises and reads variables after them that the visitor
  changes meanwhile: signs out, clicks elsewhere, goes back, turns the device;
- an animation may be replaced by another one, and what waited for it then
  waits for ever; sounds and pictures are told apart by pools of recycled objects.

What would make each part correct is stated as the properties of section 4; the
list of hazards in `PROJECT.json` names the lines where they bite.

## 2. Modules

| module | models | checked by | proofs |
|---|---|---|---|
| `EventData` | the schedule, `isEmptyEventData`, `diffEventData` | through `EventSync` | |
| `ChangeFeed` | abstract: what the pipeline promises to its clients | `FeedSpec` of `EventSync` | `EventSyncProofs` |
| `EventSync` | `syncEventData`, the version store, its caches | `EventSync_feed`, `EventSync_live` | `EventSyncProofs` |
| `EventClock` | `handleClock`, `filterNextSessions`, `upcomingSessions`, `upcomingSurveys` | `EventClock` | `EventClockProofs` |
| `PushTasks` | the three task handlers, the upgrade of configurations, the user's patches | `PushTasks_users`, `PushTasks_live` | `PushTasksProofs` |
| `Slices` | `unique`, `subslice` | part of `Parts`; used by `PushTasks` | `PushTasksProofs` |
| `UserUpdates` | push event, token, `getChangesSince`, `mergeChanges`, `filterUserChanges` | part of `Parts` | `PartsProofs` |
| `AppData`, `UserData` | the document `user_data.json` and its operations; abstract: they are atomic | `UserSpec` of `AppFolder` | |
| `AppFolder` | reading, changing and uploading the document under an etag | `AppFolder` | `AppFolderProofs` |
| `Credentials` | the refresh token over sign-ins, calls to Drive and revocations | part of `Parts` | `PartsProofs` |
| `SWToken` | the subscription and the token over sign-ins and sign-outs | part of `Parts` | `PartsProofs` |
| `MySchedule` | saved and rated sessions as the page shows them, the worker's cache, the offline queue | `MySchedule` | `MyScheduleProofs` |
| `SiteRouter` | navigation with its transitions | `SiteRouter` | `SiteRouterProofs` |
| `VideoCard` | a video that takes the screen and gives it back | part of `Parts` | `PartsProofs` |
| `CountdownTimer` | the countdown and its animation | part of `Parts` | `PartsProofs` |
| `Globe`, `Geometry`, `KdTree` | matrices and picking, the sphere's mesh, the nearest place | parts of `Parts`, `KdTree` | |
| `ExperimentUI` | the experiment as its user moves through it | `ExperimentUI` | `ExperimentUIProofs` |
| `Recorder` | what each instrument does with what it records, and its track | through the instruments | `PartsProofs` |
| `Guitar`, `Drum`, `Arpeggiator`, `Hexagon` (on `Cube`), `Parallelogram` | the instruments | parts of `Parts` | `PartsProofs` |
| `Audio`, `Sequencer` | what is heard, and the beats | parts of `Parts` | `PartsProofs` |
| `PlaybackBus` (on `LinkedList`) | what will sound, in pooled nodes and descriptors | part of `Parts`, `PlaybackBus_late` | |
| `DataModel` | the link of a composition, and what a page makes of it | part of `Parts` | |
| `Parts` | composes the parts that stand alone, as instances on shared variables | `Parts` | `PartsProofs` |

`MC...` modules define the values and symmetries that a configuration cannot write down. `Parts` composes the parts that
stand alone: its `PartsInit` picks one of them, and the behaviour is of that part. It EXTENDS `UserUpdates`; the
other twelve are instances whose state is in `v1`, `v2`, ..., as the substitutions of `Parts` say, so that one set
of variables, one run and one module of proofs serve them all. `MCParts` adds the algorithms, each
as a part that takes no step.

In the backend the unit of a step is one call to a service: what the code does
between two RPCs is one action, so that processes interleave wherever the code
waits. In the page it is a task of the event loop: a handler of an event, the
callback of a promise, a timer, or the end of an animation, whole. A process is
a request (or run, event, task, chain of promises, transition) with its place and the
local variables it holds across calls; when it ends, it is put back to one value or
leaves the set of those under way, so that states that differ only in dead variables
are one.

### EventSync

`SyncStart`, `SyncRejected`, `SyncGuardError`: `cache.inc` of the guard.
`CacheHit`, `CacheMiss`, `Query`, `Fill`: `getLatestEventData`, which
`syncEventData` calls within its transaction and other handlers (*Readers*) call
without. `FetchManifest`, `FetchFiles`: `fetchEventData`; the time of the manifest is its Last-Modified, which
may be that of the publication before (`"hurry"`: two within a second), or `time.Now()` (`"header"`); each file
may come from a publication later than that of the manifest. `Store`: `storeEventData`,
whose `Delete` of the caches takes effect at once while its `Put` waits for the commit.
`Commit`: the transaction with what `storeChanges` and `notifySubscribersAsync`
put into it. `Conflict`: the version entity group has grown since the
snapshot, so the function runs again. `Unguard`: the decrement. `Crash`,
`EvictGuard`, `ExpireShard`, `Abort`: the environment.

The datastore's transaction is external: it takes a snapshot at its first read
and commits if the versions have not grown since. That version, change and task are there together or not at
all is what it gives, so `Commit` writes the three at once, and nothing is claimed about it.

### AppFolder

`LocalMeta` (ID and etag saved by an earlier request), `FetchMeta` (search of
Drive), `GetContent`, then `Create` or `Update` (If-Match), `Conflict` with one
more try, `SaveMeta`. `Modify` is the handler's change of the document, refused
for a second survey. Drive is external: each write gives a file a new etag, and
the search returns the file modified last.

### EventClock

`ClockStart` is everything before the transaction: it reads the schedule, perhaps an
older one from the cache. `FilterNext` drops what has been announced; what it dropped stays
dropped when the transaction is tried again (the code assigns to the variable outside of
the function, and so does the model). `Commit` stores the Next entities, the change
and the task.

### PushTasks

A task is a record in `tasks`; while its handler runs, its kind says where it is
(`ping-user` -> `match` -> `schedule`). `NotifySubscribers` lists the users (index may be
old), `ReadPushInfo` reads and upgrades a configuration, `MatchBookmarks`
compares, `SchedulePings` adds `ping-device` tasks and retries those refused,
`Push` calls the push service; by its answer the ping is done, scheduled again, or
becomes an `update` or a `delete` of the endpoint. `PatchNotifySettings` is the user.

### Credentials

A sign-in is a transaction, `Begin`, `Exchange`, `Commit`, that a write of the entity in between
makes begin again (`Conflict`), with a code that is used by then. A call copies the entity
(`Read`), and when the access token of the copy has expired it asks for another (`Refresh`,
`InvalidGrant`) and writes the copy over the entity, whatever that has become
(`updateCredentials`). A refused call ends in `refused`: `handlePingUser` then drops
the ping for good. `stale` and `crossed` record that a copy is older than
the last sign-in, and that such a copy was written.

### UserUpdates and SWToken

In `UserUpdates` time is in ticks. `Commit` stores a change whose time stamp is up to
`MaxLag` old, before or behind others; `belated` has those that were committed when some token had passed
them. `LoadToken`, `FetchUpdates`, `ShowNotifications`, `SaveToken` are the push
event of the service worker; several run at once. `Unix` cuts a time to seconds.

`SWToken` keeps the token only as the account it is of. What is asynchronous is a chain
(a record in `chains` with the step it waits for): the code that is sent to the server,
`ensureSWToken_`, the sign-out's unsubscribe and clear, `subscribePromise` and what
`isNotifyEnabledPromise` decides, the switch of the panel, a push event. `disturbed`
records that an account changed, a call failed or the page was left in the middle of a
chain that minds (a failing look for a subscription is caught and goes on to subscribe, so it does not); each of its disjuncts was
needed: without it TLC finds a token or
a subscription of the wrong user.

### MySchedule

`jobs` are requests, replays and entries to the queue, each with its phase: sent, handled
by the server, answered. `display` is the callback of a load; `fetchResource` takes the
memory cache, or starts the two requests of cache-then-network, whose answers come in any
order. A write that fails is queued by the worker under its URL (`Enqueue`), and the next
sign-in replays the queue and then deletes it, which waits until all connections to the
database are closed (`held`), as opening one waits for the deletion. `overlapped` says
that an answer and a sign-out have crossed, `unloaded` that a load has failed.

### SiteRouter and VideoCard

A navigation writes `start`, `current` and `end` of `router.state`; a transition is a
record in `runs` with what its closures have captured and where it is in its sequence of
promises (`runPageTransition`, `runSubpageTransition`). An animation leaves its element as the last
keyframe says, so `hidden` is the set of elements that an exit has hidden and nothing has
shown again. `stuck` holds the transitions whose import has not loaded. Of `updateUIstate` the marks of the menu and the
tabs (`selectedPage`, `selectedSubpage` and its reset, `router.js:260`) are left out.

`VideoCard`: `frames` are the timers of the takeover in order; `nav` is the class that
`toggleVideoOverlayNav` toggles.

### ExperimentUI

Each variable is the set of the views for which the code's variable of that name is set
(`expanded`, `paused`, `visible`, `muted`, `isRecording`, `keyup`, ...). `motion[v]` is the animation
of a view, with whether its promise is still heard: another animation of the same object
replaces it. `History` is the browser's, with the entries the experiment has pushed.
`hurried` says that the user has done something in the middle of an animation or of a
return from history; `AtRest` and `BackStaysInside` are about behaviours without.

### Instruments and sound

`Recorder` is what the five views have in lines of their own: a recording, the track made
of it, which of its tracks the sequencer has. Each instrument adds its hands. The guitar's strings
are objects in a map by pid and at two dots, and the composition it loads has some (without any, `GuitarView.js:149`
returns before there are dots or a track); the drums' balls hit in any order; the arpeggiator's
puck is in a quadrant while held; a hexagon raises its rings; a parallelogram is up
from press to release, or until the timer of its track note.

`Audio` has fades as records that end in a call (stop), each an animation of its own, so two
that set one volume both run; of these the one asked for later wins, also if it is the other that waits for a delay.
`Sequencer` hands out beats at ticks of the worker. `PlaybackBus`
goes over its lists node by node, as `LinkedList.forEach` does, with what `remove` and
the pools do to the node it stands on.

### Algorithms

`Slices`, `Cube` (rings of hexagons, rows and columns), `LinkedList`, `KdTree`, `DataModel`,
`Globe` and `Geometry` are operators, checked against what they are for: counting and order; distance
in the grid; a sequence; the nearest of all points and the tree's invariant; the
data that was written; the point that is drawn is the point that is picked; every edge of a closed
sphere is in two faces that run through it in opposite directions.
Real numbers are scaled integers: angles by Pythagorean sine and cosine.

## 3. Abstractions

A session's content is a model value; speakers and videos, which are diffed by the same
rule, are left out. Strings, JSON, HTTP headers, URLs and logs are left out, except for the
link of a composition, where the rewriting of its numbers is what matters.
An endpoint is a number; a registration ID and the URL that ends with it are the same
number. Bookmarks are a set in `AppFolder` (the code keeps them unique, `Slices`
has the lists). Ordered choices that a service makes (which of two equal
time stamps comes first) are nondeterministic. Drawing, physics and sounds are left out:
a ball hits what it may, an animation ends after it has begun.

## 4. Runs

Twelve runs, none takes longer than about three minutes with two workers.

| run | result | what it shows |
|---|---|---|
| `EventSync_feed` | pass | two syncs, which may overlap as memcache loses the guard, a reader, crashes, failing calls, publications within a second, manifests without a time: versions, changes and tasks implement `ChangeFeed`; no fresh content goes unannounced |
| `EventSync_live` | pass | guard kept, no readers, calls fail now and then: one sync at a time, versions in order, no torn version survives, each version is compared with its predecessor; what is published last is stored; the guard opens again |
| `AppFolder` | pass | three requests, any metadata, lost answers: no lost update, atomic changes of the first document, one survey while there is one file, every request is answered |
| `EventClock` | pass | two overlapping runs, a schedule that moves, stale caches, conflicts, crashes: announced once, on time |
| `PushTasks_users` | pass | configurations of all ages, patches, one fault of any kind: no subscribed device is lost |
| `PushTasks_live` | pass | two faults that the handlers retry: everybody who should be is pinged, nobody else is, the queue drains |
| `SiteRouter` | pass | three navigations at any moment, imports that never load: the state, the title and the address agree in the end, transitions end, and the page is in order when nothing runs unless a navigation fell into a swap of templates, a slide-out or content of another page |
| `MySchedule` | pass | two users one after the other, failures, a queue that an earlier visit has left: the page shows what is saved, queued updates go with their owner, fetching and replays end |
| `ExperimentUI` | pass | five inputs in two views, two starts: a way out at any time, order when nothing moves, the back icon stays inside, recordings end |
| `Parts` | pass | the parts that stand alone, see below |
| `KdTree` | violation | of eight points one is not found by its own coordinates |
| `PlaybackBus_late` | violation | a frame that plays a sound leaves the sounds behind it in the list as they are |

The properties of `Parts`:

- `NothingSkipped`: overlapping push events, failures, answers cut at the limit, changes within a second and
  committed behind others: the token passes an unseen change only if that was committed when it had
  passed, less than a second after another, or was cut off from a full answer by less than that.
- `RecordedIsPlayed`: after any order of recordings, resets, expansions and contractions an
  instrument plays its last track and no other, and what is shared is what is played.
- `FollowsTheHands`: strings and dots refer to each other; the arpeggiator sounds only while
  held; one drum is dragged at a time; hexagons listen whenever their view is expanded, also after a resize;
  a parallelogram's note ends; the bar is there just when a video has the screen.
- `BusKeepsAll`: no sound or beat is lost, repeated or early; lists and pools stay well formed.
- `AudioFollows`: at rest the sound is on when the experiment plays, at the right volumes;
  beats follow each other and are handed out in time.
- `SubscriptionFollowsUser`: at rest the token and the subscription are of the signed-in user.
- `GrantIsKept`: the refresh token of the last sign-in is kept until it is revoked, and a call is
  told that a sign-in is needed only then, unless a copy from before the sign-in was written back.
- `EndIsAnnounced`: the end of the countdown is announced, not before its last second, unless it falls into a
  value of a second or more.
- `AlgorithmsAgree`: the algorithms against their references, and that the ripple of a hexagon reaches all of them.

Each has one mutant in `PROJECT.json`; its other conjuncts were also seen to fail when the code
they are about is changed: key-up ignored by the arpeggiator, any drum dragged, hexagons deaf
after a resize, a note not ended at a release, beats handed out when due, the
link in decimal, an unsorted schema, a median rounded down, `unique` of neighbours only,
`subslice` that stops early, a bar that is always shown, a product of matrices in the other order.

### Bounds, and why they are enough

- Two processes of a kind (three in `AppFolder`): the protocols compare a process's
  snapshot with *the* state, so a conflict needs one other process; the third in
  `AppFolder` lets a conflict happen on the second try.
- `MaxAttempts = 2` stands for the datastore's 3: one try that fails and is repeated, one
  that gives up.
- `MaxVersions`, `Times`: in `EventSync_feed` a sync begins while there is at most one version (`MaxVersions = 2`), so that
  two that overlap make three, the last of which may be compared with the first from a stale cache; all six faults
  at once give 1.2 million states. In `EventSync_live` `MaxVersions = 5` is never reached as a sync stores
  only what is newer, so the bound cannot hide a sync that should happen.
- `MaxGuard` caps a counter of which only 0, 1 and more matter; `GuardReset` (1000 in the
  code) is larger in `EventSync_live`: that the guard opens again rests on fewer than 1000
  requests being rejected during a sync. In `EventSync_feed` it is 2.
- `EventClock`: a start in minute 2, ten minutes scaled to 2, a survey a minute after the start;
  time ends at 3, after start and survey. `Grace = 1` is the longest gap between runs that
  succeed for which `OnTime` is promised.
- `PushTasks`: the three generations of configurations that the upgrade tells apart, a bare
  endpoint with a registration ID, two of these, and endpoint URLs with notifications off
  (`PushTasks_users`; the other run takes the first and the last). `MaxFaults` is
  one fewer than the attempts of the code under check.
- `UserUpdates`: `Second = 2` ticks, so changes may fall within a second, or at one time; `MaxLag = 2` lets one
  be committed after a push event has asked for what is later than it; `Limit = 1` of 3 changes cuts an
  answer at every change.
- `SiteRouter`: pages with and without a hero and with subpages; `MaxNavigations = 3` lets a
  navigation fall into a transition that has itself been overtaken. The proofs have no such bound, and
  it was the proof that found what needs four (section 5).
- `MySchedule`: two sign-ins (`MaxSigns = 2`) are one hand-over. Two sessions in the queue of an earlier visit
  (`Unsent`) let one request of a replay fail (`MaxFailures = 1`) while the other is in flight; one click
  (`MaxChanges = 1`) changes what is loaded meanwhile, or fails and is queued. The run has the saved
  sessions only; with `Resources = {"schedule", "survey"}`, one session and no failures the same
  properties hold, in six minutes.
- `ExperimentUI`: two views are the open one and another; five inputs open, record, close
  and reopen one; the second start meets what the first has left.
- `Parts`: two sign-ins are one that replaces another, two calls one that is stale and one that is not;
  a recording, a reset and one or two notes for an instrument, after which nothing is new to its state;
  three items on the bus, so that one is removed between two; four inputs for the
  subscription are a sign-in, a sign-out and two calls in between; times are scaled so that they
  keep their order, and a value of the countdown takes 1.2 of its seconds, as the element has it (500, 300 and 400 ms). The algorithms
  are run on all small inputs of a kind (`MCParts`); the
  k-d tree up to seven points, as from eight on it may be wrong (`KdTree`).

### Fairness

- `EventSync`: a sync is requested again and again (object change notifications and cron);
  a handler that waits for an answer gets it; a call made again and again does not
  fail for ever (strong fairness of the calls); memcache entries expire. Nothing is
  assumed of `Publish`, of readers' requests or of rejections.
- `AppFolder`: a request that is being handled is handled to its end.
- `PushTasks`: the queue runs its tasks. That is weak fairness of *some* task, not of each:
  faults are bounded by `MaxFaults`.
- `SiteRouter`, `MySchedule`, `ExperimentUI`: what the browser has under way goes on: promises, animations,
  timers, beats, requests that are answered or fail. Weak fairness of *some* such step
  is enough, as there are finitely many; nothing is assumed of the user.

`CHECK_DEADLOCK FALSE` is set where the model ends: when time, inputs or requests are
used up, or the queue is empty.

## 5. What the work found

Two of the disagreements between what the repository says and what it does are runs, the
others came up as counterexamples of a property before its condition was stated, and
are named here with their lines.

Runs:

1. `KdTree`: `kd-tree.js:479` takes the height of the stack for the depth of a node, which
   holds only until a node from the stack has pushed one of its own; the node is then
   searched in another dimension than it was split in.
2. `PlaybackBus_late`: `PlaybackBus.js:95` removes and frees the descriptor the loop stands on;
   its node has no next any more, so the rest of the list waits for the next frame,
   without its time being decremented.

Backend:

- `storeEventData` purges the caches before its transaction commits, so a reader may put the
  old version back, for an hour (`db_gae.go:238`, comment at `:274`). The feed survives it
  (`EventSync_feed`): the next sync is compared with *some* earlier version.
- `createAppFolderData` is unconditional: two first requests both have their survey of one
  session accepted; "prevent double submission" holds while Drive has one file
  (`OneFileOneSurvey`, proved).
- An error of `AddMulti` that is no `MultiError` comes with no endpoints to retry
  (`async_gae.go:85`); an error of `pingUserAsync` is only logged (`handler.go:859`).
- Changes are found by the time of their source, not of their commit (`db_gae.go:356`), and
  the next token is a second after the last change: one that is less than that after another, and committed or
  asked for later, is never sent; all others are (`NoUpdateSkipped`, proved). Nothing in the code keeps
  a clock run and a sync from committing in the same second.
- A manifest that is published in the same second as one that has been stored is "not modified" (`schedule.go:261`) and
  waits for the next publication; one without a Last-Modified header is stored under the time of the request (`:252`).
- `updateCredentials` overwrites all fields with a copy that may be older than the last sign-in
  (`db_gae.go:94-96`): the new refresh token is lost, and with `auth.go:102` cleared although it is
  good. A sign-in whose transaction conflicts posts its one-time code again and fails.
- A crash in a sync leaves the guard closed until memcache drops it; `subslice` takes out one
  occurrence per item, so with duplicates its result may contain an item.

Page:

- The ratings are not cleared at a sign-out (`schedule.js:325-327`): the next user sees them.
  An answer in flight at a sign-out fills the cache and the page. `Response.error()` does not
  reject, so a 500 is not queued (`offline-session-updates.js:38`). `replayQueuedRequests` waits with
  `Promise.all` (`schedule.js:367`), which rejects at the first request that fails; the schedule is then loaded
  (`bootstrap.js:134`) while others are in flight, and what they change is missing from it, although `schedule.js:348` says
  that the promise "Resolves once the replay attempts are done, whether or not they succeeded". After a request that
  fails `scheduleFetchingUserData` stays set.
- A sign-out while a push event, `ensureSWToken_` or an automatic subscription is under way, or
  a sign-in while the sign-out's own chain is, leaves the wrong token or subscription
  (`auth.js:60-75`, `:111`, `bootstrap.js:141-150`); the code for the server
  has no `onerror` (`google-signin.html:184`); `dontAutoSubscribe` is
  reset when the schedule page loads first (`schedule.html:449`).
- A subpage that is clicked away from and back during its slide-out stays hidden
  (`router.js:264`). If a page is asked for while another is being imported, the templates that arrive
  are not those of the state's new page (`router.js:199`), which has no content until its own transition is
  through; a click elsewhere and back meanwhile imports only the other page, as the page of the
  state is not "new", and the content stays that of another page than the title and the address (`:390`).
  An import that does not load leaves its transition waiting for ever (`:157`).
- Closing a video twice or opening another card meanwhile leaves the bar without a video, or the
  other way round (`elements.js:411`, `:498`).
- The end of a countdown is announced by a frame that draws zero, so there must be one. `registration.html`'s
  has a cycle of 1.2 s: a visitor may never be told that it is over. The others take 990 ms, with frames of 17 ms a few
  milliseconds more than a second, so that they miss it now and then. One that is hidden at the end always does.
  So it is not always that the timer "has finished" (`countdown-timer.html:318`) and says so; it takes a date that falls into a
  value of a second or more (`EndFellOut`), and that nothing else does it is `EndIsHeard`, proved. Without that condition
  `EndIsAnnounced` is violated in the run.

Experiment:

- Escape or the back icon during the 0.8 s of an opening goes back before there is an entry to go
  back from, out of the experiment (`Root.js:420`, `:483`). A resize replaces an animation and
  what waited for it never goes on.
- A reset does not bring back the first composition (`Root.js:184`): `loadData` of the guitar deletes `dots[pid]`
  instead of the strings (`GuitarView.js:144`). A recording that ends in a contracted view leaks its
  predecessor. The arpeggiator takes off the wrong listener (`ArpeggiatorView.js:235`).
  A key that repeats, a track note that ends, or a contraction in the middle of a
  note of a parallelogram cut it, give it no duration, or leave it on.
- Pausing and playing within 0.75 s leaves it silent (`core.js:250`, `:257`); returning to a paused tab
  starts the sound (`AudioManager.js:107`); starting again within 0.5 s of leaving leaves two metronomes.
- The first beat after each start is handed out an interval of the worker late.
- A fraction in a link changes its value: the digits after the point are written as a number of their own
  (`DataModel.js:228`).

The conditions of the properties (`hurried`, `disturbed`, `overlapped`, `crossed`, `left`, `stuck`, `abrupt`, ...)
are history variables that record just these situations: what holds outside of them is checked.

## 6. Proofs

All proofs hold for every value of the constants, so for any number of processes, sessions,
versions, views and retries, and for each subset of the faults unless stated.

- `EventSyncProofs`:
  - `TypeCorrect`: types with `CommitInv`. The types alone are not inductive: that a version is
    newer than the one it is compared with, and not empty, is decided two calls before
    the commit, and `CommitReady` carries it there.
  - `GuardAdmitsOne`: `SyncExclusive`, assuming `"evict" \notin Faults`. Inductive with "while a
    request is syncing the guard is positive"; crashes only leave it closed.
  - `FeedInvariant`: the promises of the abstract feed. The invariant adds that each change was
    computed against some earlier version, which `Sync` preserves as versions are only appended.
  - `ImplementsFeed`, `FeedPromisesKept`: a commit is a step of `ChangeFeed`, everything else a
    stutter; so the promises hold whatever overlaps.
  - `TornIsOlder`: `NoTornVersion`, assuming that publications are a second apart and carry their time (`"hurry"`,
    `"header" \notin Faults`). `WholeInv` says of a version under way what it says of the stored
    ones, and that neither is newer than what is published: a file that is fetched late is of a
    later publication than the manifest, and then the manifest's time is not the newest.
  - `StoredInOrder`: `VersionsInOrder`, assuming `"evict"`, `"header" \notin Faults`. Without an eviction one sync
    is under way, but it may be compared with an old version from a cache. `OrderInv` is that no
    stored version is newer than what a sync that has read its manifest is about to store: none is when
    it reads it, and nobody else can store one meanwhile.
  - `ChangesAreConsecutive`: `EveryChangeIsAnnounced`, assuming `"evict" \notin Faults`, `"memcache"
    \notin Faults` and `Readers = {}`. `LastInv`: the caches hold the last version or none, and a
    sync compares with the last one. Each assumption is needed: a reader fills the cache again
    between purge and commit, and so does a purge that fails.
- `AppFolderProofs`: the invariant has three parts, types, `EtagInv` (nobody holds an etag
  that Drive has not given yet) and `BaseInv` (while the etag a request holds is the file's, the
  document it is about to upload is its operation applied to the file's). A write gives a file
  an etag nobody holds, so it cannot break `Based` of another request.
  `NothingLost`, `ImplementsUserData` (refinement of `UserData`, mapping the document to that
  of the first file, or to a new user's) and `SurveyedOnce` follow; the
  last needs `SurveyInv`: a recorded survey is in the file, where the next request finds it.
- `PushTasksProofs`:
  - The lemmas about `Slices`: `SortedKeeps`, `UniqueKeeps`, `SubsliceKeeps` say for every list that
    the helpers lose and invent no item (`subslice` but the one it takes out). They are loops, so
    recursive functions in the model, and take two inductions: one for the function's existence and
    one for what it computes. As theorems with an operator parameter are out of reach, `SetInduction`
    states induction for a *set* of numbers, and derives it from finite sets: if n were missing in it, one
    could count from its members up to n into those that are not 0, which are fewer.
    Sorting is declarative; that each position has an item, and each item a position, is
    counted by ranks (`RankIsTaken`).
  - `TypeCorrect` and `KeepsDevices` (`DevicesAreKept`): the invariant adds `Grounded` to the types of
    configurations and tasks: a handler past `ReadPushInfo` has a user without registration IDs left, so
    that `deletePushEndpoint`, which takes the ID at the same position, takes none; it is only after what is gone;
    and what replaces a registration ID is still what GCM wants, as that does not change again.
  - `OthersAreSpared` (`NobodyElseIsPinged`): `Spared` is inductive while the user is not to be
    notified: his tasks get no further than the comparison of his bookmarks.
- `EventClockProofs`: `ClockInvariant` adds to types that what a run is about to commit is
  disjoint from what is announced unless somebody has committed since its snapshot; `Once`
  follows. `InTime` (`OnTime`) needs `TimelyInv`: a run in flight will announce what was due when it
  began, unless it is announced; the last run that succeeded has announced what was due for it; and it
  is no longer ago than `Grace`, which `Tick` assumes of cron. What is due was due before: the schedule and the
  cache agree on a session only from when the cache has got its time on (`DueBefore`).
- `SiteRouterProofs`: `TypeCorrect`; `Converges` (`PageConverges`), from `StateInv`: whoever asks for a page that
  the state does not have starts a transition, and a pending transition sets the state to where the last
  navigation goes. `InOrderAtRest` (`AtRest`): nothing of what overlapping transitions bring into disorder is
  left to itself. `Orderly` says for each part who is going to put it right: a handler in force is
  that of the page where the state goes or some exit is to unload it (`HandlersInv`); the content is that page's or an
  import is to come that finds its templates (`ContentInv`); what is hidden, and the ink, has a
  transition whose entry sequence takes it back (`FrameInv`).
- `ExperimentUIProofs`:
  - `TypeCorrect`; `AlwaysAWayOut` (`WayOut`), whatever the user does and whenever. It is
    inductive with `Growing`: a view whose opening or whose controls are being animated
    is expanded, since every contraction replaces those animations.
  - `InOrder` (`AtRest`) and `BackIsOneStep` (`BackStaysInside`), as long as nobody is in a hurry. `Orderly` lists
    what the experiment may then be doing: it is away, leaving, shut, or opening, open or closing one instrument,
    and says of each what is switched off and who will switch it on. Going back is safe by `HistoryInv`: an
    instrument's address is the last entry, and the experiment's comes before it, as whatever is pushed
    after an instrument is pushed from an entry before it.

- `MyScheduleProofs`:
  - `TypeCorrect`; `ReplaysAreAwaited`: a replay that waits has a request in flight for every update that it has not
    had answered, so it never waits for nothing, whatever overlaps.
  - `OwnersSend` (`SentByItsOwner`) and `RestIsTrue` (`ShownIsSaved`), as long as nothing has overlapped. Both are
    about states at rest, or about a request on its way, and say nothing about how one gets there. `Orderly` does,
    in seven parts: work of few kinds is in flight at the same time (`Alone`); it is the work of the user who is
    signed in, and so is the queue, unless it is about to be deleted (`Owned`); then only a replay waits,
    for the deletion (`Blocked`); before a load and after a sign-out the page knows nothing
    (`Unknown`); what is loading is what the server has (`LoadsOK`); a click that is in flight is of the
    session that is selected (`ClicksOK`); and a session that is marked wrongly is queued, about to be
    marked by an answer, or by a replay or a load that is still to come (`MarksOK`).
- `PartsProofs`, which has a section for each group of parts. A behaviour of `Parts` is one of a single
  part (`PartSteps`), so an invariant of an instance is one of `PartsSpec`. Each part has the invariant in its
  own module, after the property that rests on it.
  - `TypeCorrect`, and `NoUpdateSkipped` (`NothingSkipped`), for changes at any distance and delay. A token is less
    than a second past some change that was there when it was made, wherever it is held (`TokensInv`), so what is
    committed behind a token is less than a second after another change (`BelatedInv`). And a token is
    good: each change before it has been shown, is in the answer that is about to be shown, was committed behind
    some token, or was cut off (`TokenInv`): what an answer has not, although it is later than the token asked
    with, has as many before it as the answer holds.
  - `PlaysWhatIsSaved` (`RecordedIsPlayed`): each step of an instrument does to its recorder one of eight things
    (`Records` of `Recorder`), whose invariance is proved once for all five. A hexagon writes notes also while it
    does not record, so its own invariant is the weaker `BeginsWithItsTrack`.
  - `GrantKept` (`GrantIsKept`): what a transaction will store and a call will write
    back is not in the entity yet, so the invariant says of a draft the entity has not
    moved under that it has the entity's refresh token or the sign-in's own (`DraftsOK`), and of a
    copy that is not stale that it has the last one, or none if that is revoked (`CopiesOK`).
  - `SubscriptionFollows` (`SubscriptionFollowsUser`): at rest token and subscription are the user's; in between
    `SignedIn` and `SignedOut` say who will make them so. Where nobody is signed in, no chain would enter a user, and
    what is left of the last one has a chain that clears it; where somebody is, all chains are of that user, a token
    that is missing has a chain that fetches it, and an endpoint that the server does not know one that sends it.
  - `HandsAreFollowed` (`FollowsTheHands`): the invariants of the arpeggiator, the drums, the parallelograms and the
    hexagons add what a contraction leaves behind. `GuitarInv` is about objects: the map, the objects and the
    dots agree on each string (`StringsInv`), one has a single dot and only while it is drawn (`DrawInv`), and the
    pool has every pid that no string has (`PoolInv`), so that it is never empty when a string is drawn: the
    drawn string has one dot and all others two, all different, so that there are fewer strings than pids, which is
    counted. `VideoInv` lists the stages of a takeover that nothing has crossed: closed, waiting for the
    player, opening, open, closed while opening, closing.
  - `SoundFollows` (`AudioFollows`). `SoundInv`: fades of a channel are appended in the order in which they begin; the
    last one leads to the volume the channel should have and lasts longest, so it is also the
    last to write it (`ChannelInv`); that needs a channel to be muted no slower than it is unmuted, 0.5 s and 1 s
    (`ChannelManager.js:22-23`). The main volume fades in, or fades out into what ends it (`MainInv`). The
    fades that remain after a frame are the n-th of those that have not ended, for each n (`Only`); that this keeps order and
    members is counted, as in `PushTasksProofs`. `SequencerInv`: a tick is under way no later than the
    beat it is for (`TicksInv`), and the next beat goes on after the last (`BeatsInv`), which needs ticks at
    least as often as beats and a horizon no shorter than a tick, 100 ms to 150 ms and 100 ms (`Sequencer.js:21-26`).
  - `EndIsHeard` (`EndIsAnnounced`), for values that are shown for less than two seconds. `CycleInv`: what is shown is what was
    left when the value began to ease in; zero is shown only in the last second, so a countdown that is over has shown zero, and announced it in a frame
    of its last quarter, or its last value was of a second or more (`EndFellOut`);
    `FrameInv`: the last frame was before the value's end; `FreezeInv`: the next value was computed
    for a time at most a second from when it will begin. What is left is divided into days, hours, minutes and seconds,
    which needs that these units divide each other (`AllInSeconds`).

Assumptions on constants are the named `ASSUME`s of the modules; each is evaluated by a run. Those of `Parts` are
what the code has: the composition's strings have pids and dots to themselves (`GuitarAssumption`; so has the default
one, `models/guitar.js:52-73`), the sequencer's durations and the channels' (`SequencerAssumption`, `SoundAssumption`, above),
units of time that divide each other and values of a countdown that are shown, with a frame, for at most two seconds
(`CountdownAssumption`; the longest of the site is 1.2 s, and a frame that takes more than one counts as missing),
and "nobody" and "none" are no names
(`PartsAssumption`). What a theorem assumes beyond them is in its statement.

Only model-checked:

- all liveness (`PublishedIsStored`, `GuardReopens`, `Answered`, `EveryDeviceIsPinged`, `TasksDrain`, `TransitionsEnd`,
  `FetchingEnds`, `ReplayEnds`, `RecordingEnds`), since the prover does not reach fairness;
- `BusKeepsAll`: the lists of the playback bus are chains of pooled nodes in a heap, and its frame is a loop over
  a chain that it changes; what the recursive functions that walk a chain compute needs an induction over the heap for
  each operation;
- `AlgorithmsAgree`: the ripple, the grid, the tree, links, geometry. `KdTree` and `DataModel` are recursive
  operators, which the prover does not take; the rest is arithmetic on small inputs.

## 7. Where to go on

What would add most: a proof about `PlaybackBus`, for which its heap had better be an abstract sequence refined by the
chain; and the parts together, where they meet: a sign-out reaches the schedule, the token and the router in one
event, which are three modules here.

## 8. Not modelled

- Templates, feeds of social posts and I/O Extended, configuration, build and deployment, markup and styles, the
  renderer of the countdown, and what the experiment's views draw: rendering or plain I/O with no state that
  could go wrong across steps.
- The verification of ID and bearer tokens (`jwt.go`, `auth.go:130-181`) and the credentials for Twitter: pure
  checks, or one call each.
- The memory cache of the development server; the queue of analytics, which is sent until it succeeds or
  is a day old; caches of the service worker for images, fonts and the experiment, which are calls of a library.
- `ping-ext` (a task for the Android app), `debugPush`, the submission of a survey to its
  service, the text of notifications, metrics.
- Filters of the schedule, menus, dialogs and toasts; the texts of the sharing buttons; physics and sounds.

Verification of ID tokens, the push services, Drive, the datastore, memcache and the browser are external
and appear as nondeterministic answers. The table of components in `PROJECT.json` gives each its status.
