# Zevryon: specifications, model checks and proofs

Zevryon is a document engine in C++: it imports very large documents into an
append-only store, lays out and paints the part of them that is visible, and
does so for many tabs inside one process under memory pressure. Much of the
repository computes a result from its input (parsers, tokenizers, Unicode
tables, geometry). What is hard to test is where threads, crashes, failures and
caches meet:

* pools that run layout and read-ahead for many sessions on few threads,
* a store of generations and an arena of heights that must survive a crash
  between any two writes,
* the memory-pressure controller and the runtime services of the tabs,
* caches with hand-kept accounts: fonts, blocks, mapped windows, glyphs,
* windows: a Vulkan context shared by reference counts, swapchains with leases
  and fences, frames that redraw only what changed,
* layout that starts in the middle of a record and must find the same lines.

This directory holds TLA+ modules translated from that code, TLC
configurations that check them on small instances, and proofs that TLAPS checks
for every value of the constants. Source paths below are relative to the
repository (`src/foo.cpp` here is `src/src/foo.cpp` in `PROJECT.json`).


## 1. Inventory

`PROJECT.json` lists every component with its files, its status and what is left
out of it, and every hazard at the line where it bites. In short:

| Component | State | Hard behaviour | Module |
|---|---|---|---|
| Foreground layout handoff | mailbox per session, byte budget | late result of a session hidden and shown again | `ForegroundHandoff` |
| Foreground layout worker pool | queue, rerun markers, threads | steps between two locks, wakeups, close during a run | `ForegroundLayoutPool` |
| Single prefetch worker | ticket, pending, ready, one thread | stale results, one condition for two kinds of sleepers | `SourcePrefetch` |
| Shared source prefetch pool | sessions, queue with epochs, counters, budget | entries older than an invalidation, objects outliving their registration | `SourcePrefetchPool` |
| Background compaction worker | three flags, one thread | notifications after the unlock | `CompactionWorker` |
| Store generations | journal, manifests, quarantine | crash between any two writes, retries, spoilt files | `GenerationStore` |
| Logical order, height index | order generations, three height files | crash and cut-short writes, stale copies of a second reader | `CompactArena` |
| Order-statistics sequence | balanced tree of chunks | splits, merges, rotations and their aggregates | `OrderSequence` |
| Memory pressure, tab controller | level, sources, sampler | hysteresis, sources hiding each other, early returns | `MemoryPressure` |
| Runtime services | slots, controller entries, retired runtimes | rollback of a failed registration, retirement during a run | `RuntimeServices` |
| Tab runtime | activity, motion ticket, deferred trims | a trim when the layout mutex is busy, hiding during a run | `TabRuntime` |
| Frame budget scheduler | spent time, ticket | stale tickets, odd budgets | `FrameBudget`, `FrameScheduler` |
| Read-ahead, record lengths | shared bounded cache of lengths | resolving outside the lock, list and map of which one may fail to grow | `ReadAhead` |
| Layout windows, hot scrolling | heights, checkpoints, LRU caches | beginning in the middle of a record, anchor correction | `LayoutWindows` |
| Verified font caches | entries, builds in flight | one build per key, waiters, failure | `SingleFlightCache` |
| Immutable block cache | two tiers, byte counters | promotion that demotes and evicts, throwing halfway | `BlockCache` |
| Mapped cold window | one view, its charge | remapping that fails or throws halfway | `ColdWindow` |
| Resource ledger | reservations, limits, shadow copy | overflow at a limit, divergence hidden by later operations | `ResourceLedger` |
| Glyph atlas | pages, entries, epochs | resets while submissions are outstanding | `GlyphAtlas` |
| Atlas uploads, frame scheduler, device | textures, pins, fences | staleness between batches, eviction by two owners | `AtlasFrames` |
| Vulkan window context | reference count, closed flag | lease taken in four atomic steps while the owner closes | `WsiContext` |
| Window swapchains | images, frames, fences, tokens | stale tokens, failing driver calls | `WindowSwapchain`, `VulkanSwapchain` |
| Shader packets and executors | resident pages, one image, the view that is exported | driver calls that fail halfway through a frame, a presenter that copies on | `ShaderFrames` |
| Damage presentation | images in turn, frames in flight, damage | difference to a buffer the image at hand does not hold | `DamageFrames` |

Components interact through calls, mostly downwards: the services open and close
tab runtimes; a tab runtime asks the foreground pool and the prefetch pool, spends
the frame budget and trims its caches; pools call executors without their locks;
readers charge the ledger; the atlas submission goes through the frame scheduler
to the device; swapchains lease the context. Shared state is always behind a
mutex of its owner, with two exceptions that are modelled as such: the atomics of
the Vulkan context, and the files of the store and of the arena.

Not modelled: the file formats and the sequential reading of the import, search,
node arena and node index, fonts beyond their caches, Unicode text, HTML, CSS,
construction of command streams and pixels, export, Direct3D 12 swapchains, the
readers of `/proc` and cgroups, the Rust replacements, scripts and tooling. Section
7 says why.


## 2. The modules

```
NewestRequest           PrefetchPromise              GenerationRegister   FrameLeases
   ^ implemented by        ^ implemented by             ^ implemented by     ^ implemented by
ForegroundHandoff       SourcePrefetch               GenerationStore      WindowSwapchain
   ^ extended by        SourcePrefetchPool                                VulkanSwapchain
ForegroundLayoutPool

FrameBudget <- FrameScheduler, TabRuntime      GlyphAtlas <- AtlasFrames
CompactionWorker  MemoryPressure  RuntimeServices  ReadAhead  LayoutWindows
SingleFlightCache  BlockCache  ColdWindow  ResourceLedger
CompactArena  OrderSequence  WsiContext  DamageFrames  ShaderFrames

MCForeground  MCBackground  MCTabs  MCGenerationStore  MCMemory  MCWindow
MCAtlasFrames          (an instance of one module)
SetFolds               (sums, folds and sizes of finite sets, by induction on them)
ForegroundPoolProofs   (handoff and pool)         SourcePrefetchProofs   (pool, single worker)
GenerationStoreProofs  (store and arena)          GpuProofs   (Vulkan swapchain, glyph atlas, atlas frames)
WsiContextProofs       (context, reference swapchain)
TabRuntimeProofs       (tab runtime, frame scheduler, runtime services, read-ahead)
BackgroundProofs       (compaction worker, cold window, memory pressure, font cache, ledger,
                        block cache)
```

Every definition that stands for code is listed in `PROJECT.json` ("map") with the
lines it stands for. Operators whose comment begins with "A mutant" or says "wrong
on purpose" are plausible bugs: they are in no next-state relation, and each property of each
run was seen to fail when one of them takes the place of the definition it
imitates ("mutants").

Conventions throughout. A call that holds one lock from beginning to end is one
action; a call that gives the lock up is one action per stretch. Refused calls
that change nothing are stutters. Allocation failures are modelled where the code
has state to repair. What a caller may do is not restricted, except where a
module says so and a comment names the line of code or of a header that says it.

### Foreground work

*ForegroundHandoff.* `mail[s]` is the `Session` record, `readyBytes` and
`handoffStopped` the other members. `publish_ready` is one disjunct per outcome
(stale, larger than the budget, over budget, retained). `KeepsPromise` maps it to
`NewestRequest`: an answer is owed while the newest request is pending, or
running and not invalidated.

*ForegroundLayoutPool* extends it, so that `mail` is shared, as in the code.

| Code | Actions |
|---|---|
| `open_session` | `OpenSession`, `WorkerStartFails` |
| `set_session_active` | `ShowSession`, `HideSession` |
| `request` | `RequestSchedule` (mailbox), then `RequestEnqueue` (pool) |
| `close_session` | `CloseBegin`, `CloseHide`, `CloseSleep`/`CloseErase`/`CloseFindsNothing`, `CloseMailboxLast` |
| `stop` | `StopBegin`, `StopHandoff`, `StopJoined` |
| `try_take_ready` | `CollectReady` |
| `worker_loop` | `WaitForWork`, `WorkerExit`, `SkipEntry`, `StartRun`, `ClaimPending`, `PublishRun`, `FinishRun` |
| condition variables | `NotifyOneWorker`, `NotifyAllWorkers`, `NotifyAllClients`, `SpuriousWake` |

*TabRuntime* stands above the pools and uses what `NewestRequest` and
`PrefetchPromise` promise instead of the pools themselves. The owner's calls and
the layout run share the engine mutex, which the owner only tries: a trim it
cannot do is left in `trim` for whoever holds the mutex. *RuntimeServices* has a
slot per tab, an entry in the controller, generations of runtimes and the
retired ones; registration, activation and a pressure pass are written step by
step so that each failure leaves what the code leaves. *MemoryPressure* is the
policy with its hysteresis, the stall floor, the sampler and the combination of
sources. *FrameBudget* holds the frame scheduler as operators, which *TabRuntime*
uses and *FrameScheduler* explores with any owner.

### Reading ahead, caches, layout

*SourcePrefetch* and *SourcePrefetchPool* have one action per stretch under their
mutex, and notifications of their own where the code notifies after the unlock.
In the pool a session that is closed and opened again has two objects for a
while, hence numbered openings. *ReadAhead* is the planning of a window, the
default executor and the cache of record lengths with its list and map.
*SingleFlightCache* is both font caches. *BlockCache* has the touch counters of the
entries as the relation `older` they stand for, the loop that evicts as the set of
blocks it ends with, and the loop of a promotion as a fold over the hot blocks from the
oldest. It and *ColdWindow* carry `lost` and `leaked`, what a throw at the worst place
leaves behind. *ResourceLedger* keeps
both backends and a test hook that tampers with one of them.

*LayoutWindows* has the hot-scroll session and, as operators, the scan of the
layout engine to compare with. A text is a sequence of bytes of six kinds, which
is enough for lines to end at a newline, at the last column, inside a wide tab,
and in a sequence that is cut short. `SessionLayout` follows `layout`: materialise
the records in view, measure them one after the other, correct the scroll
position by the anchor, materialise again, scan each record from its checkpoint.
Both LRU caches are sequences of keys; bytes are derived from the keys.

### Disk

*GenerationStore.* `journal` is a sequence of records, `manifest[g]` the file of
generation `g`, `op` the operation that holds `generation_transaction_mutex`. Each
step is one durable effect with the `fsync`s the code does before it goes on;
`Interrupted`, possible before each, is a crash as well as a failing call, and
whether the effect under way survived is the choice between the two states.
`MediumFails` spoils a manifest or a record, at most `MaxFaults` times.
*CompactArena* does the same for orders (publish link by link, verify, adopt) and
for the three files of heights. *OrderSequence* keeps the persistent tree beside
the plain sequence it stands for.

### Windows

*WsiContext* has one action for each atomic access of `retain`, `release` and
`close`; destroying a context and the last decrement are one step. Its one demand
on callers, `StaysReferenced`, is that some reference outlives an attempt to take
one: no code could detect the contrary. *WindowSwapchain* and *VulkanSwapchain*
share the promise *FrameLeases*; the Vulkan one has every driver call that may
fail as a choice. A present is one action for each place it may end: before its
submission (`PresentFailsEarly`), in the wait for the pixels it submitted
(`PresentWaitFails`), or after it (`Present`); `available` says that the semaphore of an
acquire has not been handed to the queue. *GlyphAtlas* and *AtlasFrames* follow a submission from
`prepare_glyph_atlas_submission` to the retirement of its fence; `holds`, what a
texture contains, is history the code does not keep. *DamageFrames* has the images of
a surface, taken in turn as `acquire_next_image` takes them; each keeps what was drawn
into it, per cell the commands painted there since it was cleared. A surface configured
anew has images of which nothing is known, and so has an image whose encoding failed. A
submission ends in one of seven ways, one action each, in the order of the
checks of `submit_native_command_buffer`: among them the fence check after the present,
when the image is on the display and the caller is told that it is not
(`RefusedAfterPresent`). `buffer.compared` is the frame a buffer was compared with.
*ShaderFrames* is a frame from its sources to the image that is exported. `Compile`
folds the commands into a packet or refuses; the residency is one record per page;
`Execute` composes what the stages of `execute` may leave (atlas, image, readback,
drawing), each of which may stop at a failing driver call, and both backends are
instances of it. `layout` is the state the executor believes its image to be in, `real`
the state it is in, and `doubt` names the failure since the last frame that was
made available, if it is one of those after which the code knows less than the image
holds ("picture", "layout", "gone"). A picture is the list of what was drawn; a handle is used again
once its image is destroyed.


## 3. The runs

Each passing run holds several components side by side (`MC*.tla`). A variable
`part` is chosen at the beginning, and only that component moves; the others stay
in their initial state. They share no variable, so this checks what separate
runs would, on the sum of their states rather than on the product. Fairness and
liveness are guarded by `part` accordingly. Properties are grouped the same way:
the definition at the end of the MC module says which module's properties it
stands for. An MC module extends the module of one component, the one whose
theorems are about every value of its constants, and instantiates the others.

`CHECK_DEADLOCK FALSE` stands where the system really may stop: identities, opens,
calls and journal records are bounded, and nobody has to make another call.

| Run | What moves | Distinct states | Answer |
|---|---|---|---|
| `foreground` | the pool with two sessions of their own users; with two threads racing on one session; with one user of three identities; the mailbox alone with charges 1, 2, 4 and budget 3 | 157,132 | Only the newest request is answered, at most once, within the budget; runs are exclusive; nothing is stranded, every call returns. |
| `background` | compaction worker with three callers; single prefetch worker; prefetch pool with a session opened twice, and with two sessions on one thread; memory poller; three threads that want one font | 84,863 | What was asked is served unless given up; nobody is stuck; counters are exact; the pressure neither hides the platform nor flaps. |
| `tabs` | a tab with its layout thread; the frame scheduler; services of two tabs, with and without lists that fail to grow; two tabs reading ahead; atlas frames with textures enough, and with fewer than pages | 456,630 | A tab gets what it should and no more; what is read ahead lies in the record; frames show what was put. |
| `store` | stores of two generations (sound and faulty medium) and of three; the arena with one reader and failing height writes, and with two and crashes; the order tree up to six records | 427,966 | The disk is a register of generations whatever is interrupted; retries work; compaction is complete; the arena's files agree; the tree answers as the sequence. |
| `memory` | font cache with two keys; block cache; cold window over segments of up to two pages; glyph atlas with two holders; ledger of two classes; the lines of three records | 303,746 | Accounts are exact and budgets kept; what was asked for is there; nothing stale becomes current again; lines found from checkpoints are those of a full scan. |
| `window` | the Vulkan swapchain on two images, and reopened on two or three; the context with two presenters and an executor; the reference swapchain; damage frames on one image, and on two in turn; shader frames on Direct3D, and on Vulkan with a presenter that copies, with every failure | 369,111 | Leases live exactly as long as they should; counts are exact; what is exported is the frame it names, or one drawn since that a failure hides; what is damaged is what a full redraw would be, and on one image all of it. |

The violating runs `vulkan_wait`, `two_sources`, `wsi_mode`, `wsi_surface`,
`arena_readers` and `atlas_eviction` stop at their counterexample (section 6).

### Properties worth a word

* `RunOwnsSession`: `close_session` destroys an executor on the strength of it.
* `NoStrandedRequest`: a pending request always has a queue entry, a worker yet to
  claim, a rerun that will notice it, or the second half of its own `request` ahead.
  It is checked with one requesting thread per session, since the header leaves the
  order of identities to the caller; `OthersAreSafe` has what holds of racing ones.
* `ImplementsRegister`: crash safety as a refinement. Recovery tells the authority
  there is; an interrupted operation moves at most the publication it was
  performing. `OthersKeepPromises` asks it of three generations and of a medium that
  fails; for the arena it says that each order is one move of the one before it. It
  also holds the types of the stores, the files of the arena with two readers, and
  the tree's answers.
* `FilesAgree`: a reader of the arena holds the order its generation's file says and a
  move reported done is durable, with any readers and faults; that the three height
  files agree is asked only of one reader whose process does not end and whose
  write-backs arrive (`OneWriter`), since the code does not have it otherwise
  (`arena_readers`).
* `KeepsItsPromises`: an interrupted publication can be repeated with the same
  content. With other content it is refused for good, its PREPARE being durable. A
  compaction that reports success left nothing of what it dropped.
* `IdleMeansServed`: what `wait_idle_for` tells its caller, including requests that
  were coalesced and those taken while a compaction ran.
* `PrefetchKeepsPromise`: no result crosses a ticket, an opening, or a time when
  the page was hidden, even when the ticket is the same.
* `TabStaysAway`: a hidden tab fills no cache, and comes back under a ticket the
  prefetch pool never had.
* `CachesAreTrue`: the accounts of every cache (among others, that the cold window is
  never refused on account of the window it replaces); that what was asked for is
  there (`CurrentIsThere`: a submission that passes for current names places where its
  glyphs really are, however pages were reset meanwhile); and as action properties
  `OlderGoesFirst` of the blocks, `LimitsHonoured` of the ledger and `StaleStaysStale` of
  the atlas.
* `RetentionExact`: the ledger's count of the fonts is what the entries weigh.
* `LedgersExact`: each ledger's total is the sum of its classes, the two agree unless
  one was tampered with, and a divergence is recorded within one interval.
* `RunsAreSafe`, `ServicesReachTabs`: a run is of a runtime in being; a tab that is shown
  has a runtime that hears the pressure in force, whatever failed to grow; and if the
  list of retired runtimes can grow, every runtime hears it and hidden tabs give theirs
  up under critical pressure. `OthersAreSound` asks it of services whose lists may
  fail to grow, and has the frame scheduler and `CutOnce` with it.
* `ReadsTheRest`: what is read ahead lies in the record, and is all of the window the
  record has, whatever the cache of lengths forgets while lengths are resolved.
* `DrawnAsPut` (`DrawsWhatWasPut`): what a frame in flight draws was copied into
  the textures it pinned. That is so while the device has textures for all pages. When it
  has fewer, contents may be lost (`atlas_eviction`), and what is checked of both is
  that a frame in flight keeps the textures it pinned: no step writes, replaces or
  gives one up (`PinnedUntouched`, in `OthersAreSound`), and they are
  filled by the fence the frame waits for (`PinnedIsReady`).
* `OthersKeepLeases` (`OnlyTheLeaseIsPresented`): a token of an earlier acquire ends
  no later lease. `SlotsAgree` relates what the Vulkan swapchain counts to the frame
  slots, semaphores and fences it has to submit with: a lease whose semaphore has not
  been handed to the queue can be submitted, a free slot leased (`FreshIsReady`). It does
  not say so of every lease, since the code does not have that (`vulkan_wait`).
* `ShownExactly` (`ImageAsNamed`): the image an executor exports is the one its view
  names, in the layout the view promises, and holds the frame of the view, or a later
  one where a frame was drawn and a failure kept it from being made available; a
  barrier begins at the state the image is in, unless a list that noted another was not
  closed; the image stays while a presenter copies it, unless a submission failed.
  Each "unless" is a failure after which the code does not have the property
  (section 6), and holds until the next frame only.
* `NothingForgotten`: `QueuedOnce` and `NoSleepThroughIdle` of the prefetch pool with
  one session; `CallsAreAnswered` has the same of the pool with two and of the single
  worker, together with their `CountersExact` and `PrefetchKeepsPromise`.
* `ShownExactly` of frames drawn by damage. On images in turn, and whatever buffer the
  frame was compared with (`RedrawsWhatChanged`): of the image that is shown, what was
  damaged holds the commands a full redraw would paint, each once and in order, and so
  does every other cell that held the frame compared with. On one image, compared with
  frames that were shown, this adds up to all of the image (`ShownExactly` of
  `DamageFrames`), whatever frames were dropped, refused, exposed or resized in between.
  With it (`DrawnAsWanted`): what a backend drew is
  what the sources of the frame ask for, page contents included.
* `LinesAsScanned`: `SameAsFullScan` (same view, same lines at the same places, up
  to the fragment limit), `AnchorKept` (the record under the scroll position stays
  there at the same share of its height) and `Settled` (a window laid out again
  where it says it is stays as it is, and no line lies over another).

Liveness is written as leads-to or as `[]<>~stuck`, which TLC checks faster and
which says the same for a condition that, once over, need not come back.

### Why the bounds are enough

* Two workers and two clients give every pair of threads between two locks; a
  session is run by one worker at most.
* Three identities give an older, a running and a newer request; two openings the
  reuse of an identity while a call of its first life is under way.
* Charges and budgets make every outcome of a publication or an admission occur:
  fits, fits alone, fits with another, never fits. Odd budgets make rounding occur.
* Two generations give an authority and a candidate, three something to compact
  away. Six records give a publication, an interrupted one and its retry.
* Two images or three for two frame slots (in the reopened instance, and three
  of the reference swapchain) make a free slot differ from a free image;
  a reopening makes tokens of an earlier ring; three acquires overtake one lease.
* Three frames over three pages of which two may be resident, on images of three
  generations, two handles and two openings: a page replaced by a newer one, one
  evicted that a packet needs, a picture of another size, a handle that comes back.
* One fault is one spoilt file or record at any moment.
* Memory of eight steps with thresholds 1 and 4 and a headroom of 2 has levels
  entered from both sides and room to hover.
* Six records in chunks of two make the tree split, empty chunks and rotate. (Real
  chunk sizes are clamped to 8..4096; the algorithm has no other use of them.)
* Two pages and glyphs that share one or fill one give a reset of a page that a
  submission names; four fences in `tabs` give two frames over uploads of their
  own in flight at once. Three pages for two textures make the device give
  textures up while others are pinned; contents after that are in `atlas_eviction`.
* Three generations on two surfaces, three pictures of two to four commands and two
  frames in flight give a frame that was skipped, one dropped and one resized; three
  damage policies give merged, separate and full damage. Two images in turn give
  an image that holds the frame before the last.
* Three texts of two to five bytes with a stride and a window of two bytes put a
  checkpoint inside a record, a source window inside a sequence and a cut-short
  sequence at a line's and at a record's end. Three calls give a layout that
  measures, one that follows it, and a trim, a lost checkpoint or a move between
  them. Positions 4, 9 and 15 lie in the first record, in the middle, and at the end.

### Fairness

Weak fairness of each started thread and of each call under way: a thread is
scheduled, a mutex that keeps being released is had, an executor and a build
return. Strong fairness of the memory sampler's sample, which the event loop
repeats although the throttle closes in between. Nothing is assumed of what
callers decide to do, of timeouts, of spurious wakeups, or of the user interface
collecting a result. Stores, caches, atlas and windows have no liveness property:
their operations are bounded sequences of steps, and what stops them is a crash
or a caller that does not call again.


## 4. What is proved

For any sets of sessions, identities, pages, tickets, callers, threads, generations
and images, and any budgets and bounds:

| Theorem | Statement |
|---|---|
| `HandoffTypeCorrect`, `NewestOnlyHolds` | types and byte budget of the mailbox; what is pending, running and ready agrees with the newest identity |
| `HandoffKeepsPromise` | the mailbox implements `NewestRequest` |
| `PoolTypeCorrect`, `PoolKeepsPromise` | types of the foreground pool; it implements `NewestRequest` whatever threads interleave |
| `RunsAreOwned`, `WakeupsAreNotLost`, `NoRequestIsStranded` | `RunOwnsSession`; `NoLostWakeup`; `NoStrandedRequest` |
| `QueuedOnce`, `RequeuesAreForPending` | `QueuedAtMostOnce`; `RequeueOnlyForPending` |
| `ReadyBytesAreExact`, `PoolBytesAreExact` | the bytes charged, by the mailbox alone and under the pool, are those of the results that wait, within the budget |
| `PoolTypeCorrect` (prefetch), `NothingForgottenAlways` | types of the shared prefetch pool; a session is queued once, what is pending is queued or runs, nobody sleeps through an idle pool |
| `CountersAreExact` | the pool's counters of active, queued, running and ready sessions and of bytes are what its sessions are |
| `PoolKeepsPrefetchPromise`, `WorkerKeepsPrefetchPromise` | pool and single worker implement `PrefetchPromise` |
| `PrefetchForgetsNothing` | the single worker leaves no request behind a sleeping thread and no caller asleep when it is idle |
| `WorkerTypeCorrect`, `IdleServes` | types of the compaction worker; `IdleMeansServed` |
| `StoreTypeCorrect`, `StoreImplementsRegister`, `StoreKeepsItsPromises` | files of the store; it implements `GenerationRegister`; retries work and compactions are complete |
| `FilesAlwaysAgree`, `MovesBuildOnTheLast` | `FilesAgree` of the arena; `EachMoveBuildsOnTheLast`: a new order is one move of the newest there is |
| `TabTypeCorrect`, `TabAgreesAlways`, `TabStaysAwayAlways` | types of the tab runtime; scheduler and pool work under one ticket, no trim is forgotten or weakened; a hidden tab fills no cache |
| `FramesStayWithin`, `OvertakenBuysNothing` | `FrameWithinBudget`: a frame never spends more than it has, no class more than the pressure leaves it; `StaleBuysNothing`: an overtaken ticket is never granted time again |
| `RunsAreAlwaysSafe`, `ServicesAlwaysReachTabs` | `RunsAreSafe`; `ServicesReachTabs` |
| `RestIsAlwaysRead`, `RequestsAreCutOnce` | `ReadsTheRest`; `CutOnce`: the worker's cut of a request leaves it as the tab cut it |
| `VulkanTypeCorrect`, `SlotsAgreeAlways`, `LeaseIsPresented`, `VulkanKeepsLeases` | counters and slots of the Vulkan swapchain agree, and a lease can be submitted whose semaphore is still its own, whatever failed, the wait for pixels included; a token ends its own lease only; it implements `FrameLeases` |
| `SwapchainCountersAreExact`, `PresentsEndTheirLease`, `SwapchainKeepsLeases` | the reference swapchain: its counters are the state of its images (`CountsExact`) and what is retired has landed; a present is accepted only from the holder of a lease, which then ends (`OnlyTheLeaseIsPresented`); it implements `FrameLeases` |
| `AtlasIsExact`, `StaleNeverRevives` | `TableExact`, `PlacesDisjoint`, `CurrentIsThere`: what the atlas keeps by hand is what its entries say, glyphs of a page do not overlap, a submission that passes for current finds its glyphs; `StaleStaysStale` |
| `FramesAreAccounted` | `FramesTypeOK`, `PinsExact`, `ScheduledIsPresented`: fences grow, nothing outgrows its limit, the pins of scheduler and device follow each other without a gap and the counts kept by hand are theirs; a frame the scheduler waits for was given to the device |
| `PinnedStaysAsItIs` | `PinnedIsReady`, `PinnedUntouched`: a frame in flight has the textures it pinned, filled by the fence it waits for, and no step writes, replaces or gives one up, also when the device evicts for want of textures |
| `ContextLivesAsLeased`, `ClosedTakesNoLease` | `LivesAsLeased`: the Vulkan context lives exactly as long as its leases, is destroyed once, and takes no lease once its owner closes |
| `ColdChargeHolds`, `ColdTouchedIsMapped` | the ledger's charge is the mapped window and what a throw left; a request that succeeded is mapped, within its segment |
| `FontsAreShared` | `FontsSharedRightly`: one builder and one entry for a font, answers match, nobody sleeps on for a build that is over |
| `CacheTypeCorrect`, `RetentionIsExact` | types of the font cache; `RetentionExact` |
| `BlocksAreAccounted`, `OlderAlwaysGoesFirst` | `BytesExact`, `BudgetsKept`, `ReadAgainIsHot`: the bytes of tiers and ledger are those of the blocks present, no tier outgrows its budget, a block read again is hot and the last to go; `OlderGoesFirst` |
| `LedgersAgree`, `LimitsAreHonoured` | `LedgersExact`; a class grows only within its limits and no peak is lowered |
| `PlatformIsHeard`, `LevelsDoNotFlap`, `PressureStaysSteady` | the tabs are told no less than the platform's own report; a level that was left is entered again only after the memory moved by more than the headroom |

*Assumptions* are those the modules name, and each is what the code validates or
what its types say: positive identities and budgets, thresholds in order, a positive
granularity and bound, images and frames at least one. What a theorem assumes beyond
them is in its statement:

* `WakeupsAreNotLost` has finitely many workers, as any pool: it counts them.
* `QueuedOnce` and `RequeuesAreForPending` take `MaxOpens <= 1`, an identity that is
  not opened a second time; section 6 says what happens otherwise.
* `NoRequestIsStranded` and `RequeuesAreForPending` take `OneCallerEach`, one thread
  that uses a session, as the tab runtime does with its UI thread; two may overtake
  each other between mailbox and pool.
* `LevelsDoNotFlap` takes `StallFloors = {Normal}` and `LowSignals = {FALSE}`, since
  with a floor the statement is false (section 6).
* The second half of `ServicesReachTabs`, that every runtime hears the pressure and hidden
  tabs give theirs up, is about services whose lists can grow
  (`Retains = {TRUE}`): the property itself says so.
* `FilesAlwaysAgree` has the agreement of the three height files under `OneWriter`, as
  the property has; the orders are for any readers and faults.
* The glyphs of the atlas are finitely many, and a glyph with pixels is at least one
  wide and high (`source_basic_valid`, `glyph_atlas_submission.cpp:232`).
* The blocks of a source are finitely many, none is empty or longer than a block, and a
  tier in use holds one at least (`validate_immutable_block_cache_config`).
* The services have finitely many tabs, and some record exists to read ahead in.
* `FramesAreAccounted` and `PinnedStaysAsItIs` assume nothing of refused uploads or of
  evictions. That the contents are there too (`DrawsWhatWasPut`) is false where an upload
  is given up or a texture evicted (section 6), and is left to the run `tabs`.
* The two theorems on the context take listed present modes and surfaces that are
  made: the two exceptions are the two bugs of section 6.

*Handoff.* `HandoffTypeOK` includes the budget and is inductive; `NewestOnly` is
inductive with it; the bytes charged are a sum over the sessions (`RetainedIsSum`) of
which a step changes one. The refinement also needs `ClosedIsForgotten`: the promise
forgets a session when it is closed and must find it forgotten when it is opened.

*Foreground pool.* `OwnStateOK` says what locals go with what place of a thread; with
it every step of the pool is a step of the mailbox or leaves it alone, so the
mailbox's theorems carry over. `RunOwnsSession` is not inductive, because closing a
mailbox resets its running request: `ClosersAlone` says that a client about to close
a mailbox has erased its session, is the only one about to, and that nobody opened it
again in between. For wakeups, each entry notifies one worker only, so `Attended`
counts: while some worker sleeps, at least as many are awake and on their way to the
queue as it has entries. For stranded requests the invariant is `PoolTended`:
per session, that its marks have an entry or a worker behind them (`MarksBacked`), that
the request of a call that is yet to enqueue it is the pending one, if any is
(`CallIsPending`), that runs are older than
what is pending (`RunsAreOlder`), that mailbox and pool agree whether it is shown, and
that what is pending will be looked at (`PendingServed`); and of the pool, that a stop
proceeds in order. `RerunsHeld` adds the last direction: a session marked for a rerun
is running and shown, and unless its run has claimed the newer request already, the
mailbox still holds it.

*Prefetch pool.* None of the properties is inductive. `Sound` relates the four places
where a session leaves traces. What it holds is of the ticket in force and only while
shown (`ObjectsFit`); an object that is active or queued is the one its session is
registered with (`OwnersKnown`), which separates the life of a reopened identity from
the one before; an object runs exactly while one thread has it, and what a thread
reads was asked under a ticket no newer than the object's (`RunsOwned`), so that an
old run is recognised by its ticket alone; live entries and queued objects correspond
one to one (`EntriesMatch`), which is what the epochs in the queue are for; what is
pending is queued or runs; a stop has closed everything and emptied the queue. The
counters are exact by `Accounted`: each tally is the size of its set of sessions, exactly
the open registered objects are counted, and a charge stands for a result that waits. The
refinement goes page by page: `SamePage` says what a step leaves of a page, and each
operation moves one page at most. Of the *single worker*, `HandIsOld` is what is left
of this: a run whose ticket was overtaken never becomes current again.

*Store.* `StoreInv` adds to the types what an operation that holds the mutex has read
and may still write: that the journal has room for its records, and that nothing
recoverable is newer than what it publishes (`NothingNewer`). With it every durable
step maps to a step of the register or a stutter. `SoundInv`, of a medium without
faults, says which records a publication finds between its PREPARE and its COMMIT, and
what a compaction leaves between its replacement of the journal and its sweep. Lengths
of valid prefixes and newest generations are least or greatest numbers.

*Arena.* A move is a removal and an insertion, and the new order reads the old one
through an injection of places (`MoveReorders`), so every order names every record
once. `MoveStands` says of each step of a publication what is on disk of it, and before
the link that what is published is one move of the newest order: the mutex lets no
other order appear, and a reader that lags behind is turned away. `HeightsStand` says
of each step of an update which of the three files has the new height already; that a
block's sum is all that changes is `OneBlockChanges`, a fact about sums over blocks.

*Sums and folds* (`SetFolds`). The theorems of the library that give induction take an
operator as a parameter, which the provers cannot instantiate. `Induction` is about a
set of numbers instead and is proved from the well-foundedness of the naturals by
the least number that is not in it. From it follow the existence and uniqueness
of the function a fold CHOOSEs, and from these that a sum does not
depend on the order of its elements: what it becomes when one element comes, goes or
changes. Sums of the models are then identified with `SumOf`.

*Tab.* `Together`: only a hidden tab is trimmed and a hidden tab stands still
(`HiddenIsStill`); the tickets the pool was given come in the order of their epochs,
the pool's is the newest of them, and the scheduler's is that or newer
(`ToldInOrder`); while a hidden tab is barred nobody is in the engine
(`NobodyLaysOut`). The types include that no class of work spends more than a frame has.

*Frame scheduler.* `SchedulerInv`: the frame spends what its classes spend, and a ticket
that was overtaken is of an earlier epoch than the one in force, so a motion that turns
back cannot revive it. What the classes spend is a sum of which a grant changes one term.

*Services.* `Sound` says of the books (slots, controller, runtimes, what each was told)
which generations there are and who owns them: a runtime belongs to one slot or is
retired, a running one is in being, none is given out twice. `Kept` says of a tab between
calls what is in force for it. A registration and an activation are followed write by
write, so that each rollback is seen to restore `Kept`; a pressure pass is a fold over
the tabs, of which `Heard` says who has heard it so far.

*Read-ahead.* The list and the map of the cache name the same records and the lengths
in it are true (`BothKept`); a request lies within its record as far as the length is
known, and is a whole window where it is not (`RequestsFit`); what was read is what the
record had of it (`GotWhatWasThere`).

*Vulkan swapchain.* `CountsExact` is not inductive: a count and a set change together
only if what is counted is distinct. `Tallied` has the counts, and that each fence
value was paid for with an acquire (`nextFence + acquired <= nextSerial`), `Distinct`
that serials of leases and values of fences are told apart and ordered, `Paired` that
a leased image and its acquired frame name each other and that the engine's images
are no lease's. Sets of slots and of their numbers are then equal in size. A present
that fails and keeps its lease changes the fence and the semaphore of one frame
(`UnpresentedIsSound`), which before the submission stays fit to be submitted and after
it does not claim to be (`EarlyFailureIsSound`).

*Reference swapchain.* As for Vulkan, counts and sets change together: `Tallied` has the
counts, and that fences and images held were paid for with acquires; `ToldApart` that the
serials of leases and the fences in flight are distinct and older than the next ones. The
promise counts leases, the code images, and the two sets are of one size because no two
images are of one lease.

*Atlas.* A preparation is a fold over the working set in the order of its keys, so its
proof is an induction along that order (`FoldAlong`): each glyph takes a draft to one
that `Succeeds` it. `TablesSound` is what every draft keeps: an entry has its page's
generation and format and lies in a full row, or in the row at hand before the next
place (`InItsRow`), from which it follows that a glyph placed next overlaps none; and
counts and areas are those of the entries. `Pins` says that what this preparation used
lies on pages it may not reset, so that at the end the whole working set is still there.
`Later` says that generations only grow and that a page of the same generation
has lost nothing; a submission held elsewhere names generations that were, and
`KeptLater` carries it over whatever another thread prepares.

*Frames.* `FramesInv` has four parts. Of the device (`DeviceSound`): fences grow
within what is complete and what was submitted, a page of one generation has one texture
(`OneTexture`), pins follow each other (`Contiguous`, a sum over the frames of which
retirement cuts a prefix), each texture counts its own, and a pinned texture is as its
frame found it (`PinnedStay`), since uploads and evictions take idle ones and
retirement only makes resident what is ready. Of the scheduler (`SchedulerSound`): a
page has one place in the table, whose pins it counts, also after a fold of uploads
into it. Of the two (`ScheduledAfter`): each frame of the scheduler is answered for by
the device. Of the producer: `UploadsInOrder`, and `CanBeScheduled`, that what was
admitted is still admissible when the device has answered.
That a pinned texture is left alone is proved of steps, not of
states: `PinnedKept` compares each pinned texture with what it was, for an upload, which
writes a texture nobody pins or takes the place of one (`UploadingSpares`), for a
present, which only adds pins (`PresentingSpares`), and for a retirement
(`RetiringSpares`).

*Compaction worker.* `Tracked` says which flag stands behind each fate of a request.

*Cold window.* `WellCharged`: the charge is the view and what was leaked, no larger than
the bound, and the view lies in its segment; segments only grow. `ColdInv` adds
the result of the last request.

*Memory pressure.* `Told`: the pressure told is the strongest of the sources.
`LeftAbove`: the share at which a level was last left lies above its threshold by
more than the headroom; a level is entered at or below the threshold only.

*Font cache.* `CacheInv` adds which thread stands behind each build in the list and
which request it works on; that an entry appended is new follows from the key being
its own in the list of builds until then. How many entries are evicted plays no part
in this; `Retention` adds that what is retained is the sum over the entries, and within
the limit, however many of the oldest go.

*Block cache.* `BlockInv` says that `older` orders all that is present and that what is
counted is the sum over the tiers. Between its two ends a promotion has its block in no
tier's count (`Weighed` names the block that is between tiers). The blocks an eviction
gives up are closed under `older`, and the oldest that stays shows that the rest is
within the budget (`FirstOf`: a finite order has a first element, by induction). `Cools`
says what a demotion with its evictions leaves, and is transitive (`CoolsThrough`), so
that it is carried through the fold of a promotion (`FoldAlong`, in the order of
touching): in the end the block fits, or no hot block is left and it fits by itself.

*Ledger.* `Kept` holds of both books: the total is the sum of the classes, no peak is
below what it is the peak of. A comparison cannot miss a divergence since the two count
reservations that are never taken back: `ShadowIsAhead` says that the tampered one has
made more of them, and that no comparison was due since.

*Context.* `Shape` gives each step of a thread its locals. `Counted` says of each
context that the count is the cardinality of its leases (a lease being taken, but
already counted, included), that whoever touches it finds it in being, and that it
is destroyed, once, exactly when nobody is left. Steps that count nobody in or out
fall under one lemma (`NothingCounted`), the others under `OneCountsIn` and
`OneLetsGo`.

### Only model-checked

* Every liveness property: fairness and ENABLED are outside what the proof system
  handles.
* What is recursive: the order tree, the scans of lines, damage and pictures.


## 5. What the models leave out of the code they map

* Statistics, status snapshots, error texts, checksums' arithmetic; exhaustion of
  memory other than where named above; wrap of 64-bit identities and epochs,
  except `LastGeneration` in `RuntimeServices`.
* *Store*: temporary files and the quarantine's contents (nothing reads them), a
  failing `fsync` that loses the write later, two processes on one store,
  `publish_legacy_store_manifest`.
* *Arena*: the building of the arena and its `remove_all`, which takes no mutex; an
  header truncated by a failing write; the rollback after a sequence failure that
  follows the header write; search summaries.
* *Prefetch pool*: a stop from a pool thread itself, which would join that thread.
  That the owner's tickets never come back while a page stays open is its
  assumption, and `FreshAuthority` of `TabRuntime` is what discharges it.
* *Runtime services*: a failing `push_back` of a deferred unregistration; existing
  runtimes' `set_activity` does not fail; a pressure pass is one step; the velocity
  of a tab is "the same or not".
* *Caches*: renumbering of touch counters and use epochs when they wrap; a record
  of `ReadAhead` shorter than the offset asked for.
* *Layout windows*: the engine's own fragment cache, saturation, the enable flag and
  `checkpoint_min_record_bytes`; a checkpoint file fits or is missing; a throw
  between the list and the map of a cache; `layout_window_with_persistent_checkpoints`,
  which is the same computation without caches.
* *Context and swapchains*: the device mutex, bytes in the Vulkan module. A lease whose
  pixels could not be waited for may be presented again, as in the code; what a driver
  does with such a submission is undefined, and the model has it succeed or fail as any
  other, since the error is the state that lets it happen (`FrameReady`).
* *Shader frames*: pixels, geometry, pipelines, descriptors and the bytes of commands;
  the reference executor; a checksum stands for the content it sums; `bad_alloc` in
  a `noexcept` function ends the program; a context that was lost between two calls is
  refused before anything happens; one packet is current at a time; a Vulkan submission
  that timed out counts as ended, since the image goes with it.
* *Atlas*: uninitialised pages count as generation 0; missing sources, limits and
  failing allocations of `prepare` are one outcome, `PrepareFails`; one producer; the
  surface does not change; the device's `clear`.
* *Damage frames*: no overflow, tickets, area limits or wait fences; the caller
  counts generations up and clears only with no buffer in hand; images are acquired in
  turn, as the reference backend does (other orders leave older images, about which the
  properties ask nothing).
* *Ledger*: the mode that aborts at a divergence; hit, miss and rejection counters.


## 6. Where the code and its documents differ

Each of these has a run that stops at the counterexample, and an entry under
"findings" with the quoted line.

* `vulkan_wait`. A present whose pixel transfer was submitted and then could not be
  waited for returns with its lease kept, its fence in use and its acquire semaphore
  spent (`src/native_window_swapchain_vulkan.cpp:609`). A present of the same lease passes
  every guard, resets that fence and waits for a semaphore nobody will signal.
* `two_sources`. A critical process level that arrives while the platform is
  critical is not recorded (`src/zenith_process_memory_pressure_apply.cpp:21`), and
  a normal platform report then lowers the tabs.
* `wsi_mode`. A present mode the surface does not list lets the lease of the
  context go twice (`src/native_window_swapchain_vulkan.cpp:918`).
* `wsi_surface`. A surface that cannot be created destroys the staged context twice
  (`src/native_gpu_sdk_execution_vulkan_wsi.cpp:320`).
* `arena_readers`. Two readers of one arena that measure records of one block leave
  a block sum and a total that the next open refuses
  (`src/compact_document_part03.inc:106`).
* `atlas_eviction`. A device with as few textures as the atlas has pages gives up a
  texture the atlas counts as uploaded; a later frame draws glyphs that were never
  copied (`src/gpu_device_presentation.cpp:482`).

Others were met while modelling and have no run. Where constants reproduce them
they are given.

* *Stall floor*: a stall that ends may lower the level below what memory alone
  would have kept (`src/zenith_process_memory_pressure.cpp:206`;
  `docs/M6_LINUX_PSI_PRESSURE_POLICY.md:29`). `MemoryPressure`, `StallFloors = {0, 2}`,
  `LowSignals = BOOLEAN`, `PlatformLevels = {0}`: `StallNeverLowers`.
* *Lost trim*: a deferred trim can wait for the next user of the engine mutex, of
  which there may be none (`src/zenith_tab_runtime.cpp:391`;
  `docs/M5_ZENITH_TAB_RUNTIME.md:44`). `TabRuntime`, `FairSpec`: `HiddenIsTrimmed`.
* *Reopened session*: a session closed while queued and opened again is queued twice
  (`src/foreground_layout_worker_pool.cpp:260`), where
  `docs/M5_FOREGROUND_LAYOUT_WORKER_POOL.md:19` says "a session is queued at most once".
  The surplus entry is skipped or claims what is pending. `ForegroundLayoutPool`,
  `MaxOpens = 2`: `QueuedAtMostOnce`.
* *Damage of one frame only*: `docs/Z2F6_BOUNDED_NATIVE_DAMAGE_PRESENTATION.md`, "A new
  frame is compared with the immediately preceding command generation", "Removed commands
  damage their old bounds so stale pixels are cleared". Swapchain images are taken in
  turn (`src/native_damage_presentation.cpp:959`, 1265), so with more than one the image
  holds a frame before the one compared with, and what changed in between is not redrawn
  (`DamageFrames`, `ImageCount = 2`, `KeepsUnshown = FALSE`, the other constants as in
  `MCWindow`: `ShownExactly` fails in five states). On one image the same happens where
  the frame compared with was dropped or refused (`ImageCount = 1`,
  `KeepsUnshown = TRUE`). `RedrawsWhatChanged` is what holds of both.
* *Uploads*: `execute_glyph_atlas_uploads` passes a subspan (`device_raster_backend.cpp:838`)
  where the reference device indexes with `first_upload`
  (`gpu_device_presentation.cpp:225`), so batches after the first are refused.
  A refused upload that the caller does not repeat leaves the atlas counting glyphs
  no texture has (`AtlasFrames`, `Repeats = FALSE`: `DrawsWhatWasPut`).
* *Entries*: `ensure_entry_capacity` may reset an unpinned page that has no entries
  and report success (`GlyphAtlas` with `MaxEntries = 1`, `MaxPages = 2`: `EntriesBounded`;
  `docs/Z2F2_BOUNDED_GLYPH_RASTER_ATLAS_SUBMISSION.md:68`). A miss handled before a
  later hit may reset that hit's page, which then needs a source the caller did not
  supply.
* *Checkpoints* (`docs/ZENITH_SPARSE_CHECKPOINTS.md`, "retain the existing fragment and
  source-range contracts"): a scan that begins below the last line adds an empty line
  at the end of the record (`src/zenith_hot_scroll.cpp:666`), which a full scan does
  not, so `SameAsFullScan` leaves those lines out; it stops at the fragment limit
  (line 589), so that it never reports a truncation the engine reports in the last
  record; a layout that declines (line 796) has already updated the heights of
  earlier records, so that the anchor correction for them is lost to the fallback;
  and a record that comes into view in the corrected pass only keeps its estimated
  height until the next layout, so `Settled` is about windows of measured records.
* *Executors*: all failures are enabled, and after four of them the code has less than
  its documents say; `ImageAsNamed` excepts each by `exec.doubt`, and fails without the
  exception. When the readback of a frame fails, its picture is in the image already,
  while `export_surface` still names the frame before
  (`src/native_shader_execution_vulkan.cpp:520`: `ExportIsDrawn`); on Direct3D 12 a failed
  wait does the same (`docs/Z2F8B3B2A_REAL_D3D12_SHADER_EXECUTION.md:46`: "Readback
  publication is transactional and occurs only after command completion"), and a list
  that cannot be closed leaves the executor believing a state the image is not in
  (`LayoutKnown`; the Vulkan document speaks of "publishing speculative layout state",
  `docs/Z2F8B3B2B_REAL_VULKAN_SHADER_EXECUTION.md:80`). On Vulkan a failed submission
  destroys the image without waiting while the copy of a presenter may be under way
  (line 514: `CopiedImageStays`; `docs/z2f-8b3b3b-direct-vulkan-shader-presentation.md:89`:
  "Output-image rebuild and executor shutdown continue to wait for device idle").
* A header write cut short leaves `arena.meta` truncated; a directory that cannot be
  synced leaves an order visible that was reported as failed; two processes that
  publish one generation of an order share a temporary path.


## 7. Not modelled

| Part | Why |
|---|---|
| Unicode data and text, HTML tokenizers and tree builder, CSS | functions of their input, tens of thousands of lines of which a third are generated tables; what could be wrong is in the data, which standard conformance suites test |
| Search, export and selection, geometry, paint descriptors | single-threaded computations over large inputs |
| Import and the segment reader's formats | sequential I/O; generations, block cache and mapped window are modelled |
| Logical node arena and index | immutable once built, with bound checks |
| Fonts: catalogue, discovery, shaping | parsing and calls into platform libraries |
| SDK upload calls, reference executor, swapchains of Direct3D 12 | adapters around drivers; the protocols they follow are in `WsiContext`, `FrameLeases`, `VulkanSwapchain` and `ShaderFrames` |
| Readers of `/proc`, cgroups and `PSI` | input parsing |
| Rust crates | replacements of C++ parts, compared in the shadow of them |
| Scripts and certification tooling | not part of the running program |


## 8. Plan

1. The choice of a reader between a generation and a legacy manifest.
2. The native frames over swapchains, and the import of a store.
