# TLA+ models of moo

moo is a programming language (German and English keywords, programs in
`.moos` files). The compiler is written in Rust (`compiler/src`), the runtime
it links into every program in C (`compiler/runtime`). The runtime is large:
values and containers, threads and channels, a user interface with its own
compositor, input and accessibility core, capture, network, a kernel runtime
for bare metal, numerics. This directory holds TLA+ models of the parts whose
correctness depends on *sequences* of calls or on the *interleaving* of
threads, the TLC configurations that check them, and proofs that TLAPS checks.

## 1. Inventory

Columns: what state a part keeps; what it does; what is hard about it; what
makes it correct. Paths are relative to `src/compiler/runtime`.

### Compositor core (`moo_compositor_core.c`)
- **State.** Five caller-owned arrays of fixed size: clients, surfaces,
  buffers, frame slots, event slots. Names are 64-bit handles of kind, slot and
  generation. A surface has *committed* state (what is shown) and *pending*
  state (what the next commit will show). One cursor, one frame in flight.
- **Operations.** Clients: create, disconnect. Buffers: register, unregister.
  Surfaces: create, attach, damage, scale, opacity, frame, commit, destroy. The
  display server: position, raise, pointer focus, pointer position, cursor
  buffer and visibility, `build_frame`, `present_done`, `next_event`.
- **Interaction.** Clients call the core synchronously; nothing is threaded.
  Answers come back as events (`FRAME_DONE`, `BUFFER_RELEASE`) in a queue per
  client. The display server calls `build_frame`, presents, and then calls
  `present_done`.
- **Hard.** Frame and event slots are shared by all clients, and
  `present_done` ignores the result of queueing an event: only reservations
  made calls earlier guarantee the room. Buffers are borrowed memory counted by
  references of surfaces and of the cursor. Slots are reused; the generation
  counter is finite. Disconnect cleans five tables.
- **Correct if** every accepted frame token ends in exactly one event; no client
  can block another one; reference counts are exact and no shown buffer
  dangles; a stale handle is never valid again; disconnect leaves nothing of
  the client and touches nothing else; damage covers every changed pixel.

### Compositor scene and raster (the same file, `moo_compositor_raster.c`)
- **State.** Position, size, stacking order, scale and opacity of the surfaces,
  the cursor's position, the damage list of the output and of each surface, all
  of fixed length.
- **Operations.** Those of the core; each that changes what is visible adds
  boxes to the output's damage, and `build_frame` redraws the damaged boxes only,
  skipping surfaces that opaque ones above cover.
- **Hard.** Whatever a call changes must be inside the boxes it adds, also when a
  list overflows, a surface is scaled or moved off the output; coverage must be
  decided from many surfaces without drawing them.
- **Correct if** the output always shows what a full redraw would.

### Compositor effects and animation (`moo_compositor_animation.c`, the `_ex` calls of the core)
- **State.** One binding per surface (owner, effect state, number of completions
  held back), a timeline with a fixed number of animation slots, a table of
  completion reservations, and the event slots held back for them in the core's
  own event table.
- **Operations.** Bind, set and commit an effect state, start and cancel an
  animation, destroy a surface, disconnect a client, build a frame; each works
  on a copy of the core and writes it back only if all went well.
- **Interaction.** The same frame and event tables as the core's plain calls,
  which stay usable beside the `_ex` calls.
- **Hard.** Every call changes four tables, and every call first checks that
  they agree and refuses to work when they do not: one mistake stops all clients for
  good. Terminal events exactly once through replace, cancel, the last frame,
  destroy and disconnect; frame tokens that pass by the core's own checks.
- **Correct if** the four tables always agree, every accepted animation token gets
  exactly one terminal event, and an accepted animation does end.

### Channels and threads (`moo_thread.c`, `moo_memory.c`, `moo_error.c`)
- **State.** A channel is a ring buffer with two positions and a count, a closed
  flag, one mutex, two condition variables. A thread object has a result, a done
  flag and a mutex. Every heap value has a plain `int32_t` reference count.
- **Operations.** `send`, `recv`, `close`, `len`; `spawn`, `wait`, `done`;
  `retain`, `release`; a global try depth and last error.
- **Hard.** Lost wakeups, spurious wakeups, woken threads overtaken by others,
  close with waiters; reference counts and the error state shared between
  threads without synchronisation.
- **Correct if** a channel is a bounded queue whose calls take effect one at a
  time, and no call that could take effect sleeps for ever.

### Bare-metal heap (`moo_bare_alloc.c`)
- **State.** Region, bump address, headers in memory, free list, two counters.
- **Operations.** `kern_heap_init_c`, `kern_alloc_c`, `kern_frei_c` and their
  wrappers for moo programs.
- **Hard.** Rounding and room at the edge of the word, splits that must tile
  the block they came from, double and wrong frees, a second initialisation.
- **Correct if** memory handed out is disjoint, aligned, inside the region and
  long enough, no byte is lost, and every wrong free stops the kernel.

### Input core (`moo_input_core.c`)
- **State.** Clients and their targets; one seat with focus, focus epoch, keys
  that are down, text composition, pointer target, capture, buttons and touches;
  shortcuts; an event table shared by all clients, with a number of *reserved*
  events per client.
- **Operations.** Adapters report what the devices do (focus, motion, buttons,
  keys, text, touch, stylus, preferences); clients register shortcuts and read
  their events; the server creates and disconnects clients and targets.
- **Hard.** Whatever goes down must be able to come up, however full the queues
  are; a call pushes several events to two clients and must do all or nothing;
  clients disconnect while they have focus, capture and touches.
- **Correct if** reservations are exactly what is down and are always covered,
  the seat points only to live targets, and a client that reads its events knows
  what it holds.

### Accessibility core (`moo_a11y_core.c`)
- **State.** Nodes with parent, relations and revision, one tree per target of
  the input core.
- **Operations.** Create, update, destroy, update of several nodes at once, read
  and action.
- **Hard.** Several nodes get new parents in one call, each change valid alone.
- **Correct if** every target with nodes has one rooted tree, its edges stay with
  one owner and target, and its depth stays within the limit.

### Capture (`moo_capture.c`, `moo_capture_pull.c`)
- **State.** At most one camera and one microphone, each with the state of its
  handle and a session of the system; packets the system lends; a spill buffer of
  samples that were lent and not asked for yet.
- **Operations.** Open, close, free, list; take the newest camera frame; read a
  number of samples, with a timeout or without.
- **Interaction.** A table of system calls (`MooPullCaptureOps`), one back end
  per platform. Each may fail, time out, announce data that is not there, or ask
  for a recovery.
- **Hard.** Every packet must be given back on every path; `startup` and
  `shutdown` must balance through opens that fail half way; samples must not be
  mixed across a recovery; a deadline against a system that keeps promising.
- **Correct if** packets and sessions are balanced, a camera call returns the
  newest frame, a recording has a gap only where it says so, and a read ends.

### Dictionaries (`moo_dict.c`)
- **State.** An array of slots, each unused, occupied or a tombstone; the counts
  of keys and tombstones; a frozen flag.
- **Operations.** Get, has, set, remove, freeze; a set over the load factor first
  moves every key to an array of twice the size.
- **Hard.** A removed key may lie on the way of a search for another one; chains
  of keys reach around the end of the array; growing changes every key's home.
- **Correct if** a search finds what a map would hold and always ends.

### Parts that are not modelled
Compiler front end and code generator (functions from text to code, covered by
differential tests); most containers of the language runtime; network, TLS, HTTP,
database (wrappers); UI back ends (toolkits); tensors, neural networks, GPU,
3D, audio, video, pictures (numerics and formats); cryptography; boot, MMU,
interrupt controller (hardware); the Python tool chain and the library in moo.
`PROJECT.json` lists each with its reason. By lines these are nearly all of
the repository: two thirds of its C code are vendored (mbedTLS, glad,
generated shaders), and most of the rest computes pictures or numbers.

## 2. The modules

| Module | What it is |
|---|---|
| `CompositorCore` | the compositor's request state machine |
| `FrameCallback` | abstract: what a client may rely on for a frame token |
| `CompositorCoreProofs` | types, generations, ownership, exact counts, isolated disconnects, releases; quotas, the life of a token, refinement of `FrameCallback`, commits shown, the shared tables; for all constants |
| `CompositorScene` | geometry, damage, coverage and the picture on the output |
| `CompositorSceneProofs` | exact coverage, a screen that is current outside the damage, for all constants |
| `CompositorEffects` | effect bindings, animations, completion reservations, with the core's frame and event tables |
| `EffectLifecycle` | abstract: what a client may rely on for an animation token |
| `CompositorEffectsProofs` | the agreement of the four tables, refinement of `EffectLifecycle`, for all constants |
| `Channel` | ring buffer, mutex and condition variables |
| `FifoChannel` | abstract: a bounded queue with atomic calls |
| `ChannelProofs` | types, no lost wakeup, refinement, for all constants |
| `KernHeap` | the bare-metal heap |
| `BlockAllocator` | abstract: disjoint pieces of a region |
| `KernHeapProofs` | types, tiling, free list, accounts, refinement, for all constants |
| `InputCore` | the input state machine |
| `A11yTree` | the accessibility trees, with the input core they live on |
| `InputProofs` | of both: the seat, the reservations, releases, text calls; edges and rooted trees, with the seat below them; for all constants |
| `CapturePull` | camera and microphone over the system's packets |
| `CapturePullProofs` | balance, newest frame, gapless blocks, for all constants |
| `DictTable` | a dictionary's table, with its growth slot by slot |
| `FiniteMap` | abstract: a map with set, remove and freeze |
| `DictTableProofs` | soundness of the table, refinement, for all constants |
| `MC*` | instances for TLC |

Operators named with a *Seeded fault* comment are not used by any
specification. Each is a plausible mistake in the operator that follows it, kept
to show that a property would notice.

### CompositorCore
An action is one API call that returns `MOO_COMP_OK`, with everything the call
does. Calls that return an error change nothing in this part of the core, so
they are stuttering steps: every error return comes before the first write.
(`present_done` and `buffer_unref` are the exceptions: their ignored results
are modelled, see `Overdraft` and `CanPushEvent`.) The variables are the tables
of `MooCompositor`; a handle is `<<slot, generation>>`. Abstracted are
- event sequence numbers, to one queue per client handle (`next_event` returns
  the client's lowest number); the event slots in use are the places of all
  queues (`EventSlotsInUse`);
- frame ids, to *a frame is in flight* (`build_frame` is refused then, so the
  assigned frames are always those of the frame in flight);
- geometry: `BuildFrame` may show any set of mapped surfaces. This allows more
  than the code does;
- the buffer view and its limits, which are checks on one call's arguments.

`moo_comp_client_disconnect` runs through cursor, surfaces, frames, events and
buffers; `ClientDisconnect` states the outcome table by table. A commit with an
unchanged buffer leaves the reference counts alone, as in the code. The error
returns for `UINT32_MAX` references and `UINT64_MAX` events are left out:
`MaxCommit` is the only 64-bit counter that is bounded, and `MaxGeneration`
stands for `UINT32_MAX`, where a slot retires with generation 0.

### Channel
One step is what a thread does from taking the mutex until it gives it up,
either at the end of the call or in `pthread_cond_wait`. `pthread_cond_signal`
removes one waiting thread, any one; `WakeUnasked` is a wakeup without a signal. A
woken thread is an ordinary thread in its call again and re-evaluates its loop
condition when it gets the mutex, which is the code's `while`. What the program
calls, and when, is the `Call` action.

### KernHeap
`block` maps the address of every header to its contents; the free list is the
sequence of headers its links visit. `kern_find_payload` walks from the start
of the heap, adding sizes: the model looks the address up in the domain of
`block`, and `HeapTiled` is the statement that the two are the same. The checks
in `kern_alloc_c` that call `kern_panic` on a damaged list are no actions; that
they never fail is `FreeListSound` (header sane, block free, not more nodes
than the region can hold). A kernel that overwrites headers is outside the model.
`kern_speicher_init` with unusable numbers is `HeapInit` with an unusable
region; `kern_alloc` with an address that a double cannot hold exactly is an
allocation followed by a free.

### InputCore
An action is one API call that returns `MOO_INPUT_OK`; a call that is refused
changes nothing. Every call that pushes events first checks the room for all of
them (`can_queue`, `can_focus_transition`, `can_pointer_transition`). In the
model a call gathers its *mail*, the events and the change of reservations for
each client; `Room` is the check and `Deliver` the pushes. The code
ignores no failed push, it returns in the middle of the call: that this cannot
happen is the half of `Reservations` that says no queue is overdrawn. Abstracted are
- event sequence numbers, to one queue per client, as in `CompositorCore`;
- serials, which only count the calls (each must be the last one plus one), and
  timestamps;
- coordinates, axis values, stylus data, preferences and repeats: events `DATA`;
- modifiers and lock keys: a press that a shortcut is registered for may match
  it or not, because the modifiers that are down may be the wanted ones or not;
- UTF-8 and selections, checks on one call's arguments;
- `moo_input_target_create_for_surface`, which checks the surface in the
  compositor and then is `TargetCreate`. A target may outlive its surface.

### CompositorScene
The core's geometry alone: no handles, owners or tokens, and a buffer is its
picture. `screen` is what is drawn at every pixel; where a call adds damage it
becomes *unknown*, since `build_frame` draws a damaged box from nothing, and
`BuildFrame` fills the damaged pixels by `Shown`, what the raster's way through
the stack from the lowest layer to the cursor leaves there. `ScreenIsCurrent`
compares it with a redraw of everything. `z_sequence` is kept as the order it
makes: `stack` holds the pairs of surfaces of which the second is the higher one.
Paints are opaque, translucent or invisible; what blending computes is abstracted
to the inks seen at a pixel and which of them is over which. Whether a
surface is opaque is computed at commit time and kept (`effective_opaque`), as in
the code; whether a region is covered (`RegionCovered`) is translated with its
greedy run over the rows. The one premise is `Honest`: a client that commits
without changing the geometry declares every pixel it changed.

### CompositorEffects
An action is one call that returns `MOO_COMP_OK`; all of them work on a copy and
write it back at the end, so that a refused call changes nothing. The core's
tables for frames, tokens and events are here again, since the `_ex` calls
write them past the core's own checks, with the core's plain calls beside them. Every
`_ex` call is guarded by `IntegrationValid` (`EffectStep`), the translation of
`moo_i1_reservation_graph_valid`. The order in which terminal events are queued is
that of the timeline slots. Abstracted are
- time and values: which animations reach their end in a frame is any subset;
- an effect state, to the animated properties it enables;
- buffers, to whether a surface shows one: giving one up may queue a
  `BUFFER_RELEASE` or not, which is more than the code does;
- clients that come back after a disconnect, resources and work limits.

### A11yTree
`nodes` is added to the variables of `InputCore`, whose calls leave it alone
(`SeatNext`) but for two: `target_destroy` refuses a target with nodes, and
`client_disconnect` clears the client's nodes. Both are conjoined to the action of
`InputCore`. `ChainOk` is the walk of `validate_parent`, and with a non-empty
`change` the walk of `nodes_update_atomic` over the proposed parents; `Changes`
is the first pass of that call, the checks of each node alone. Roles, texts,
bounds and revisions are left out: an update with the wrong revision is one that
is refused.

### CapturePull
One program thread; a step is what happens between two system calls, so that
every result of a system call is an action: it succeeds, times out, fails, or
asks for a recovery. Frames and samples are numbered by the device in the order it
produces them. A recovery may lose samples: the stream jumps. The clock is one
fact, `late`: the deadline of the call has passed, which may become true at any time
in a call that has one (`waits`). A session is in `session` from the system call
that opens it until the one that closes it, `started` counts `startup` less
`shutdown`. Pixels, formats and channels are left out; so are refused arguments,
which change nothing. The program has at most one handle of each kind.

### DictTable
The C code tests slots one after the other until it finds the key or a slot never
used, and remembers the first tombstone on the way. `Probes` numbers the slots in
that order, `Ends` are the slots where the search can stop, and `FindSlot` takes
the nearest; it is written without recursion, so that it can be proved about.
`SetGrowing`, `Rehash` and `SetGrown` are the start, a turn of the loop, and the
end of `dict_grow` inside `moo_dict_set`. What is looked up in between
(`Map`) is the old table: the call has not returned. A set over the limit grows
the table although the key is there already, as in the code. Left out are the references to keys
and values and the refusal to grow beyond 2^30 slots, where the code goes on
with the full table.

## 3. What is checked with TLC

| Run | Instance | Shows |
|---|---|---|
| `tokens` | 1 client, 1 surface, 2 buffers, the cursor, 2 tokens, 2 frame slots, 3 events, 3 commits, slots used once | types, and what each kind of event names; every way of a token follows `FrameCallback`; a token is in one place; at most one commit of a surface is shown; exact reference counts, no dangling buffer, a release event exactly when the last reference goes |
| `shared` | 2 clients with 2 surfaces, or with one and the cursor, slots used once; or 1 client and 1 surface, slots used twice; 4 events, 2 frame slots, 1 token, 1 commit; fair | quotas keep the promised room; clients do not block each other; owners live; a token ends by delivery, and does end; stale handles stay stale; a disconnect touches nobody else |
| `channel` | 4 threads, 2 values, capacity 2, fair | no lost wakeup; refinement of `FifoChannel`, its fairness included |
| `kern_heap` | 64-byte word, alignment 4, header 8, six regions, five sizes | tiling, free list, accounts, refinement of `BlockAllocator` |
| `input` | 2 clients, 4 events, quota 4, 2 buttons, 1 key, 1 contact, 1 shortcut, 3 epochs, 2 revisions, three sets of features; 2 targets on slots used once, or 1 on slots used twice | the seat is consistent; reservations are exact, covered and never in the way of a release; the events tell each client what it holds; text calls only move forward |
| `a11y_tree` | 2 clients, 2 targets, 3 nodes with one relation, depth 2; 3 node slots used once or 2 used twice | one rooted tree per target, no edge out of it, whatever is moved in one call |
| `effects` | 2 clients, 1 surface with two properties, commits and frames, or 2 surfaces that are animated; 2 animations, 4 events, 2 frame slots; fair | the four tables agree; refinement of `EffectLifecycle`; an animation ends while frames can be built |
| `capture` | camera and microphone, queue of 2 frames, 3 recoveries, packets of 1 or 2 samples, blocks up to 3, 3 frames, 5 samples; fair | packets and sessions balance, the newest frame, gapless blocks, a read with a deadline ends |
| `scene` | 2 surfaces and a cursor on a 2 by 2 output, three scales and opacities, damage lists of one entry | what is on the output is what a full redraw would show; coverage is exact |
| `dict` | 4 keys, two of one hash, two values, capacity 4, load factor 1/2 | searches find what a map would hold; the table is sound in the middle of growth too |
| `a11y_depth` | 1 client, 1 target, 4 nodes, depth 2 | violated: see below |
| `effects_blocked` | 2 clients, 2 surfaces, 1 animation, 4 events, 1 commit | violated: see below |

**Bounds and why they are enough.** For everything in section 4 the bounds do not
matter. Two clients suffice where a property relates one client to *the
others*: quotas depend on the number of clients only through a division, and the
disconnect code looks at one client at a time. Two tokens and one surface give
a token that is superseded while the next one waits; three commits allow attach,
replace and unmap; two buffers and the cursor allow a buffer that is
shown twice and one that is given up while it is pending. Three events for one
client fill the queue with one release besides two tokens. In `shared` each
client's quota is two events and one frame, so that one client can be at
its limit while the other one is not. `MaxCommit` is a bound of the code
(`UINT64_MAX`), only smaller; two generations reach both reuse and retirement of a
slot. Reuse of slots and the interplay of two clients are in the same run but
not in the same behaviour (`WithinLoad` of `MCCompositorCore`): what a second
generation changes is which handles are valid, and each call decides that for one
handle at a time.

Four threads give two on each side of a channel, or three waiting and one that
signals, at a capacity where a second value or place matters. The heap word holds
up to four blocks; the regions include the smallest usable one, an unaligned
one and three unusable ones, the sizes 0, a whole region and one that cannot
be rounded.

For the input core the quota is four: two buttons, the pointer's leave and a
press waiting are the most that have to fit together for a capture with more than
one button, and four slots in a table shared by two clients are fewer than
both quotas. Three focus epochs allow focus to leave and come back, and the text
revisions end below `MaxRevision`, as the code's end below `UINT64_MAX`. The three
sets of features keep apart what cannot meet: pointer, keys and text in the first,
contacts in the second, shortcuts in the third. `WithinLoad` leaves
out the first target's belonging to the second client while slots are used
once: the code never compares two clients but for equality, so swapping them is a
symmetry. The same holds for the first surface in `effects`. Three nodes are
enough for two siblings that become each other's parents in one call, and two for
a relation or a parent whose slot is another node later (`WithinLoad` of
`MCA11yTree`); the fourth one in `a11y_depth` is the child that is moved along.

Two surfaces and a cursor suffice for the scene, where the layers that cover a
pixel matter only as the ones above it and the ones below; damage lists of one
entry overflow at the second box. Three recoveries are the code's own limit. The
two keys of one hash, the one after them and the last one of the larger table make chains that
meet, reach around the end of four slots and part in a table of eight; load factor
1/2 lets four slots grow at the third key, where 3/4 of the code would need more keys.

**What the code does not do.** `a11y_depth` checks `DepthBounded`, after
`docs/ui_moo-input-a11y.md:100`: cycles, second roots and too great a depth are
invalid. Depth is checked on the way up from the node that a call names. The nodes
below it move with it and nobody looks at them: with a limit of two, a node with
a child is put below a sibling, and the child has three nodes above it. From
then on every update of the child that leaves it there, if only of its text, is
refused with `MOO_INPUT_LIMIT`. Cycles and second roots do not occur
(`OneRootedTree`, for all bounds).

`effects_blocked` checks `PresentDoneHasRoom`, after
`docs/ui_moo-compositor.md:21`: an accepted frame token reserves its event slot,
so that no client can block `present_done` of another one.
`moo_comp_surface_commit_ex` takes a frame token over without the checks of
`moo_comp_surface_frame`. When the unread events and reservations of both clients,
each within its quota, fill the event table, there is no slot left for that token,
and `present_done` answers `WOULD_BLOCK` for everybody until somebody reads.

Met while modelling, and in the model as the code has it:
- `surface_commit_ex` overwrites a frame token that is pending on its surface
  (`moo_compositor_core.c:2618`): the overwritten one never ends, although
  `docs/ui_moo-compositor.md:32` lets every frame token end exactly once;
- `surface_commit_ex` may disable an effect while its animation runs; from then on
  `build_frame_ex` refuses with `BAD_STATE`, for all surfaces, until the
  animation is cancelled. `TokenEndsWhileDisplayRuns` therefore says *while
  frames can be built*;
- the limit on animations and the uniqueness of their tokens are those of the whole
  timeline (`moo_compositor_animation.c:556`, `:569`), where
  `moo_compositor_effects_protocol.h:193` speaks of the client;
- `build_frame_ex` does not complete frame tokens;
- `surface_destroy_ex` clears `release_armed` of the committed buffer before it
  calls `surface_destroy` (`moo_compositor_core.c:2954-2961`), so it queues no
  `BUFFER_RELEASE`. It does so even when another surface or the cursor still shows
  the buffer, and a buffer is armed again only at count 0 (`:495`): the later call
  that takes its last reference queues none either. `ReleaseAnnounced` and its
  theorem are therefore about the plain calls. `CompositorEffects` has no buffers,
  and no module has this step together with the counts;
- a microphone read with `timeout_ms` 0 has no deadline in its loop: `ReadEnds`
  is about calls that have one;
- a dictionary that may not grow any more goes on after the error.

**Deadlock** is checked for the channel with any thread able to call, for the
effects, the scene, capture and dictionaries. It is switched off for the compositor and
the input core with its trees, which stop when all generations, commits or
epochs are used up, and for the heap, which stops when the kernel has halted.

**Fairness.** `shared` assumes that the display loop keeps calling `build_frame`
and `present_done` (weak fairness of both): that loop is the compositor's driver,
and without it no frame is ever shown. Nothing is assumed of the clients.
`channel` assumes weak fairness of a thread's step once it is neither idle nor
waiting: a thread that wants the mutex gets it at last, although others take it
in between; every holder gives it up, since the code between lock and unlock has
no loop but the waiting one. No wakeup without a signal is assumed, and no thread
is assumed to call anything. `effects` assumes `present_done` as above, and strong
fairness of a frame in which the animation of slot *k* ends: time goes on and every
animation has a last instant, so a frame after it comes if frames can be built
again and again. `capture` assumes that a call goes on (`CallStep`: the
system answers, with whatever result) and that the clock does (`ClockPasses`).


## 4. What is proved

TLAPS checks the eight `*Proofs` modules, for all values of the constants that
satisfy the assumptions named in the modules: `CapacityAssumption` and
`TokenAssumption` (compositor: the limits that `moo_comp_init` checks),
`ThreadAssumption`, `RequestedAssumption` (channel), `SizeAssumption` and
`InputAssumption` (heap: alignment and header size as in `moo_bare_alloc.c`),
`EffectCapacityAssumption` (effects: those of the core, and a timeline with a
slot and no more slots than a client may have animations), `InputAssumption` and
`NodeAssumption` (input and trees: the checks of their `init` calls),
`SceneAssumption` (scene: pictures with a width and height that fit an `int32_t`,
scales from 1 on, opacities up to 255, boxes of integers), `CaptureAssumption`, and `LoadAssumption` (dictionaries: the
load factor leaves two slots at the first capacity). TLC evaluates each in a
run. No run replaces a definition, so both speak of the same modules. An
inductive invariant was checked by TLC on the instance of the component's run before
it was proved.

- **Compositor** (`CompositorCoreProofs`). `TypeCorrect`: every table keeps its
  type; a queued `FRAME_DONE` names a surface, a token and an outcome, a
  `BUFFER_RELEASE` a buffer. The type invariant is not inductive alone: an event
  is filled in from a frame slot, so a slot must hold surface and token from the
  moment it is taken, and an outcome while its frame is in flight; `TypeInv` adds
  that (`FramesNamed`). `StaleHandlesStayStale`: a handle once
  destroyed, unregistered or disconnected is never accepted again, for any number
  of reuses. The step needs that a live slot has a generation, which `GenerationInv`
  adds (`LiveNamed`); each table then only moves its generations forward.
- **Compositor, ownership** (the same module). `OwnershipInv` adds that owners
  are live (of surfaces, buffers, frame slots, queued events and the pointer
  focus), that every shown buffer is registered by the client that shows it, and
  that reference counts are exact. It is inductive only as a whole:
  unregistering a buffer is safe because its count is the true number of its uses,
  a disconnect is safe because a client's buffers are shown by that client alone,
  and a queued event has a live owner because a release goes to the owner of a
  buffer that somebody still showed. The counts are cardinalities of `RefsTo`;
  lemmas say how a set of showing surfaces changes when one surface is created,
  shows another buffer or goes. From it follow `NothingOutlivesItsClient`,
  `NoBufferDangles` and `RefCountsAreExact`. `DisconnectsAreIsolated` needs one
  fact more: a frame slot belongs to the owner of its surface as long as that
  surface lives (`FrameFollowsSurface`), so that the surfaces a disconnect destroys
  cancel nobody else's frames. That is `IsolationInv`, again inductive.
  `ReleasesAreAnnounced` goes through the calls that give up a reference: the
  queue grows by a release exactly when the count goes to zero.
- **Compositor, tokens** (the same module). Every call has one of six
  effects on what a client is owed: nothing changes but perhaps a release event
  (`Rests`), a token is requested, moves into a frame slot, is presented, is read,
  or leaves with its client (`WholeEffect`). The results are proved from the
  effects and not call by call. `RoomInv`: queue, frame slots and pending tokens of a
  client stay within its quotas; a move keeps the sum, presenting turns frames into
  events, and only a request adds, after its check. `TokenInv`: a client's token is
  on one surface, in one frame slot, or in one event, the three sets never growing
  together. From these follow `AcceptedTokensHaveRoom`, `TokensAreInOnePlace`,
  `TokensEndByDelivery` and the refinement `CompositorImplementsCallbacks`:
  `TokenPhase` maps each effect to a step of `FrameCallback` or a stutter.
  `ShownInv` says that frames not cancelled belong to different commits of live
  surfaces, whence `OneCommitIsShown`. `ClientsDoNotBlockEachOther` adds the
  quotas up: `StepwiseBound`, by the least counterexample, bounds what
  the first *n* client slots hold by *n* quotas, and a slot has one live client.
- **Effects** (`CompositorEffectsProofs`). `ReservationGraphHolds`: the four tables
  agree after every call, so the checks that refuse with `MOO_COMP_BAD_STATE` never
  do. `IntegrationValid` counts and is not inductive; `EffectInv` says what the
  counts are of. Running animations and reservations come in pairs, told apart by
  their tokens (`Paired`); a reservation and its event slot name each other
  (`ReservationLinked`, `EventsLinked`); an animation's surface lives and is bound
  (`AnimationLinked`); a surface has one animation of a property at most, so that a
  start replaces one and not several (`OnePerProperty`); a binding's counter is the
  number of animations on its surface (`CountsExact`). That pairs and counts give
  `IntegrationValid` is `EffectInvIsValid`. The end of some animations is described
  slot by slot (`Completed`) and shown to keep the links whenever the reservations
  used up are those of the animations ended (`LinksCompleted`). A new animation adds
  one pair (`LinksAdded`). Calls that touch neither are one lemma
  (`QuietStep`). Type correctness includes that the queues name each live event slot
  once (`Enumerates`), with lemmas for slot order, concatenation and the tail.
  `AnimationsAreReplaced` is the last but one of these parts. `EffectsImplementLifecycle`:
  the active tokens of a client are those of its reservations (`ActiveIs`), and the
  terminal events told are counted in the event slots. `TokensCompleted` is the heart:
  the reservations used up lose their tokens and each turns its held-back slot,
  which is nobody else's, into one terminal event. A start is that on the tables with
  the new pair added, a plain call leaves both alone (`QuietTokens`).
- **Scene** (`CompositorSceneProofs`). `SceneInv`: the damage list holds boxes on
  the output, `z_sequence` orders the live surfaces, `effective_opaque` is what
  the committed picture, scale and opacity say, and a hidden cursor has no
  picture. `CoverageIsExact` rests on `RowExact`: the greedy scan reaches the end
  of a row if and only if every pixel of it is under a cover, shown by the last
  start for which it does not; and on `CoverHides`: a validated layer draws an
  opaque sample at every pixel of its box. `ScreenStaysCurrent` needs of every
  call that it is `Quiet`: a pixel that is not damaged afterwards was not before
  and shows what it showed. Three lemmas do that for all calls: the list loses no
  pixel however full it is (`DamagedIs`, `DamagedAllIs`); layers that leave nothing at a
  pixel do not matter there (`SameLayers`); nor does one that is under a cover
  (`CoveredLayer`), which needs that the stack is transitive. For a commit that
  changes no geometry, `PendingIs` and `RoundedOut` follow a changed pixel of the
  buffer through the declared boxes, also when their list overflows, and through the
  rounding by the scale into a box on the output. Lists of boxes and rows are
  computed by recursive functions; lemmas (`ListsExist`, `PendingsExist`,
  `ScansExist`) show that functions with their equations exist before
  anything is concluded from the equations.
- **Channel** (`ChannelProofs`). `TypeCorrect` with the invariant that only senders
  wait for room and only receivers for values, and that the write position is where
  the values end (`WaitersCalling`, `RingClosed`). `NoWakeupIsLost`: the counting
  argument that free places are matched by awake senders, and values by awake
  receivers, while anybody sleeps. `ChannelImplementsFifo`: the ring is the queue of
  `FifoChannel`, by the arithmetic of the two positions.
- **Heap** (`KernHeapProofs`). `HeapInv`: types, the bump inside the
  region and aligned (`BumpInRegion`), the tiling, and the free list. From it follow
  `TypeCorrect` (nothing wraps around), `BlocksTileTheHeap` and
  `HeapImplementsAllocator`: two blocks that tile do not overlap, and the payloads
  of blocks in use are exactly the addresses that may be given back.
  `FreeListIsSound`: the number of smallest blocks below a block is different for
  every block, which maps the free list injectively into as many numbers as the code
  allows it nodes. `NoByteIsLost` counts bytes as pairs of a block and an offset,
  so that a block moves its size from one side of the account to the other,
  and a split or a cut pays for one header. The proofs rest on lemmas about
  multiples of the alignment and about lists without repetition.
- **Input core** (`InputProofs`). `InputInv` is `TableInv` (what is used
  belongs to a live client), `QueuesInv` (only live clients have events),
  `SeatInv` (types, finiteness of what is down, the links of the seat) and
  `Reservations`. The reservations cannot be proved without the links: a button's
  event is owed to the owner of the capture, and that there is a capture exactly
  while a button is down makes the debt exact. Each call is shown to change the
  debt of each client by what its mail says (`Mail`, `Deliver`), and the sums over
  the shared table by one lemma on sets of places (`UseAfter`, `ReservedAfter`).
  `EventsTellTheState` is about a step, and follows from the same invariant. What a
  client reads is a recursive function over its events (`ReadingAll`); `Reads`
  says it event by event, with a witness for every view on the way, so that mail
  joins (`ReadsBoth`) and the releases of everything that is down are read one by one
  (`ReleaseByRelease`). One lemma per kind of call then shows that the mail of a
  client reads as the change of its view (`ToldFocus`, `ToldButtons`, ...).
  Theorems: `SeatIsConsistent`, `ReservationsHold`, `ReleasesAreNeverBlocked`,
  `TextOnlyMovesForward`, `EventsAreComplete`.
- **Accessibility trees** (the same module). `TreeInv`: types, homes, edges, one
  root, and `Grounded`: out of every set of nodes without a root leads some parent.
  `Grounded` is the absence of cycles without a rank or a path, and it is
  inductive: a set of nodes that one call moves is grounded because the walk
  of `validate_parent` ended at a root, through the proposed parents when there are
  several. Theorems: `EdgesStayInside`, `TreesStayRooted`, and `SeatWithTrees`: the
  input core's results hold with the trees on top.
- **Capture** (`CapturePullProofs`). Four invariants, one per promise:
  `SessionInv` (a handle is `OPEN` exactly while it is being opened) for
  `SystemIsBalanced`; `PacketInv` for `PacketsAreReturned`; `FrameInv` (the frames
  waiting are the last ones produced, and the goal is in reach of the turns left) for
  `FrameIsNewest`; `SampleInv` (spill, packet and microphone follow each other) for
  `BlocksAreContiguous`.
- **Dictionaries** (`DictTableProofs`). `Inv` is `TypeInv`, `TableSound` and
  `GrowInv`: in the middle of growth the new table holds what the old one holds
  below `i`. `TableIsSound`: every key is found where it is, a slot stays unused,
  the counts are exact. `TableImplementsMap`: growth changes nothing that is looked
  up, and a set or remove its own key only.

**Model-checked only** is liveness: `FrameEventuallyDone`, `FifoFairSpec`, `TokenEndsWhileDisplayRuns`,
`ReadEnds`. They rest on fairness and on `ENABLED`, which the prover does not support.

The two violated properties are, of course, not theorems.

No module declares a recursive operator. Where the code loops, the result is
described (`WayUp`, `FindSlot`, `FirstFit`) or a recursive function is used.

## 5. Plan

Modelled, checked and proved are the compositor core with its tokens, channels, heap,
input core, accessibility trees, capture, dictionaries, the effect protocol and the
scene. Next:

1. `Threads`: `spawn`, `wait` and `done`, and reference counts as loads and stores
   of two threads, once the runtime says which values threads may share.
