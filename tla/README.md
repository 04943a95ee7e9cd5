# A verification of FEAR2VR

FEAR2VR puts the 32-bit game FEAR 2 into a headset. A DLL injected into the game
(`src/`) hooks the engine, reads each rendered frame back and writes it into a shared
section; a 64-bit host (`tools/xr64/main.cpp`) owns the OpenXR session, reads the section
and submits. The two processes share nothing but that section
(`shared/xr/SharedFrame.hpp`) and one event. This directory holds TLA+ models of the
protocols between them and of the threads inside the game, the TLC configurations that
check them, and TLAPS proofs.

Paths below are relative to the repository. `main.cpp` is `tools/xr64/main.cpp`; mods
are in `src/mods/`.

## 1. The system

### 1.1 Threads

| thread | runs | touches |
|---|---|---|
| game/render thread (one: FEAR 2 simulates and presents on it) | `CClientShell::Update` -> `Mods::on_frame`; the scene hooks; `present_detour` | everything in the mod |
| command thread | `CommandServer` accept loop and its handlers | switches and requests of the mods, `queue_haptic`, `FramePublisher::close` |
| supervisor | `AgentRuntime::run_supervisor`: gate, initialise, poll for unload, `Framework::shutdown` | `on_shutdown` of every mod, `Hooks::retire` |
| host frame thread | `main.cpp`, `while (!g_stop)` | the section, OpenXR, Direct3D 11 |
| host log thread | `log_drain_thread` | the log ring |

### 1.2 Components

| component | state | operations | talks to | hard because | correct when |
|---|---|---|---|---|---|
| shared section | five blocks: frame header and slots, host pose, haptics, UI, handshake | none: plain memory | both processes | no locks across processes, either side may die at any store | each block keeps its own promise, below |
| haptic ring (`FramePublisher::queue_haptic`, `main.cpp` drain) | `write_index`, 1-based tickets, `commit` stamp per entry | request, stop; drain once per host frame | gunfire on the game thread, `/vr/haptic` on the command thread -> host | two producers, a reader that is lapped, a 32-bit wrap | no torn pulse, no shared ticket, drops counted, in order |
| XR frame handshake (`xr_wait`, `xr_begin`, `xr_end`; `handshake_await/_ack`) | request and ack ids per stage, `host_servicing`, `sequence` | WAIT, BEGIN, END, each with a time limit | game thread <-> host loop | three round trips per frame, either end gives up, dies or restarts | frames begun and ended in turn, each END for the frame begun, nobody hangs |
| frame transport (`publish`, `poll`) | header under a seqlock, three slots with a generation | publish a frame, take the newest, upload from the slot | render thread -> host | the reader uploads outside the seqlock, the writer dies in the middle | what a poll commits describes one frame, tearing is seen |
| pose path (`VR::on_frame`, `late_latch_head`, `service_continuous`, `pose_history`) | HostState, head, latch reference, stamp per readback, history ring | publish, ingest, compose, latch, stamp, look up | host -> game -> host | the pose is read twice per frame and comes back three hops later | an image is submitted with the pose it was drawn from |
| frame capture (`FrameCapture`, `RenderHook`) | callback slots, pipe of two surfaces, asks between threads | start, stop, publish, drop, shut down; service per frame | command and unload thread -> render thread | Direct3D 9 belongs to one thread, callbacks are removed while running, devices are lost | nothing runs after removal, nothing is released on the wrong thread or allocated after the release |
| UI layer (`publish_ui`, `UICapture`, `poll_ui`) | seqlock, two slots, `present` | publish, retire, poll | render thread -> host | no generation: a lapped slot goes unseen | a picture is whole, a retired layer disappears |
| pacing (`wait_for_host_tick`) | tick event, host frame counter, divisor, silences | wait for a boundary | host -> game thread | gives up on silence, must come back; must not flap | paced when the host ticks, free when it does not |
| hook registry, unload (`Hooks`, `Framework::shutdown`) | sealed, retired, owned targets | install, adopt, retire, seal, quiescence | every mod, supervisor | installs race the retirement; threads inside a detour | no jump into an unmapped image |
| supervisor, gate (`AgentRuntime`) | gate hit and release, gameclient seen | park, release, wait, unload | launcher, loader, engine thread | waiting on each other, bounded waits that expire | the engine is always let go |
| command server | running, listen socket, unload latch | start, accept, stop | supervisor | stop races accept and start | stop joins, unload is answered first |
| host session | running, state, stop | events, begin, end, exit | OpenXR runtime | events at any point of a frame | session calls only from the states that allow them |
| controllers and menu button | per hand: down-since, consumed, replay | tap, hold | HostState hands | one button with two meanings | a press is a tap or a hold, never both or neither |
| log ring (host) | write, read, dropped | queue, drain, stop | two threads | full ring, end of process | lines in order, none of the kept lost |
| input mods (`SyntheticInput`, `MenuInput`, `TurnController`, `WeaponWheel`) | tables of keys and requests | tap, hold, release, turn | command thread, game's poll | freed and taken at once | a key that went down comes up |
| gameplay mods (`FireRedirect`, `BoneControl`, `ConsoleRunner`, ...) | overrides, callbacks, queues | per frame | engine | lazily loaded modules, stale objects | everything is undone at unload |
| the rest | diagnostics, engine readers, settings panel, injector, tools, tests | | | | not protocols |

`PROJECT.json` lists all of them with their sources and what is left out of each, and,
under `hazards`, the lines where this code can go wrong in ways a test hardly reaches.
What was left out of that list, because nothing can be said about it in the modules below,
is in section 5.

## 2. The models

| module | models | state to code |
|---|---|---|
| `HapticRing` | the producers | `write_index`, `commit`, `payload` (a pulse is the number of its call, per field); per producer `pc`, `ticket`. `Enter` takes `m_haptic_lock`, `Claim`, `Invalidate`, `Fill` (one field at a time), `Commit` and `Publish` are the stores of `queue_haptic` in their order |
| `HapticDrain` | the ring with the host's drain and the focus of the session | `read` is `haptic_read`, `snapshot` the index taken once per pass, `copy` the half-made copy of an entry between `commit_before` and `commit_after`; `fired`, `torn`, `overruns`, `muted` are the host's counters, `fired` with what was handed to `xrApplyHapticFeedback` |
| `FrameCalls` | abstract: what OpenXR and FRAME_LOOP.md ask of the host | one frame open at a time, an owner, an END accepted or refused |
| `FrameHandshake` | the shared block, the game's thread, the host's loop, and their deaths | `req`, `ack` are `req_id`, `ack_slot`; `reply` the ack's payload with its stage; `gpc` where `VR::on_frame` and `post_and_wait` are, `hpc`/`stage` where the loop is; `drives` is `s_game_drives`, `ownerReq` is `s_begun_request`, and `beganReq` remembers for which request the runtime last began a frame |
| `FrameMailbox` | abstract: publish replaces, poll takes a newer frame, or nothing | |
| `FrameSlots` | `publish` and `poll` store by store, upload in two halves, crash and `close` of the game | `sequence`, `slot_generation`, `pixels` per slot in two halves; a frame is a number, and each field of `meta`, `pose` and pixels say whose they are; `named` is the frame the slot was last named for |
| `PosePairing` | one rotation through the five hops of the pose path | `rotation` in two halves under `sequence`; `head`, `head_eng`, `outer`, `wire`: the copies the game keeps; `m_pipe` the readback under way; `header` the mailbox that `FrameSlots` implements; `pose_history` |
| `FrameCapture` | command thread, render thread and device, one call against another | `slots`, `count`, `in_flight`: RenderHook; `pipe`, `pipe_ok`, `pipe_seq`, `issue`, `primed`: the pipe; `cpc` and `rpc`: how far each thread is in its call |
| `HookRegistry` | `Hooks`: the registry of patches, with safetyhook's save of a target's bytes | `code` the first bytes of each target, `hooks` what safetyhook made; `m_hooks`, `m_mid_hooks`, `m_targets`, `sealed`, `retire_started` by their names; `job` how far each thread is in `install`: tests, patch, record, adoption |
| `CommandServer` | `start`, `server_loop`, `request_unload`, `stop` | `g_running`, `g_unload`, `g_listen` by their names, `socket` what the system thinks of it, `spc` the server's thread, `stopping` the supervisor's place in `stop` |
| `Unload` | the supervisor from the gate to the unmapping, the game's thread inside the image | `step` is the place in `run_supervisor`, `Framework::initialize` and `Framework::shutdown`; `gpc` the place of the game's thread, `gate` the gate's latch; `fire_hooked`, `watch_hooked` and `todo` the installs that two mods do from `on_frame` |
| `Bones` | `BoneControl`'s slots, VR's hands, the engine's list of callbacks | `want_attached`, `attached`, `node`, `pending_node`, `model` per slot; `cells` the engine's list, where tag 0 matches any; `gpc`, `seen` how far `on_frame` is and what it has read |
| `UICapture` | brackets, presents and `publish_ui` on the render thread; `set_enabled`; `on_shutdown` | `sequence`, `present`, `slot`, `geometry`, `pixels` the UI block; `enabled`, `user_disabled`, `published` the mod's flags; a layer is its number |
| `UiLayer` | `UICapture` with the host's `poll_ui`, swapchain, upload and quad | `last_ui_sequence`, `have_ui_frame` as `have`, `ui_uploaded` by their names; `held` what is known of the picture in the swapchain |
| `SyntheticInput` | the table of keys, its three callers and the poll of the device | `vk`, `frames`, `held` are `g_slots`; `incoming`, `current` the device's two banks; `pc`, `call` each thread's place in `tap`, `hold`, `release_all`, `ppc` that of `apply_pending` |
| `Pacing` | `wait_for_host_tick` and the host's clock, in time | the `m_` variables by their names; `ahead` is `host_frames() - m_last_tick_seen`; `left`, `toTick`, `waited`, `since` count down or up to the next event |

Eight further modules hold proofs (section 4). Six are about the module they are named
after and what that one extends: `HapticDrain_proofs`, `FrameSlots_proofs`,
`PosePairing_proofs`, `FrameCapture_proofs`, `Unload_proofs` and `UiLayer_proofs`. Two are
about a pair: `FrameLoop_proofs` about what the game's loop and the host's do to each other,
`FrameHandshake` and `Pacing`; `GameMods_proofs` about two mods that act on the game,
`Bones` and `SyntheticInput`. That is why the definitions of `Pacing` and `SyntheticInput`
carry their module's name (`PacingInit`, `InputNext`, ...).

`HapticDrain` EXTENDS `HapticRing`, `Unload` EXTENDS `HookRegistry` and `CommandServer`,
`UiLayer` EXTENDS `UICapture`: the larger module composes the actions of the smaller ones
with its own. `FrameHandshake` instantiates `FrameCalls` and `FrameSlots` instantiates
`FrameMailbox` with a refinement mapping. `PosePairing` uses the mailbox, not the slots, so
that it stays checkable: that the slots behave as a mailbox is what `FrameSlots` shows.

Operators marked `Fault:` are plausible errors in the definition that follows them. They
are in no specification; each shows that a property can fail.

Abstractions common to all modules: pixels, poses and pulses are numbers; stores of one
process are seen in program order (both ends run on x86, and `MemoryBarrier` stops the
compiler); a field of 32 bits is read and written whole; time is not modelled, a time
limit may run out in any state in which the code tests it. `Pacing` is the exception: there
time is what the code computes with, and it passes from one event to the next.

## 3. The runs

| run | cfg | question | answer |
|---|---|---|---|
| `haptics` | `HapticDrain.cfg` | two producers against the drain | no torn pulse (`NoTornPulse`), a ticket per call (`EveryCallHasATicket`), drops counted (`NothingUncounted`), pulses in order and torn only when lapped (`InOrderUnlessLapped`), and everything published is eventually passed (`CatchesUp`) |
| `handshake` | `FrameHandshake.cfg` | game and host with every limit, reload, crash | the game ends only a frame that the runtime has begun for that very request (`EndsOnlyWhatBegan`, of one life of the mod, whatever expires or crashes), and until something expires or restarts `InLockstepUntilDisturbed` and `InsideThePair`; the loop implements `FrameCalls`, and so has one frame open at a time |
| `handshake_live` | `FrameHandshakeLive.cfg` | can one side hang the other? | no: `GameComesBack`, `HostComesBack` |
| `stale_ack` | `FrameReload.cfg` | is an old ack ever accepted? | yes, after a reload of the mod: violated |
| `frame_slots` | `FrameSlots.cfg` | publish against poll and upload, with a crash | picture and pose of a snapshot are one frame's, and so are its fields but after one kind of crash (`OneFramePerSnapshot`); a torn upload was lapped and is counted (`TornOnlyWhenLapped`); the pictures come as from a mailbox (`ImplementsMailbox`) |
| `pose_pairing` | `PosePairing.cfg` | whose pose is whose | `NeverTorn`, `FramesAgree`, `LookupIsExact` |
| `capture` | `FrameCapture.cfg` | calls of another thread against the render thread | `GoneWhenRemoved`, `RingIsWhole`, `ReleasedForGood`, `PublishedInOrder` |
| `unload` | `Unload.cfg` | what is left of the mod when its image goes, and does everybody get out? | at most the one hook a thread was installing, a target hooked twice, a filter put back by a reassert under way (`RetiredForGood`); the engine leaves the gate and an unload ends (`NobodyWaitsForEver`) |
| `bones` | `Bones.cfg` | do the slots and the engine's list agree, and is the list empty at the end? | yes (`ListAgrees`), and yes but for slots wanted again after their shutdown (`GoneBeforeTheImage`) |
| `ui_layer` | `UiLayer.cfg` | which pictures of the HUD are shown, and does a dead layer go away? | whole ones, unless the game laps the slot during the upload or two writers met (`ShownIsWhole`); whoever leaves a layer owes its retirement (`RetirementIsOwed`) |
| `input` | `SyntheticInput.cfg` | is a key down when it was asked to be? | yes, as the last call asked that was not turned away, but for a button that `release_all` let go, and as long as no other thread was at the same key or slot at the time (`TableAgrees`) |
| `pacing` | `Pacing.cfg` | is the game released at the right tick, and does the divisor settle? | after the divisor's ticks, unless the count started over (`WaitsForTheDivisor`); one divisor that suits the work, paced again after a silence (`Settles`) |

The violated run is a disagreement between the code and a comment of its own: the
`findings` of `PROJECT.json` quote both sides. Others of this kind are in section 5.
Several properties say under which circumstances they may fail: the history variables
`overlapped`, `lapped`, `raced`, `mixed`, `overtaken`, `late` and `lost` record exactly the
interleaving that is to blame, so that everything else is excluded. What they record is
not excluded by the properties: it is what the code does, and section 5 says so. Further
history variables say what a property compares with and excuse nothing: `beganReq` in
`FrameHandshake`, `named` and `cut` in `FrameSlots` (from `cut`, `mixed` follows), `asked`,
`pressed` and `before` in `SyntheticInput` (`before` keeps `mixed` for a call that is turned
away).

### 3.1 Bounds, and why they are enough

- `HapticDrain`: two producers (the two the mod has), a ring of 2 and tickets modulo 8,
  started at every index, so that the wrap falls into every step; 3 calls lap the ring.
  The proofs cover every even size, every multiple of it as modulus and any number of
  producers and fields.
- `FrameHandshake`: two frames' ids (what is told apart is this frame's and an older one),
  one reload and one end of the host, each at any step. A second reload starts from a
  block whose ids are among those the first can leave.
- `FrameHandshakeLive`: no reload, since a reload frees a blocked game; the host may die.
- `FrameSlots`: four frames over the three slots of the program: the fourth is the first
  to enter a slot that was used. One crash, between any two stores of `publish`, those of
  the fields of the header included; of these, `width`, `height`, `pitch`, `layout`
  and `host_sequence` are told apart (the host does not read `bytes` and `bgra`, and `flat`
  is not the frame's, see section 5).
- `PosePairing`: a history of two and three poses, so that an entry is overwritten while
  a frame that names it is under way; one publish of a period alone.
- `FrameCapture`: one slot held by another mod and one to take, which reaches the limit
  of the table as eight with six held would; three calls (start, stop and start again, or
  a shutdown after two); three frames, as the pipe holds two and one is published; the
  menu fallback after one present instead of its constant, which only makes it earlier.
- `Unload`: three hooks made, so that one comes from each of the frame, a mod's own start
  and a mod's `on_frame`, or two of them meet on a target; two clients, one of which may be
  the request to unload and the other may never send anything; one look of
  `prove_quiescent`, whose repetition changes nothing but the number of looks.
- `Bones`: two slots, of which slot 0 is the one the engine's list does not tell from the
  other; two nodes and two addresses, to move a callback and to replace the player's object
  by another one or by one at the same place; three requests (attach, move, detach).
- `UiLayer`: the two slots of the program; three layers, as the third is the first to come
  back to a slot and here also changes the size; one call of `set_enabled`, which can meet
  GamePass switching on by itself.
- `SyntheticInput`: two slots and two codes, a key and a mouse button (the base of the
  buttons is 2 here and 0x100 in the code, so that narrowing makes 0 of the button as it
  does of the first button in the code); three calls of three threads; taps of two frames,
  as the last one is treated apart.
- `Pacing`: the window, the largest divisor, the give-up and the overrun allowance of the
  program; the phase lock on or off from the start, and not switched in between; a period of
  1000 units; scenes that fit one period, two, and none of the
  divisors; one change of the scene, silence or torn read, since each of them starts a
  new history of windows; a section lost within a silence, with the counter at 12.

### 3.2 Fairness

- `HapticDrain`: the host's loop drains once per iteration and does not wait there (`WF`
  of `Drain`); a producer inside `queue_haptic` runs straight-line code (`WF` while it is
  inside, nothing forces a call).
- `FrameHandshake`: the game's thread runs (`WF`), so does the host's while its process
  lives (`WF`; its polls look for a request or give up). `post_and_wait` re-reads the
  clock in each turn of its poll, and a poll that keeps finding nothing reaches the limit:
  the limit is enabled again and again but not without interruption, hence `SF` of
  `Deadline` only. Nothing forces a crash, an exit or a restart.

- `Unload`: the supervisor runs (`WF`): each of its waits has a limit, which is one of its
  actions. So does the game's thread while it is inside the image (`WF`): a detour ends,
  nothing makes the engine call it. The server's thread runs (`WF`), but a client need not
  connect or send.
- `Pacing`: time passes (`WF` of the tick, the update, the end of rendering and the wait
  together). Nothing makes the host come back from a silence: `Settles` allows for it.

## 4. The proofs

Each theorem below is about `Spec` (`PacingSpec`, `InputSpec`), the specification without
fairness, and holds for every value of the constants that the named assumption of the module
allows. No bound of section 3.1 is left in it: ring sizes, histories, slots, hooks, lives, crashes
and calls are parameters. `Unload` is the exception in part: its two threads and five targets are
those of the code.

| module | property | theorem |
|---|---|---|
| `HapticDrain` | `TypeOK`, `NoTornPulse`, `EveryCallHasATicket`, `NothingUncounted`, `InOrderUnlessLapped` | `TypeCorrect`, `NeverTorn`, `OneTicketPerCall`, `Accounting`, `InOrder` |
| `FrameHandshake` | `TypeOK`, `EndsOnlyWhatBegan`, `InLockstepUntilDisturbed`, `InsideThePair`, `ImplementsFrameCalls` | `TypeCorrect`, `EndsBegun`, `NoneRefused`, `GameInsidePair`, `FrameCallsRefined` |
| `FrameSlots` | `TypeOK`, `OneFramePerSnapshot`, `TornOnlyWhenLapped`, `ImplementsMailbox` | `TypeCorrect`, `OneFrame`, `TornWhenLapped`, `MailboxRefined` |
| `PosePairing` | `TypeOK`, `NeverTorn`, `FramesAgree`, `LookupIsExact` | `TypeCorrect`, `Untorn`, `Agree`, `Exact` |
| `FrameCapture` | `TypeOK`, `GoneWhenRemoved`, `RingIsWhole`, `ReleasedForGood`, `PublishedInOrder` | `TypeCorrect`, `Gone`, `Whole`, `Released`, `InOrder` |
| `Unload` | `TypeOK`, `RetiredForGood` | `TypeCorrect`, `Retired` |
| `Bones` | `TypeOK`, `ListAgrees`, `GoneBeforeTheImage` | `TypeCorrect`, `Agree`, `GoneInTime` |
| `UiLayer` | `TypeOK`, `ShownIsWhole`, `RetirementIsOwed` | `TypeCorrect`, `ShownWhole`, `Owed` |
| `Pacing` | `PacingTypeOK`, `WaitsForTheDivisor` | `PacingTypeCorrect`, `PacedByTheDivisor` |
| `SyntheticInput` | `InputTypeOK`, `TableAgrees` | `InputTypeCorrect`, `TableAsAsked` |

With these every safety property that a run checks and finds true is proved. Four further
theorems state what no run lists, because it came up in the proofs: `ServerJoined`,
`FrameHookRetired` and `EngineStaysOut` about the unload (4.6), `WaitsAreLimited` about the
pacing (4.8).

Every proof has the same shape. `IInv`, at the head of the `_proofs` module (in
`HapticDrain` at the end of the model; `PacingInv` and `InputInv` for the second model of the
two modules that have one), is a conjunction of named parts; `InitInv` and
`NextInv` say that it holds at first and is kept by each step; `Invariance` is
`Spec => []IInv`, and the theorems follow from it. Each `IInv` was checked by TLC on the
configuration of the module before it was proved. Under `NextInv` lies one lemma per part of
`IInv` or per action. None of the properties but types is inductive by itself; what follows
is what had to be added to it and carries the argument.

### 4.1 Haptic ring

That a copy is whole depends on what the stamps meant while it was made.

1. `ProducerInv`: at most one caller, its ticket is the next one, and once its slot is
   marked the mark is the complement of its ticket until the payload is complete;
2. `SlotInv`: a slot stamped with a published ticket holds that ticket's pulse;
3. `CursorInv`: where cursor, snapshot and loop variable lie between the first index seen
   and the newest, within a ring's length, and what has been counted on the way;
4. `CopyInv`: as long as the stamp still is the expected ticket, what has been copied so
   far is that pulse. A producer that enters the slot breaks the premise with its mark
   before it touches the payload, so the host's second look at the stamp fails.

This rests on `InProgressIsNoTicket`: a complement never equals a ticket that lives in the
same slot, because the ring's size is even and the complement of `t` has the other parity.
With an odd ring the marker could be mistaken at the wrap; the program's size is a power of
two. `RingAssumption` asks for it, for a modulus of at least two rings and for fewer calls
than would bring a ticket back to a waiting host.

The action property `InOrderUnlessLapped` needs two more parts, `LInv` (`LastingStamps`):
`StampInv`, a published ticket keeps its stamp until the ticket a whole ring later is
claimed, which is `SlotsApart`, tickets less than a ring apart have different slots also
across the wrap; and `OrderInv`, the pulse fired last is behind the cursor.

### 4.2 Frame handshake

`HostInv` ties the host's place, the open frame, its owner and the request being answered
together; in `FirstLife` the ids of one life of the mod only grow and no answer is ahead of its
request. `EndsOnlyWhatBegan` needs more, since the answer to a BEGIN carries no id and is replaced
by the next answer of any stage. `BegunInv`: while the game waits for the answer to its BEGIN, an
answer in the block that says success is of a frame that was begun for this request, and whatever
the host may still say before the game has looked is a refusal; no END of this request can be
under way, because the game has not asked for one. `LookInv` is the seqlock's: a poll under an
even and unchanged `sequence` has the reply that stands. The two properties about an undisturbed
game need `InStep`, which lists which places of the game's thread and of the host's loop fit each
other. `FrameCallsRefined` takes each step of the loop, whatever the game, the limits, reloads and
deaths do, to a step of `FrameCalls` or to none.

### 4.3 Frame transport

`FieldsInv` says when the header describes the frame that named its slot: before a publish
has stored anything, unless a life has ended among the fields, and at any even sequence that
is not in `mixed`; while `publish` goes through the fields, those it has stored are the new
frame's (`Stored`). `HeaderInv` says what an even generation and an even sequence are worth:
the frame in the slot is whole, and it is the newest complete one. It holds also where the
fields are mixed, because the slot is stored last and the pixels after it: what a `close`
makes readable is the picture of before. `PollInv` says the same of what poll has
read while the sequence stands. `SnapInv` counts the lap: a committed slot is entered again
only after as many further frames as there are slots, which needs the distance from that
slot to the one the game is at (`Ahead`). `UploadInv` brings this to the end of the upload.
Slots may be any number from two.

### 4.4 Pose path

`CountInv`: `sequence` is twice the number of publishes of both kinds, which is what makes a
lookup by sequence and a miss by age computable. `PoseInv` and `ReadInv` are the seqlock's
two sides, `HistoryInv` says which entries of the ring survive for how long, `FrameInv` and
`DrawInv` carry the agreement of drawn pose, stated pose and sequence over the hops.

### 4.5 Frame capture

`DispatchInv` ties `in_flight` to the walk over the slots, `RingInv` is `RingIsWhole` for all
places behind the test of the pipe, `ReleaseInv` says how far `on_shutdown` is when the
release is asked for and granted. `OrderInv` is the order's: a readback that succeeded is of
the frame it is stamped with, and none in the pipe is older than what was published.

Proving it showed that `PublishedInOrder` had been stated too strongly: with a fourth call,
`set_stage` between the scene and the present of one frame lets both service it, and the
same frame goes out twice. It now says that no older frame follows a newer one.

### 4.6 Hooks and unload

`ListInv`: all hooks that were ever made, and that the adopted ones with those on their way
into the registry are as many. `CodeInv`: a target holds the engine's bytes or the jump of a
hook of its own that is enabled, unless two were stacked. `LateInv` is the heart: a hook that
is not late is owned by the registry, before the retirement only a hook on its way there is
late, and from the seal on there is at most one, that of the install that was past its test.
`RetireInv` follows `retire()` over the list; `StepInv` says what the shutdown has done by
each step, `FilterInv` the same of the crash filter, `BatchInv` which installs can be under
way. Together: after a successful `retire()` a hook that is still enabled is late, there is
one of that kind at most, and all other targets have their own bytes.

The proof needs at least one hook to speak of (`RegistryAssumption`): `RetiredForGood` names
the straggler among the possible ones.

Three theorems say what the rest of the unload relies on; `UnloadInv` adds two parts for them.

- `ServerJoined`. `ServerInv` follows the supervisor and the server's thread together: an
  unload is asked for only by a request that a running server handled, so `stop` always meets
  `g_running` set, takes the way that joins, and the registry is sealed after the join.
- `FrameHookRetired`. `RetiredForGood` allows a target hooked twice and one late hook, and a
  frame hook among them would be the worst: the game enters the image by it in every frame.
  `FrameBatchInv` and `FrameHookInv` exclude it: only the supervisor's first batch names the
  engine's update, it has one entry, and its hook is adopted before the mods are registered,
  long before a retirement can begin. So a `retire()` that succeeded has restored the update.
- `EngineStaysOut` follows as an action property: once the game's thread is back in the engine
  the frame detour does not take it into the image again. (What the detours of the other hooks
  execute is not modelled; one that is left by the exceptions above may still be entered.)

### 4.7 Bones and UI layer

`Bones`: `Agreed` relates a slot's memory to the engine's list at every place of `on_frame`,
including the two between a call of the engine and the note of it; `Withheld` is what the
shutdown of a slot achieves and keeps, for any number of slots shut down in order.

`UiLayer`: `WriterInv` says that a publication that no retirement has met has the section to
itself; `ReaderInv` and `HeldInv` carry this over poll, upload and swapchain; `RetireInv`
contains `RetirementIsOwed`, which is inductive with the render thread's half of it.

### 4.8 Pacing

`CountInv` is what `WaitsForTheDivisor` follows from: the ticks a wait has met are among those
counted since the last boundary, and no more than the divisor. It holds while the host's
counter goes up; `lost` remembers that it started over within a silence, after which
`host_frames() - m_last_tick_seen` is negative and a wait meets more ticks. `PatienceInv` says that
the pacer waits only while it has not given up.

`LimitInv` bounds a wait's time, which no unit test and no finite run bounds for every
period: each turn of the loop took an event, and an event is one left over from before the
wait or that of a tick that was met. Hence `WaitsAreLimited`: a wait takes one time limit per
tick it meets, and two more.

The constants are as the code has them or any others: a window, a largest divisor, a give-up,
a period and sets of costs that are not zero (`PacingAssumption`).

### 4.9 Game input

`InputInv` has, besides the types, `PlaceInv`, which call each thread is in by where it is, and
for each code `CodeInv`. The latter is about the codes that are not `mixed`: a code is mixed from
the moment that two threads are at it, or at its slot, together, until a call has it to itself
again. Nothing is promised for it meanwhile: the fields of `g_slots` are atomics, each for itself,
and no lock holds them together.

1. `Alone`: at most one call is at the code, and none while the poll is at its slot;
2. `One`: it has at most one slot;
3. `CallInv` and `PollInv`: what the call, or the poll, has read of the slot still holds at each
   of its steps, between the claim, the flag, the count of frames and the release;
4. `RestInv`: with nobody at it, the code has it as it was last asked, and it stays so while
   the next call has not found a slot, as it may be turned away (`before` says whether the code
   was mixed when that call came). For a tap this needs
   `Seen`: the device has shown it pressed, or frames are left to show it, or the key is in the
   incoming bank and the engine's poll, which shifts the banks, is still to come (`Past`).

`TableAgrees` is `One` and `RestInv` for the codes at rest. It does not say that a mouse button
which `release_all` let go is up: the code that it sends is another one. It is up after the route
`/input/release`, which clears the buttons; after an unload it may be down. The proof is for any
number of threads' calls, slots, codes and frames per tap; it uses of the codes only that they are
not 0 and finitely many, and of the base of the mouse buttons only that it is not 0.

### 4.10 What is only model-checked

- Liveness, which TLAPS does not reason about under fairness: `CatchesUp`, `GameComesBack`,
  `HostComesBack`, `NobodyWaitsForEver`, `Settles`.
- `NeverAFrameAhead` is violated: a run's result, and no theorem.

## 5. Observations without a run

Found while modelling. The first list contradicts a comment of the code, quoted or named; the
models show each of these by a step that the properties make an exception for, or leave
them out.

- Callback slots: `remove_present_callback` empties its slot, but `g_callback_count` is
  never lowered and `add` takes only the slot at the count. Six of the eight are held by
  other mods, so the third start of the readback fails with `m_continuous` set.
  `FrameCapture.cpp`: "RELEASING GIVES THE SLOT BACK".
- The layout of a published frame is computed at the lock, from `m_presents_since_service`,
  while its pixels are those of the frame before: at a change of menu and scene one frame
  has the wrong one ("So the tag follows the FRAME").
- `set_continuous(false)` clears `m_registered` and leaves the surfaces; `on_shutdown` then
  releases them on the unload thread ("Never registered means no other thread has ever
  touched these").
- `main.cpp:2655` reads `reader.layout()` live after the poll, not from the snapshot
  ("Commit the whole set together").
- The valid flag of `wire_head_pose` is never cleared: a frame that `late_latch_head`
  declined states the pose latched before ("THE POSE THE HOST SENT US, HANDED STRAIGHT
  BACK").
- `prove_quiescent` looks at instruction pointers: a thread that a detour has called out of
  the image, or that `frame_tick_detour` has put to sleep, is not inside and returns into
  unmapped memory (`Hooks.cpp:54`, "quiescence proves no thread is INSIDE the image").
- `UICapture::on_shutdown` retires the layer while the hooks still run ("RETIRE THE LAYER
  HERE ... The frame callbacks are retired before this runs"): a publication under way ends
  behind the retirement, or `on_pass` enables capture again. If the section is closed then,
  `present` stays 1.
- `set_enabled(false)` against `on_pass`, which has just tested `m_user_disabled`: capture is
  on again ("AN EXPLICIT OFF STAYS OFF").
- Pacing: after giving up, the legacy wait clears `m_consecutive_timeouts`, so that "A FRESH
  START AFTER SILENCE" is skipped and the old divisor and tick are inherited. A section
  lost and made anew starts the host's count over while `m_last_tick_seen` stays: the wait
  goes on until the old count is reached. A period read in the middle of a publish leaves
  that frame unpaced. All of this only when the pacing is switched on, which is not the
  default.
- `AgentRuntime.cpp:322` says that `initialize()` installs nothing before IPC is up. It hooks
  the frame and runs every `on_initialize`; if the server's thread cannot be made the hooks
  stay, and nothing can ask for an unload.
- `BoneControl`: the tag of slot 0 is NULL, which the engine's `Remove` takes for any
  (`BoneControl.cpp:48`), so that detaching slot 0 takes the other slot's cell on the same
  node. "THE CELL MUST COME OUT BEFORE THE IMAGE DOES" (211) fails when `on_frame` had read
  the wish before, or VR, which is shut down later, asks again. After a change of level a
  slot remains attached to the old object. `NodeControl.hpp`'s note on threads is not kept by
  `on_shutdown`.
- `FramePublisher::close` makes the sequence even, whatever a game that died left behind it
  (`FramePublisher.cpp:153`, "A reader that arrives after the mod unloads should see the last
  complete frame rather than a half-written one"). If it died among the stores of the header, the
  reader gets the last complete picture under fields of which some are the next frame's: its size,
  its layout, or the `host_sequence` that names its pose (`mixed` in `FrameSlots`). If it died at
  its first frame, the picture is a blank slot. The same comes of a `close` by the command thread
  while the render thread is among these stores, which is not modelled.
- `set_flat` writes `flat` through outside the sequence, for a game that has stopped
  publishing (`FramePublisher.cpp:188`). `poll` commits it with the rest ("so pose, sequence,
  flat flag and slot either all describe these pixels or none of them are touched"): the flag
  may be newer than the pixels. It is in no model.
- `SyntheticInput::release_all` narrows a code to eight bits: a held mouse button stays down
  (`SyntheticInput.hpp:62`, "uninjecting never leaves a key stuck down"; `"narrowed"` in
  `SyntheticInput`). The route `/input/release` clears the buttons, the unload does not. What the
  poll has sent down after another thread's release stays down, with no slot left to release it.
- `ResourceWatch` installs "ALL OR NOTHING", in a chain that stops at the first refusal: after
  a partial failure the first target is refused, being owned already, at every later try.
- `Mod.hpp:12` puts `on_initialize` before any `on_frame`. The frame hook is live before it.

The others contradict nothing that is written.

- An END that comes after the host's await ran out is refused, and the host then ends the
  open frame itself with a held picture, while the game still draws it. FRAME_LOOP.md's
  rules describe the END as the game's.
- `post_and_wait` reads `ack_phase` and `ack_id` and checks neither: it goes by
  `ack_slot[phase]`, and takes the status of whatever stage was acknowledged last.
- `poll` and `poll_ui` commit their snapshot before the upload; if the upload is skipped
  (nothing to render, no chain, no image) the picture held is submitted with the newer
  pose, and a layer remains unseen until the next publication.
- A publish of a new display period alone moves the pose sequence without an entry in
  `pose_history`. Frames stamped with it miss the lookup and fall back to quads (`bare` in
  `PosePairing`).
- A host killed inside a pose publish and started again may close that window with such a
  publish and hand out a pose of two halves.
- `update_camera_offset` (`VR.cpp:1478`) reads the position of HostState without its
  sequence, before the tick's ingest: rotation and position may be of two poses.
- `set_publishing(false)` unmaps the section on the command thread; a render thread past
  its tests copies into it (`PublishFaults`).
- If the drain of `remove_present_callback` runs out, the slot is already empty and
  `m_registered` still set: `on_present` does not run again.
- `set_continuous(false)` clears `m_pipe_primed` beside the render thread, which the
  header says alone guards it; the first picture of the next start may be an old one.
- With the stage at `Present`, frames of the menu are tagged side by side.
- Capture switched off inside a bracket leaves the engine's target borrowed until the next
  bracket or present; a game that crashes leaves `present` set.
- `install_mid` has no test for an owner. `FireRedirect` may install the same hooks twice at
  the start (supervisor and game); retired in the order they were adopted, the second
  leaves the target jumping into a detour that is gone (`Stacked` in `Unload`).
- Between patch and adoption of the frame hook `find()` returns null and the engine's own
  update is skipped; a pointer it has returned may be invalidated by the next adoption.
  The game walks `m_mods` while the supervisor appends to it.
- The vectored handler of the gate and the loader notification are not removed before the
  image is. A `reassert` of the crash filter between test and store undoes `remove`.
- `stop` and `server_loop` may both close the listening socket. `CommandServer::start` is
  successful before the port is bound.
- `hold` on a full table is dropped in silence, while `VR::m_held_keys` goes on; a stick moved
  after `release_all` holds a key again during the unload; `set_trigger_enabled` releases the
  sprint key only if it is firing; a tap is lost when the slot is seen before its frames are stored.
- Two threads that queue a command of `ConsoleRunner` may pick the same entry (line 61).
- Watchpoints: the known thread is one per thread and not per slot; a trap delivered after
  the handler is removed is nobody's; disarming by itself may hit a newer watch.
- Host: `xrBeginSession` that fails is not tried again; EVENTS_LOST is ignored; every early
  return of `main` leaves its log thread joinable, which ends the process by
  `std::terminate`.

## 6. Plan

Modelled and proved as far as sections 2 to 4 say. What would be worth adding next:

| about | to prove or to model |
|---|---|
| `Unload` | what the detours of the hooks that `RetiredForGood` excepts execute, to extend `EngineStaysOut` to them |
| `HookRegistry` | several mods that install, instead of the two that do it from `on_frame` |

## 7. Not modelled

- `ConsoleRunner`, `Watchpoints` and the other queues between two threads: one hazard each,
  a pair of threads at one entry, stated above.
- Host session, controllers and menu button: one thread that follows one event, or one
  value, after another. The log ring: one producer and one consumer under counted drops,
  and nothing depends on a line.
- A reload that joins the injector, the old image and the new one: its effect on the blocks
  of the section is in `FrameHandshake` (`Reload`) and `FrameSlots`, its end in `Unload`.
- What is computed rather than exchanged: JSON diagnostics (the bulk of `Framework.cpp`),
  engine readers (`shared/sdk/`, most of the lines of the repository), quaternions and
  matrices, the settings panel, the injector's process launch, tools and tests. They read,
  format or compute, keep no state between calls and have no steps to interleave.
