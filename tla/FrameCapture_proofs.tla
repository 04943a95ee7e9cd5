-------------------------- MODULE FrameCapture_proofs --------------------------
(***************************************************************************)
(* Proofs about the readback that feeds the host, for any number of slots, *)
(* frames, calls of the command thread, and presents before the fallback.  *)
(***************************************************************************)
EXTENDS FrameCapture, TLAPS

-----------------------------------------------------------------------------
(* The inductive invariant *)

\* The dispatch counts as in flight as long as a slot is walked or a callback runs, and
\* the callback that counts as removed is neither held nor running.
DispatchInv ==
  /\ rpc = "slots" \/ InCallback => in_flight = 1
  /\ cpc = "drain" => slots = {}
  /\ GoneWhenRemoved

\* Inside a service that has passed the test of the pipe both surfaces exist, and the
\* section goes with them when they are torn down under it.
RingInv ==
  rpc \in {"issue", "lock", "publish", "finish"} /\ (mapped \/ cpc # "done") =>
    \A s \in Both : pipe[s] # NoSurface

\* After on_shutdown nothing is switched on again; the release is asked for once, and what
\* the render thread has released it does not touch again.
ReleaseInv ==
  /\ call = "shutdown" => cpc \in {"ask", "wait", "remove", "drain", "release", "done"} /\ ~continuous
  /\ cpc \in {"ask", "wait", "release", "done"} => call = "shutdown"
  /\ release_requested => cpc = "wait"
  /\ cpc = "ask" => ~released
  /\ released =>
       /\ call = "shutdown" /\ cpc # "release"
       /\ pipe = All(NoSurface) /\ ~mapped /\ ~publishing
       /\ rpc \notin {"issue", "lock", "publish", "finish"}

Good(s) == pipe_ok[s] /\ pipe[s] # NoSurface

\* A readback that succeeded is of the frame it is stamped with, which is none that is
\* older than the one published last; the one just issued is the frame being drawn.
OrderInv ==
  /\ published.frame \in 0 .. frame
  /\ \A s \in Both :
       Good(s) => /\ pipe_seq[s] = pipe[s].frame
                  /\ published.frame <= pipe[s].frame /\ pipe[s].frame <= frame
  /\ rpc \in {"lock", "publish"} /\ Good(issue) => pipe[issue].frame = frame
  /\ rpc = "publish" => pipe_ok[ready]

IInv ==
  /\ TypeOK
  /\ DispatchInv
  /\ RingInv
  /\ ReleaseInv
  /\ OrderInv

-----------------------------------------------------------------------------
(* Types *)

LEMMA Bounds ==
  /\ kMaxCallbacks \in Nat /\ Others \in Nat /\ kMenuFallbackPresents \in Nat /\ MaxFrames \in Nat /\ MaxCalls \in Nat
  /\ Others < kMaxCallbacks /\ kMenuFallbackPresents > 0
  BY CaptureAssumption

LEMMA Fields ==
  ASSUME TypeOK
  PROVE  /\ slots \subseteq 1 .. kMaxCallbacks /\ count \in Others .. kMaxCallbacks /\ count \in Nat
         /\ registered \in BOOLEAN /\ calls \in 0 .. MaxCalls
         /\ i \in 0 .. kMaxCallbacks + 1 /\ n \in 0 .. kMaxCallbacks
         /\ frame \in 0 .. MaxFrames /\ presents_since_service \in 0 .. kMenuFallbackPresents + 1
         /\ pipe \in [Both -> Surfaces] /\ pipe_ok \in [Both -> BOOLEAN]
         /\ pipe_seq \in [Both -> 0 .. MaxFrames] /\ issue \in Both /\ kind \in Kinds
<1>1. /\ slots \subseteq 1 .. kMaxCallbacks /\ count \in Others .. kMaxCallbacks /\ calls \in 0 .. MaxCalls
      /\ i \in 0 .. kMaxCallbacks + 1 /\ n \in 0 .. kMaxCallbacks
      /\ frame \in 0 .. MaxFrames /\ presents_since_service \in 0 .. kMenuFallbackPresents + 1
  BY DEF TypeOK
<1>2. /\ pipe \in [Both -> Surfaces] /\ pipe_ok \in [Both -> BOOLEAN]
      /\ pipe_seq \in [Both -> 0 .. MaxFrames] /\ issue \in Both /\ kind \in Kinds
  BY DEF TypeOK
<1>3. registered \in BOOLEAN
  BY DEF TypeOK
<1>4. count \in Nat
  BY <1>1, Bounds
<1>5. QED
  BY <1>1, <1>2, <1>3, <1>4

LEMMA RegistryTypes ==
  ASSUME TypeOK, Next
  PROVE  /\ slots' \subseteq 1 .. kMaxCallbacks /\ count' \in Others .. kMaxCallbacks
         /\ registered' \in BOOLEAN /\ calls' \in 0 .. MaxCalls
<1>1. /\ slots \subseteq 1 .. kMaxCallbacks /\ count \in Others .. kMaxCallbacks /\ count \in Nat
      /\ registered \in BOOLEAN /\ calls \in 0 .. MaxCalls
  BY Fields
<1>2. CASE Register
  <2>1. /\ \/ count < kMaxCallbacks /\ slots' = slots \cup {count + 1} /\ count' = count + 1 /\ registered' = TRUE
           \/ UNCHANGED <<slots, count, registered>>
        /\ calls' = calls
    BY <1>2 DEF Register, RegisterIf, hook
  <2>2. count < kMaxCallbacks => count + 1 \in 1 .. kMaxCallbacks /\ count + 1 \in Others .. kMaxCallbacks
    BY <1>1, Bounds
  <2>3. QED
    BY <1>1, <2>1, <2>2
<1>3. CASE ~Register
  <2>1. /\ slots' \in {slots, {}} /\ count' = count /\ registered' \in {registered, FALSE}
        /\ calls' = calls \/ (calls < MaxCalls /\ calls' = calls + 1)
    BY <1>3 DEF Next, Command, set_publishing_on, set_publishing_off, CloseSection, Enable, Apply,
       StartPublishing, set_continuous_off, StopContinuous, request_resource_drop, set_stage, remove_present_callback,
       Drain, on_shutdown, ReleaseHere, AskForRelease, StopWaiting, Call, hook, registry, control,
       Render, DrawFrame, present_detour, NextSlot, Presented, ReleaseOnPresent, on_present, DeviceLost, StagePresent,
       NotServiced, KeepPipe, AllocationFails, AllocatePipe, Allocate, Issue, IssueIsMissing, LockForPublish,
       NothingToPublish, Publish, PublishFaults, Finish, service, others, LoseOrReset
  <2>2. calls < MaxCalls => calls + 1 \in 0 .. MaxCalls
    BY <1>1, Bounds
  <2>3. QED
    BY <1>1, <2>1, <2>2
<1>4. QED
  BY <1>2, <1>3

LEMMA PlaceTypes ==
  ASSUME TypeOK, Next
  PROVE  /\ cpc' \in {"ready", "register", "apply", "publish", "close", "stop", "remove", "drain", "ask", "wait",
                      "release", "done"}
         /\ call' \in {"none", "publish", "close", "continue", "capture", "stop", "drop", "stage", "shutdown"}
         /\ rpc' \in {"engine", "dispatch", "slots", "present", "device", "service", "issue", "lock", "publish",
                      "finish", "one shot", "fault"}
         /\ stage' \in {"Present", "AfterSecondEye"}
         /\ caller' \in {"none", "scene", "present", "fallback"}
<1>1. CASE Command
  <2>1. /\ cpc' \in {"ready", "register", "apply", "publish", "close", "stop", "remove", "drain", "ask", "wait",
                     "release", "done"}
    BY <1>1 DEF Command, CStep, AfterRemove, set_publishing_on, set_publishing_off, CloseSection, Enable, Register, RegisterIf, Apply,
       StartPublishing, set_continuous_off, StopContinuous, request_resource_drop, set_stage, remove_present_callback,
       Drain, on_shutdown, ReleaseHere, AskForRelease, StopWaiting
  <2>2. \/ call' = call
        \/ call' \in {"publish", "close", "continue", "capture", "stop", "drop", "stage", "shutdown"}
    BY <1>1 DEF Command, Call, control, set_publishing_on, set_publishing_off, CloseSection, Enable, Register, RegisterIf, Apply,
       StartPublishing, set_continuous_off, StopContinuous, request_resource_drop, set_stage, remove_present_callback,
       Drain, on_shutdown, ReleaseHere, AskForRelease, StopWaiting
  <2>3. /\ UNCHANGED <<rpc, caller>>
        /\ stage' = stage \/ stage' \in {"Present", "AfterSecondEye"}
    BY <1>1 DEF Command, render, registry, loop, set_publishing_on, set_publishing_off, CloseSection, Enable, Register, RegisterIf, Apply,
       StartPublishing, set_continuous_off, StopContinuous, request_resource_drop, set_stage, remove_present_callback,
       Drain, on_shutdown, ReleaseHere, AskForRelease, StopWaiting
  <2>4. QED
    BY <2>1, <2>2, <2>3 DEF TypeOK
<1>2. CASE Render
  <2>1. UNCHANGED <<cpc, call, stage>>
    BY <1>2 DEF Render, others, control, registry, DrawFrame, present_detour, NextSlot, Presented, ReleaseOnPresent, on_present, DeviceLost,
       StagePresent, NotServiced, KeepPipe, AllocationFails, AllocatePipe, Allocate, Issue, IssueIsMissing,
       LockForPublish, NothingToPublish, Publish, PublishFaults, Finish, service
  <2>2. rpc' \in {"engine", "dispatch", "slots", "present", "device", "service", "issue", "lock", "publish",
                  "finish", "one shot", "fault"}
    BY <1>2 DEF Render, RStep, DrawFrame, present_detour, NextSlot, Presented, ReleaseOnPresent, on_present, DeviceLost,
       StagePresent, NotServiced, KeepPipe, AllocationFails, AllocatePipe, Allocate, Issue, IssueIsMissing,
       LockForPublish, NothingToPublish, Publish, PublishFaults, Finish, service
  <2>3. caller' = caller \/ caller' \in {"none", "scene", "present", "fallback"}
    BY <1>2 DEF Render, others, loop, DrawFrame, present_detour, NextSlot, Presented, ReleaseOnPresent, on_present, DeviceLost,
       StagePresent, NotServiced, KeepPipe, AllocationFails, AllocatePipe, Allocate, Issue, IssueIsMissing,
       LockForPublish, NothingToPublish, Publish, PublishFaults, Finish, service
  <2>4. QED
    BY <2>1, <2>2, <2>3 DEF TypeOK
<1>3. CASE LoseOrReset
  <2>1. cpc' = cpc /\ call' = call /\ rpc' = rpc /\ stage' = stage /\ caller' = caller
    BY <1>3 DEF LoseOrReset, control, registry, loop
  <2>2. cpc' \in {"ready", "register", "apply", "publish", "close", "stop", "remove", "drain", "ask", "wait",
                "release", "done"}
    BY <2>1 DEF TypeOK
  <2>3. call' \in {"none", "publish", "close", "continue", "capture", "stop", "drop", "stage", "shutdown"}
    BY <2>1 DEF TypeOK
  <2>4. rpc' \in {"engine", "dispatch", "slots", "present", "device", "service", "issue", "lock", "publish",
                "finish", "one shot", "fault"}
    BY <2>1 DEF TypeOK
  <2>5. stage' \in {"Present", "AfterSecondEye"} /\ caller' \in {"none", "scene", "present", "fallback"}
    BY <2>1 DEF TypeOK
  <2>6. QED
    BY <2>2, <2>3, <2>4, <2>5
<1>4. QED
  BY <1>1, <1>2, <1>3 DEF Next

LEMMA FlagTypes ==
  ASSUME TypeOK, Next
  PROVE  /\ pending' \in BOOLEAN /\ continuous' \in BOOLEAN /\ publishing' \in BOOLEAN /\ drop_requested' \in BOOLEAN
         /\ release_requested' \in BOOLEAN /\ released' \in BOOLEAN /\ mapped' \in BOOLEAN
         /\ lost' \in BOOLEAN /\ device_is_lost' \in BOOLEAN /\ primed' \in BOOLEAN
<1>0. /\ pending \in BOOLEAN /\ continuous \in BOOLEAN /\ publishing \in BOOLEAN /\ drop_requested \in BOOLEAN
      /\ release_requested \in BOOLEAN /\ released \in BOOLEAN /\ mapped \in BOOLEAN
      /\ lost \in BOOLEAN /\ device_is_lost \in BOOLEAN /\ primed \in BOOLEAN
  BY DEF TypeOK
<1>1. CASE Command
  <2>1. /\ pending' \in {pending, TRUE, FALSE} /\ drop_requested' \in {drop_requested, TRUE}
        /\ release_requested' \in {release_requested, TRUE, FALSE} /\ released' \in {released, FALSE}
    BY <1>1 DEF Command, asks, set_publishing_on, set_publishing_off, CloseSection, Enable, Register, RegisterIf, Apply,
       StartPublishing, set_continuous_off, StopContinuous, request_resource_drop, set_stage, remove_present_callback,
       Drain, on_shutdown, ReleaseHere, AskForRelease, StopWaiting
  <2>2. /\ continuous' \in {continuous, TRUE, FALSE} /\ publishing' \in {publishing, TRUE, FALSE}
        /\ mapped' \in {mapped, TRUE, FALSE}
    BY <1>1 DEF Command, release_surfaces, set_publishing_on, set_publishing_off, CloseSection, Enable, Register, RegisterIf, Apply,
       StartPublishing, set_continuous_off, StopContinuous, request_resource_drop, set_stage, remove_present_callback,
       Drain, on_shutdown, ReleaseHere, AskForRelease, StopWaiting
  <2>3. UNCHANGED <<lost, device_is_lost>> /\ primed' \in {primed, FALSE}
    BY <1>1 DEF Command, render, device, ring, release_surfaces, free_device_resources, set_publishing_on, set_publishing_off, CloseSection, Enable, Register, RegisterIf, Apply,
       StartPublishing, set_continuous_off, StopContinuous, request_resource_drop, set_stage, remove_present_callback,
       Drain, on_shutdown, ReleaseHere, AskForRelease, StopWaiting
  <2>4. pending' \in BOOLEAN /\ drop_requested' \in BOOLEAN
    BY <1>0, <2>1
  <2>5. release_requested' \in BOOLEAN /\ released' \in BOOLEAN
    BY <1>0, <2>1
  <2>6. continuous' \in BOOLEAN /\ publishing' \in BOOLEAN /\ mapped' \in BOOLEAN
    BY <1>0, <2>2
  <2>7. lost' \in BOOLEAN /\ device_is_lost' \in BOOLEAN /\ primed' \in BOOLEAN
    BY <1>0, <2>3
  <2>8. QED
    BY <2>4, <2>5, <2>6, <2>7
<1>2. CASE Render
  <2>1. /\ pending' \in {pending, FALSE} /\ drop_requested' \in {drop_requested, FALSE}
        /\ release_requested' = release_requested /\ released' \in {released, TRUE}
    BY <1>2 DEF Render, others, asks, DrawFrame, present_detour, NextSlot, Presented, ReleaseOnPresent, on_present, DeviceLost,
       StagePresent, NotServiced, KeepPipe, AllocationFails, AllocatePipe, Allocate, Issue, IssueIsMissing,
       LockForPublish, NothingToPublish, Publish, PublishFaults, Finish, service
  <2>2. /\ continuous' = continuous /\ publishing' \in {publishing, FALSE} /\ mapped' \in {mapped, FALSE}
    BY <1>2 DEF Render, others, release_surfaces, DrawFrame, present_detour, NextSlot, Presented, ReleaseOnPresent, on_present, DeviceLost,
       StagePresent, NotServiced, KeepPipe, AllocationFails, AllocatePipe, Allocate, Issue, IssueIsMissing,
       LockForPublish, NothingToPublish, Publish, PublishFaults, Finish, service
  <2>3. /\ lost' = lost /\ device_is_lost' \in {device_is_lost, TRUE, FALSE} /\ primed' \in {primed, TRUE, FALSE}
    BY <1>2 DEF Render, others, device, ring, release_surfaces, free_device_resources, DrawFrame, present_detour, NextSlot, Presented, ReleaseOnPresent, on_present, DeviceLost,
       StagePresent, NotServiced, KeepPipe, AllocationFails, AllocatePipe, Allocate, Issue, IssueIsMissing,
       LockForPublish, NothingToPublish, Publish, PublishFaults, Finish, service
  <2>4. pending' \in BOOLEAN /\ drop_requested' \in BOOLEAN
    BY <1>0, <2>1
  <2>5. release_requested' \in BOOLEAN /\ released' \in BOOLEAN
    BY <1>0, <2>1
  <2>6. continuous' \in BOOLEAN /\ publishing' \in BOOLEAN /\ mapped' \in BOOLEAN
    BY <1>0, <2>2
  <2>7. lost' \in BOOLEAN /\ device_is_lost' \in BOOLEAN /\ primed' \in BOOLEAN
    BY <1>0, <2>3
  <2>8. QED
    BY <2>4, <2>5, <2>6, <2>7
<1>3. CASE LoseOrReset
  BY <1>0, <1>3 DEF LoseOrReset, asks, ring
<1>4. QED
  BY <1>1, <1>2, <1>3 DEF Next

LEMMA WalkTypes ==
  ASSUME TypeOK, Next
  PROVE  /\ in_flight' \in {0, 1} /\ i' \in 0 .. kMaxCallbacks + 1 /\ n' \in 0 .. kMaxCallbacks
         /\ frame' \in 0 .. MaxFrames /\ kind' \in Kinds
         /\ presents_since_service' \in 0 .. kMenuFallbackPresents + 1
<1>0. /\ in_flight \in {0, 1} /\ i \in 0 .. kMaxCallbacks + 1 /\ n \in 0 .. kMaxCallbacks
      /\ frame \in 0 .. MaxFrames /\ kind \in Kinds /\ presents_since_service \in 0 .. kMenuFallbackPresents + 1
  BY DEF TypeOK
<1>1. CASE DrawFrame
  <2>1. /\ frame < MaxFrames /\ frame' = frame + 1 /\ kind' \in Kinds /\ UNCHANGED <<in_flight, i, n>>
        /\ presents_since_service' \in {0, presents_since_service}
    BY <1>1 DEF DrawFrame
  <2>2. QED
    BY <1>0, <2>1, Bounds
<1>2. CASE present_detour
  <2>1. in_flight' = 1 /\ n' = count /\ i' = Others + 1 /\ UNCHANGED <<frame, kind, presents_since_service>>
    BY <1>2 DEF present_detour, drawing
  <2>2. QED
    BY <1>0, <2>1, Bounds, Fields
<1>3. CASE NextSlot
  <2>1. i <= n /\ i' = i + 1 /\ UNCHANGED <<in_flight, n, frame, kind, presents_since_service>>
    BY <1>3 DEF NextSlot, drawing
  <2>2. QED
    BY <1>0, <2>1, Bounds
<1>4. CASE Presented
  <2>1. in_flight' = 0 /\ n' = 0 /\ i' = 0 /\ UNCHANGED <<frame, kind, presents_since_service>>
    BY <1>4 DEF Presented, drawing
  <2>2. QED
    BY <1>0, <2>1, Bounds
<1>5. CASE StagePresent
  <2>1. /\ UNCHANGED <<in_flight, i, n, frame, kind>>
        /\ \/ presents_since_service' = presents_since_service
           \/ ~(presents_since_service > kMenuFallbackPresents) /\ presents_since_service' = presents_since_service + 1
    BY <1>5 DEF StagePresent
  <2>2. QED
    BY <1>0, <2>1, Bounds
<1>6. CASE ~(DrawFrame \/ present_detour \/ NextSlot \/ Presented \/ StagePresent)
  <2>1. UNCHANGED <<in_flight, i, n, frame, kind, presents_since_service>>
    BY <1>6 DEF Next, Command, set_publishing_on, set_publishing_off, CloseSection, Enable, Register, RegisterIf, Apply,
       StartPublishing, set_continuous_off, StopContinuous, request_resource_drop, set_stage, remove_present_callback,
       Drain, on_shutdown, ReleaseHere, AskForRelease, StopWaiting, render, loop, drawing,
       Render, ReleaseOnPresent, on_present, DeviceLost, NotServiced, KeepPipe, AllocationFails, AllocatePipe, Allocate,
       Issue, IssueIsMissing, LockForPublish, NothingToPublish, Publish, PublishFaults, Finish, service, others, LoseOrReset
  <2>2. QED
    BY <1>0, <2>1
<1>7. QED
  BY <1>1, <1>2, <1>3, <1>4, <1>5, <1>6

\* What can become of the pipe in one step.
LEMMA PipeSteps ==
  ASSUME Next
  PROVE  \/ UNCHANGED <<pipe, pipe_ok, pipe_seq, issue>>
         \/ pipe' = All(NoSurface) /\ UNCHANGED <<pipe_ok, pipe_seq, issue>>
         \/ AllocationFails \/ AllocatePipe \/ Issue \/ Finish
  BY DEF Next, Command, set_publishing_on, set_publishing_off, CloseSection, Enable, Register, RegisterIf, Apply,
     StartPublishing, set_continuous_off, StopContinuous, request_resource_drop, set_stage, remove_present_callback,
     Drain, on_shutdown, ReleaseHere, AskForRelease, StopWaiting, ring, release_surfaces, free_device_resources,
     Render, DrawFrame, present_detour, NextSlot, Presented, ReleaseOnPresent, on_present, DeviceLost, StagePresent,
     NotServiced, KeepPipe, IssueIsMissing, LockForPublish, NothingToPublish, Publish, PublishFaults, service, LoseOrReset

LEMMA SurfaceTypes ==
  /\ NoSurface \in Surfaces /\ Fresh \in Surfaces /\ Fresh # NoSurface /\ 0 \in 0 .. MaxFrames
  /\ All(NoSurface) \in [Both -> Surfaces] /\ All(Fresh) \in [Both -> Surfaces]
  /\ \A s \in Both : All(NoSurface)[s] = NoSurface /\ All(Fresh)[s] = Fresh /\ ~All(FALSE)[s]
<1>1. NoSurface \in Surfaces /\ Fresh \in Surfaces /\ 0 \in 0 .. MaxFrames
  BY Bounds DEF NoSurface, Fresh, Surfaces, Kinds
<1>2. Fresh # NoSurface
  <2>1. Fresh.frame # NoSurface.frame
    BY DEF Fresh, NoSurface
  <2>2. QED
    BY <2>1
<1>3. QED
  BY <1>1, <1>2 DEF All

LEMMA RingTypes ==
  ASSUME TypeOK, Next
  PROVE  /\ pipe' \in [Both -> Surfaces] /\ pipe_ok' \in [Both -> BOOLEAN]
         /\ pipe_seq' \in [Both -> 0 .. MaxFrames] /\ issue' \in Both
<1>1. CASE UNCHANGED <<pipe, pipe_ok, pipe_seq, issue>>
  BY <1>1, Fields
<1>2. CASE pipe' = All(NoSurface) /\ UNCHANGED <<pipe_ok, pipe_seq, issue>>
  BY <1>2, Fields, SurfaceTypes
<1>3. CASE AllocationFails \/ AllocatePipe
  <2>1. pipe' \in {All(NoSurface), All(Fresh)} /\ pipe_ok' = All(FALSE) /\ pipe_seq' = All(0) /\ issue' = issue
    BY <1>3 DEF AllocationFails, AllocatePipe, Allocate
  <2>2. All(FALSE) \in [Both -> BOOLEAN] /\ All(0) \in [Both -> 0 .. MaxFrames]
    BY SurfaceTypes DEF All
  <2>3. QED
    BY <2>1, <2>2, Fields, SurfaceTypes
<1>4. CASE Issue
  <2>1. /\ pipe' \in {pipe, [pipe EXCEPT ![issue] = [frame |-> frame, kind |-> kind]]}
        /\ pipe_ok' \in {[pipe_ok EXCEPT ![issue] = TRUE], [pipe_ok EXCEPT ![issue] = FALSE]}
        /\ pipe_seq' = [pipe_seq EXCEPT ![issue] = frame] /\ issue' = issue
    BY <1>4 DEF Issue
  <2>2. [frame |-> frame, kind |-> kind] \in Surfaces
    BY Fields, Bounds DEF Surfaces
  <2>3. pipe' \in [Both -> Surfaces]
    BY <2>1, <2>2, Fields
  <2>4. pipe_ok' \in [Both -> BOOLEAN] /\ pipe_seq' \in [Both -> 0 .. MaxFrames]
    BY <2>1, Fields
  <2>5. QED
    BY <2>1, <2>3, <2>4, Fields
<1>5. CASE Finish
  <2>1. issue' = 1 - issue /\ UNCHANGED <<pipe, pipe_ok, pipe_seq>>
    BY <1>5 DEF Finish, ready
  <2>2. QED
    BY <2>1, Fields DEF Both
<1>6. QED
  BY <1>1, <1>2, <1>3, <1>4, <1>5, PipeSteps

LEMMA Types ==
  ASSUME TypeOK, Next
  PROVE  TypeOK'
<1>1. {registered', pending', continuous', publishing', drop_requested', release_requested', released',
       mapped', lost', device_is_lost', primed'} \subseteq BOOLEAN
  <2>1. registered' \in BOOLEAN
    BY RegistryTypes
  <2>2. QED
    BY <2>1, FlagTypes
<1>2. /\ slots' \subseteq 1 .. kMaxCallbacks /\ count' \in Others .. kMaxCallbacks /\ calls' \in 0 .. MaxCalls
  BY RegistryTypes
<1>3. QED
  BY <1>1, <1>2, PlaceTypes, WalkTypes, RingTypes DEF TypeOK


-----------------------------------------------------------------------------
(* The dispatch and the slots *)

\* What can become of the render thread's place in one step.
LEMMA PlaceSteps ==
  ASSUME Next
  PROVE  \/ UNCHANGED <<rpc, caller, in_flight>>
         \/ DrawFrame \/ present_detour \/ NextSlot \/ Presented \/ StagePresent
         \/ /\ InCallback /\ ~Servicing /\ rpc' \in {"slots", "device"} /\ UNCHANGED <<caller, in_flight>>
         \/ /\ Servicing /\ rpc' \in {"issue", "lock", "publish", "finish", "one shot", "fault"}
            /\ UNCHANGED <<caller, in_flight>>
         \/ service
  BY DEF Next, Command, set_publishing_on, set_publishing_off, CloseSection, Enable, Register, RegisterIf, Apply,
     StartPublishing, set_continuous_off, StopContinuous, request_resource_drop, set_stage, remove_present_callback,
     Drain, on_shutdown, ReleaseHere, AskForRelease, StopWaiting, render, loop, others, RStep,
     Render, ReleaseOnPresent, on_present, DeviceLost, NotServiced, KeepPipe, AllocationFails, AllocatePipe, Allocate,
     Issue, IssueIsMissing, LockForPublish, NothingToPublish, Publish, PublishFaults, Finish, LoseOrReset,
     InCallback, Servicing

\* What can become of the slots in one step.
LEMMA SlotSteps ==
  ASSUME Next
  PROVE  \/ UNCHANGED <<slots, registered>> /\ (UNCHANGED cpc \/ cpc' # "drain")
         \/ /\ cpc = "register" /\ cpc' # "drain" /\ registered' = TRUE /\ UNCHANGED <<rpc, caller, in_flight>>
         \/ remove_present_callback \/ Drain
<1>1. CASE Command
  BY <1>1 DEF Command, set_publishing_on, set_publishing_off, CloseSection, Enable, Register, RegisterIf, Apply,
     StartPublishing, set_continuous_off, StopContinuous, request_resource_drop, set_stage, on_shutdown, ReleaseHere,
     AskForRelease, StopWaiting, CStep, hook, registry, render, loop
<1>2. CASE Render \/ LoseOrReset
  BY <1>2 DEF Render, DrawFrame, present_detour, NextSlot, Presented, ReleaseOnPresent, on_present, DeviceLost,
     StagePresent, NotServiced, KeepPipe, AllocationFails, AllocatePipe, Allocate, Issue, IssueIsMissing,
     LockForPublish, NothingToPublish, Publish, PublishFaults, Finish, service, LoseOrReset, others, hook, registry, control
<1>3. QED
  BY <1>1, <1>2 DEF Next

\* A callback is entered from a slot that holds it, and from nowhere else.
LEMMA Entering ==
  ASSUME Next, InCallback'
  PROVE  \/ InCallback /\ UNCHANGED in_flight
         \/ rpc = "slots" /\ i \in slots /\ UNCHANGED in_flight
<1>1. CASE UNCHANGED <<rpc, caller, in_flight>>
  BY <1>1 DEF InCallback, Servicing
<1>2. CASE DrawFrame
  BY <1>2 DEF DrawFrame, RStep, InCallback, Servicing
<1>3. CASE present_detour \/ Presented
  BY <1>3 DEF present_detour, Presented, RStep, InCallback, Servicing
<1>4. CASE NextSlot
  BY <1>4 DEF NextSlot, RStep, InCallback, Servicing
<1>5. CASE StagePresent
  BY <1>5 DEF StagePresent, InCallback
<1>6. CASE InCallback /\ UNCHANGED in_flight
  BY <1>6
<1>7. CASE Servicing /\ UNCHANGED <<caller, in_flight>> /\ rpc' \in {"issue", "lock", "publish", "finish", "one shot", "fault"}
  BY <1>7 DEF InCallback, Servicing
<1>8. CASE service
  BY <1>8 DEF service, RStep, InCallback, Servicing
<1>9. QED
  BY <1>1, <1>2, <1>3, <1>4, <1>5, <1>6, <1>7, <1>8, PlaceSteps

LEMMA DispatchStep ==
  ASSUME IInv, Next
  PROVE  DispatchInv'
<1> USE DEF IInv, DispatchInv
<1>1. rpc' = "slots" => in_flight' = 1
  <2>1. CASE UNCHANGED <<rpc, caller, in_flight>>
    BY <2>1
  <2>2. CASE DrawFrame
    BY <2>2 DEF DrawFrame, RStep
  <2>3. CASE present_detour \/ Presented
    BY <2>3 DEF present_detour, Presented, RStep
  <2>4. CASE NextSlot
    BY <2>4 DEF NextSlot, RStep
  <2>5. CASE StagePresent
    BY <2>5 DEF StagePresent, InCallback
  <2>6. CASE InCallback /\ UNCHANGED in_flight
    BY <2>6
  <2>7. CASE rpc' \in {"issue", "lock", "publish", "finish", "one shot", "fault"}
    BY <2>7
  <2>8. CASE service
    BY <2>8 DEF service, RStep, InCallback, Servicing, loop
  <2>9. QED
    BY <2>1, <2>2, <2>3, <2>4, <2>5, <2>6, <2>7, <2>8, PlaceSteps
<1>2. InCallback' => in_flight' = 1
  BY Entering
<1>3. cpc' = "drain" => slots' = {}
  BY SlotSteps DEF remove_present_callback, Drain, CStep, hook, AfterRemove
<1>4. ASSUME ~registered'
      PROVE  slots' = {} /\ ~InCallback'
  <2>1. CASE UNCHANGED <<slots, registered>>
    BY <1>4, <2>1, Entering DEF GoneWhenRemoved
  <2>2. CASE registered' = TRUE
    BY <1>4, <2>2
  <2>3. CASE remove_present_callback
    <3>1. slots' = {} /\ registered' = registered /\ rpc' = rpc /\ caller' = caller
      BY <2>3 DEF remove_present_callback, registry, render, loop
    <3>2. QED
      BY <1>4, <3>1 DEF GoneWhenRemoved, InCallback, Servicing
  <2>4. CASE Drain
    <3>1. /\ cpc = "drain" /\ slots' = slots /\ rpc' = rpc /\ caller' = caller
          /\ in_flight = 0 \/ registered' = registered
      BY <2>4 DEF Drain, CStep, hook, render, loop
    <3>2. ~InCallback
      BY <1>4, <3>1 DEF GoneWhenRemoved
    <3>3. QED
      BY <3>1, <3>2 DEF InCallback, Servicing
  <2>5. QED
    BY <2>1, <2>2, <2>3, <2>4, SlotSteps
<1>5. QED
  BY <1>1, <1>2, <1>3, <1>4 DEF GoneWhenRemoved

-----------------------------------------------------------------------------
(* The ring *)

Inside == rpc \in {"issue", "lock", "publish", "finish"}

\* A service is inside the pipe because it was, or by one of three steps; a pipe it holds
\* changes by its own readback, or because the mod is shut down without the render thread.
LEMMA InsideSteps ==
  ASSUME Next, Inside'
  PROVE  (Inside /\ UNCHANGED pipe) \/ KeepPipe \/ AllocatePipe \/ Issue \/ ReleaseHere
<1>1. CASE Command
  BY <1>1 DEF Command, set_publishing_on, set_publishing_off, CloseSection, Enable, Register, RegisterIf, Apply,
     StartPublishing, set_continuous_off, StopContinuous, request_resource_drop, set_stage, remove_present_callback,
     Drain, on_shutdown, AskForRelease, StopWaiting, Inside, render, ring
<1>2. CASE Render \/ LoseOrReset
  BY <1>2 DEF Render, DrawFrame, present_detour, NextSlot, Presented, ReleaseOnPresent, on_present, DeviceLost,
     StagePresent, NotServiced, AllocationFails, Allocate, IssueIsMissing, LockForPublish, NothingToPublish,
     Publish, PublishFaults, Finish, service, LoseOrReset, RStep, Inside, ring
<1>3. QED
  BY <1>1, <1>2 DEF Next

\* What is over for good after on_shutdown.
LEMMA NotUndone ==
  ASSUME Next
  PROVE  /\ cpc = "done" => cpc' = "done"
         /\ mapped' = mapped \/ mapped' = FALSE \/ cpc = "ready"
         /\ publishing' = publishing \/ publishing' = FALSE \/ cpc = "publish"
<1>1. CASE Command
  BY <1>1 DEF Command, set_publishing_on, set_publishing_off, CloseSection, Enable, Register, RegisterIf, Apply,
     StartPublishing, set_continuous_off, StopContinuous, request_resource_drop, set_stage, remove_present_callback,
     Drain, on_shutdown, ReleaseHere, release_surfaces, AskForRelease, StopWaiting, CStep
<1>2. CASE Render \/ LoseOrReset
  BY <1>2 DEF Render, DrawFrame, present_detour, NextSlot, Presented, ReleaseOnPresent, release_surfaces, on_present,
     DeviceLost, StagePresent, NotServiced, KeepPipe, AllocationFails, AllocatePipe, Allocate, Issue, IssueIsMissing,
     LockForPublish, NothingToPublish, Publish, PublishFaults, Finish, service, LoseOrReset, others, control
<1>3. QED
  BY <1>1, <1>2 DEF Next

LEMMA RingStep ==
  ASSUME IInv, Next
  PROVE  RingInv'
<1>1. SUFFICES ASSUME Inside', mapped' \/ cpc' # "done"
               PROVE  \A s \in Both : pipe'[s] # NoSurface
  BY DEF RingInv, Inside
<1>2. mapped \/ cpc # "done"
  BY <1>1, NotUndone
<1>3. Inside => \A s \in Both : pipe[s] # NoSurface
  BY <1>2 DEF IInv, RingInv, Inside
<1>4. CASE Inside /\ UNCHANGED pipe
  BY <1>3, <1>4
<1>5. CASE KeepPipe
  BY <1>5 DEF KeepPipe, ring
<1>6. CASE AllocatePipe
  <2>1. pipe' = All(Fresh)
    BY <1>6 DEF AllocatePipe, Allocate
  <2>2. QED
    BY <2>1, SurfaceTypes
<1>7. CASE Issue
  <2>1. Inside /\ pipe' \in {pipe, [pipe EXCEPT ![issue] = [frame |-> frame, kind |-> kind]]}
    BY <1>7 DEF Issue, RStep, Inside
  <2>2. [frame |-> frame, kind |-> kind] # NoSurface
    <3>1. frame # -1
      <4>1. frame \in 0 .. MaxFrames
        BY Fields DEF IInv
      <4>2. QED
        BY <4>1, Bounds
    <3>2. [frame |-> frame, kind |-> kind].frame # NoSurface.frame
      BY <3>1 DEF NoSurface
    <3>3. QED
      BY <3>2
  <2>3. pipe \in [Both -> Surfaces]
    BY Fields DEF IInv
  <2>4. QED
    BY <1>3, <2>1, <2>2, <2>3
<1>8. CASE ReleaseHere
  BY <1>1, <1>8 DEF ReleaseHere, CStep, release_surfaces
<1>9. QED
  BY <1>1, <1>4, <1>5, <1>6, <1>7, <1>8, InsideSteps

-----------------------------------------------------------------------------
(* on_shutdown *)

LEMMA ReleaseStep ==
  ASSUME IInv, Next
  PROVE  ReleaseInv'
<1> USE DEF IInv, ReleaseInv
<1>1. CASE Command
  <2>1. /\ call' = "shutdown" => cpc' \in {"ask", "wait", "remove", "drain", "release", "done"} /\ ~continuous'
        /\ cpc' \in {"ask", "wait", "release", "done"} => call' = "shutdown"
    BY <1>1 DEF Command, set_publishing_on, set_publishing_off, CloseSection, Enable, Register, RegisterIf, Apply,
       StartPublishing, set_continuous_off, StopContinuous, request_resource_drop, set_stage, remove_present_callback,
       Drain, on_shutdown, ReleaseHere, AskForRelease, StopWaiting, CStep, Call, AfterRemove
  <2>2. /\ release_requested' => cpc' = "wait"
        /\ cpc' = "ask" => ~released'
    BY <1>1 DEF Command, set_publishing_on, set_publishing_off, CloseSection, Enable, Register, RegisterIf, Apply,
       StartPublishing, set_continuous_off, StopContinuous, request_resource_drop, set_stage, remove_present_callback,
       Drain, on_shutdown, ReleaseHere, AskForRelease, StopWaiting, CStep, Call, AfterRemove, asks
  <2>3. ASSUME released'
        PROVE  /\ call' = "shutdown" /\ cpc' # "release"
               /\ pipe' = All(NoSurface) /\ ~mapped' /\ ~publishing'
               /\ rpc' \notin {"issue", "lock", "publish", "finish"}
    <3>1. released /\ cpc \in {"wait", "remove", "drain", "done"}
      BY <1>1, <2>3 DEF Command, set_publishing_on, set_publishing_off, CloseSection, Enable, Register, RegisterIf, Apply,
         StartPublishing, set_continuous_off, StopContinuous, request_resource_drop, set_stage, remove_present_callback,
         Drain, on_shutdown, ReleaseHere, AskForRelease, StopWaiting, CStep, asks
    <3>2. remove_present_callback \/ Drain \/ StopWaiting
      BY <1>1, <3>1 DEF Command, set_publishing_on, set_publishing_off, CloseSection, Enable, Register, RegisterIf, Apply,
         StartPublishing, set_continuous_off, StopContinuous, request_resource_drop, set_stage, on_shutdown,
         ReleaseHere, AskForRelease, CStep
    <3>3. /\ UNCHANGED <<call, pipe, mapped, publishing, rpc>> /\ cpc' # "release"
      BY <3>2 DEF remove_present_callback, Drain, StopWaiting, CStep, AfterRemove, ring, render
    <3>4. QED
      BY <3>1, <3>3
  <2>4. QED
    BY <2>1, <2>2, <2>3
<1>2. CASE ReleaseOnPresent
  <2>1. /\ release_requested /\ UNCHANGED <<cpc, call, continuous, release_requested>> /\ rpc' = "slots"
        /\ pipe' = All(NoSurface) /\ mapped' = FALSE /\ publishing' = FALSE
    BY <1>2 DEF ReleaseOnPresent, release_surfaces, free_device_resources, control, RStep
  <2>2. QED
    BY <2>1
<1>3. CASE (Render /\ ~ReleaseOnPresent) \/ LoseOrReset
  <2>1. UNCHANGED <<cpc, call, continuous, release_requested, released, mapped, publishing>>
    BY <1>3 DEF Render, DrawFrame, present_detour, NextSlot, Presented, on_present, DeviceLost, StagePresent, NotServiced,
       KeepPipe, AllocationFails, AllocatePipe, Allocate, Issue, IssueIsMissing, LockForPublish, NothingToPublish,
       Publish, PublishFaults, Finish, service, LoseOrReset, others, control, asks
  <2>2. ASSUME released
        PROVE  pipe' = All(NoSurface) /\ ~Inside'
    <3>1. ~continuous /\ ~Inside /\ pipe = All(NoSurface)
      BY <2>2 DEF Inside
    <3>2. ~KeepPipe /\ ~AllocatePipe /\ ~AllocationFails /\ ~Issue /\ ~Finish
      BY <3>1 DEF KeepPipe, AllocatePipe, AllocationFails, Allocate, Issue, Finish, RStep, Inside
    <3>3. ~ReleaseHere
      BY <2>2 DEF ReleaseHere, CStep
    <3>4. ~Inside'
      BY <3>1, <3>2, <3>3, InsideSteps
    <3>5. pipe' = All(NoSurface)
      BY <3>1, <3>2, PipeSteps
    <3>6. QED
      BY <3>4, <3>5
  <2>3. QED
    BY <2>1, <2>2 DEF Inside
<1>4. QED
  BY <1>1, <1>2, <1>3 DEF Next

-----------------------------------------------------------------------------
(* The order of the pictures *)

\* The picture that goes out, and what is known of it.
LEMMA PublishStep ==
  ASSUME IInv, Publish
  PROVE  /\ published'.frame = pipe[ready].frame /\ published'.seq = published'.frame
         /\ published.frame <= published'.frame /\ published'.frame <= frame
         /\ ready \in Both /\ UNCHANGED <<frame, pipe, pipe_ok, pipe_seq, issue>>
<1>1. /\ rpc = "publish" /\ mapped
      /\ published'.frame = pipe[ready].frame /\ published'.seq = pipe_seq[ready]
      /\ UNCHANGED <<frame, pipe, pipe_ok, pipe_seq, issue>>
  BY DEF Publish, RStep, others, ring, drawing
<1>2. ready \in Both
  BY Fields DEF IInv, ready, Both
<1>3. Good(ready)
  BY <1>1, <1>2 DEF IInv, RingInv, OrderInv, Good
<1>4. QED
  BY <1>1, <1>2, <1>3 DEF IInv, OrderInv

\* The picture stays the same, or it is a publish; the frame stays the same, or a new one begins.
LEMMA PictureSteps ==
  ASSUME Next
  PROVE  /\ UNCHANGED published \/ Publish
         /\ UNCHANGED frame \/ DrawFrame
<1>1. CASE Command
  BY <1>1 DEF Command, set_publishing_on, set_publishing_off, CloseSection, Enable, Register, RegisterIf, Apply,
     StartPublishing, set_continuous_off, StopContinuous, request_resource_drop, set_stage, remove_present_callback,
     Drain, on_shutdown, ReleaseHere, AskForRelease, StopWaiting, render, drawing
<1>2. CASE Render \/ LoseOrReset
  <2>1. UNCHANGED published \/ Publish
    BY <1>2 DEF Render, DrawFrame, present_detour, NextSlot, Presented, ReleaseOnPresent, on_present, DeviceLost,
       StagePresent, NotServiced, KeepPipe, AllocationFails, AllocatePipe, Allocate, Issue, IssueIsMissing,
       LockForPublish, NothingToPublish, PublishFaults, Finish, service, LoseOrReset
  <2>2. UNCHANGED frame \/ DrawFrame
    BY <1>2 DEF Render, present_detour, NextSlot, Presented, ReleaseOnPresent, on_present, DeviceLost, StagePresent,
       NotServiced, KeepPipe, AllocationFails, AllocatePipe, Allocate, Issue, IssueIsMissing, LockForPublish,
       NothingToPublish, Publish, PublishFaults, Finish, service, LoseOrReset, others, drawing
  <2>3. QED
    BY <2>1, <2>2
<1>3. QED
  BY <1>1, <1>2 DEF Next

LEMMA OrderStep ==
  ASSUME IInv, Next
  PROVE  OrderInv'
<1>0. /\ TypeOK /\ frame \in Nat /\ published.frame \in 0 .. frame /\ issue \in Both
      /\ pipe \in [Both -> Surfaces] /\ pipe_ok \in [Both -> BOOLEAN] /\ pipe_seq \in [Both -> 0 .. MaxFrames]
      /\ \A s \in Both : pipe[s].frame \in Int
  <2>1. TypeOK /\ published.frame \in 0 .. frame
    BY DEF IInv, OrderInv
  <2>2. frame \in 0 .. MaxFrames
    BY <2>1, Fields
  <2>3. frame \in Nat
    BY <2>2, Bounds
  <2>4. \A s \in Both : pipe[s].frame \in Int
    BY <2>1, Fields DEF Surfaces
  <2>5. QED
    BY <2>1, <2>3, <2>4, Fields
<1>1. CASE Publish
  <2>1. \A s \in Both : s = ready \/ s = issue
    BY <1>0 DEF ready, Both
  <2>2. /\ Good(issue) => pipe[issue].frame = frame
        /\ rpc' = "finish"
    BY <1>1 DEF IInv, OrderInv, Publish, RStep
  <2>3. published'.frame \in 0 .. frame'
    BY <1>0, <1>1, PublishStep
  <2>4. ASSUME NEW s \in Both, Good(s)'
        PROVE  /\ pipe_seq'[s] = pipe'[s].frame
               /\ published'.frame <= pipe'[s].frame /\ pipe'[s].frame <= frame'
    <3>1. Good(s) /\ UNCHANGED <<frame, pipe, pipe_seq>>
      BY <1>1, <2>4, PublishStep DEF Good
    <3>2. pipe_seq[s] = pipe[s].frame /\ pipe[s].frame <= frame
      BY <3>1 DEF IInv, OrderInv
    <3>3. published'.frame <= pipe[s].frame
      <4>1. CASE s = ready
        BY <1>0, <1>1, <4>1, PublishStep
      <4>2. CASE s = issue
        BY <1>0, <1>1, <2>2, <3>1, <4>2, PublishStep
      <4>3. QED
        BY <2>1, <4>1, <4>2
    <3>4. QED
      BY <3>1, <3>2, <3>3
  <2>5. QED
    BY <2>2, <2>3, <2>4 DEF OrderInv
<1>2. CASE DrawFrame
  <2>1. /\ frame' = frame + 1 /\ UNCHANGED <<published, pipe, pipe_ok, pipe_seq, issue>>
        /\ rpc' \in {"service", "dispatch"}
    BY <1>2 DEF DrawFrame, RStep, ring
  <2>2. published'.frame \in 0 .. frame'
    BY <1>0, <2>1
  <2>3. ASSUME NEW s \in Both, Good(s)'
        PROVE  /\ pipe_seq'[s] = pipe'[s].frame
               /\ published'.frame <= pipe'[s].frame /\ pipe'[s].frame <= frame'
    <3>1. Good(s)
      BY <2>1, <2>3 DEF Good
    <3>2. pipe_seq[s] = pipe[s].frame /\ published.frame <= pipe[s].frame /\ pipe[s].frame <= frame
      BY <3>1 DEF IInv, OrderInv
    <3>3. QED
      BY <1>0, <2>1, <3>2
  <2>4. QED
    BY <2>1, <2>2, <2>3 DEF OrderInv
<1>3. CASE Issue
  <2>1. /\ UNCHANGED <<published, frame, issue>> /\ rpc' = "lock"
        /\ pipe_seq' = [pipe_seq EXCEPT ![issue] = frame]
        /\ \/ /\ pipe' = [pipe EXCEPT ![issue] = [frame |-> frame, kind |-> kind]]
              /\ pipe_ok' = [pipe_ok EXCEPT ![issue] = TRUE]
           \/ pipe' = pipe /\ pipe_ok' = [pipe_ok EXCEPT ![issue] = FALSE]
    BY <1>3 DEF Issue, RStep, others, drawing
  <2>2. Good(issue)' => pipe'[issue].frame = frame /\ pipe_seq'[issue] = frame
    <3>1. CASE pipe' = [pipe EXCEPT ![issue] = [frame |-> frame, kind |-> kind]]
      BY <1>0, <2>1, <3>1
    <3>2. CASE pipe_ok' = [pipe_ok EXCEPT ![issue] = FALSE]
      BY <1>0, <2>1, <3>2 DEF Good
    <3>3. QED
      BY <2>1, <3>1, <3>2
  <2>3. \A s \in Both : s # issue => pipe'[s] = pipe[s] /\ pipe_ok'[s] = pipe_ok[s] /\ pipe_seq'[s] = pipe_seq[s]
    BY <1>0, <2>1
  <2>4. ASSUME NEW s \in Both, Good(s)'
        PROVE  /\ pipe_seq'[s] = pipe'[s].frame
               /\ published'.frame <= pipe'[s].frame /\ pipe'[s].frame <= frame'
    <3>1. CASE s = issue
      <4>1. pipe'[s].frame = frame /\ pipe_seq'[s] = frame
        BY <2>1, <2>2, <2>4, <3>1
      <4>2. QED
        BY <1>0, <2>1, <4>1
    <3>2. CASE s # issue
      <4>1. Good(s) /\ pipe'[s] = pipe[s] /\ pipe_seq'[s] = pipe_seq[s]
        BY <2>3, <2>4, <3>2 DEF Good
      <4>2. QED
        BY <2>1, <4>1 DEF IInv, OrderInv
    <3>3. QED
      BY <3>1, <3>2
  <2>5. published'.frame \in 0 .. frame'
    BY <1>0, <2>1
  <2>6. QED
    BY <2>1, <2>2, <2>4, <2>5 DEF OrderInv
<1>4. CASE ~Publish /\ ~DrawFrame /\ ~Issue
  <2>1. UNCHANGED <<published, frame>>
    BY <1>4, PictureSteps
  <2>2. ASSUME NEW s \in Both, Good(s)'
        PROVE  Good(s) /\ pipe'[s] = pipe[s] /\ pipe_seq'[s] = pipe_seq[s]
    <3>1. CASE UNCHANGED <<pipe, pipe_ok, pipe_seq, issue>>
      BY <2>2, <3>1 DEF Good
    <3>2. CASE pipe' = All(NoSurface)
      BY <2>2, <3>2, SurfaceTypes DEF Good
    <3>3. CASE AllocationFails \/ AllocatePipe
      BY <2>2, <3>3, SurfaceTypes DEF Good, AllocationFails, AllocatePipe, Allocate
    <3>4. CASE Finish
      BY <2>2, <3>4 DEF Finish, Good
    <3>5. QED
      BY <1>4, <3>1, <3>2, <3>3, <3>4, PipeSteps
  <2>3. ASSUME rpc' \in {"lock", "publish"}
        PROVE  /\ UNCHANGED <<issue, pipe_ok>>
               /\ rpc = rpc' \/ LockForPublish
    <3>1. rpc = rpc' \/ LockForPublish
      BY <1>4, <2>3 DEF Next, Command, set_publishing_on, set_publishing_off, CloseSection, Enable, Register, RegisterIf, Apply,
         StartPublishing, set_continuous_off, StopContinuous, request_resource_drop, set_stage, remove_present_callback,
         Drain, on_shutdown, ReleaseHere, AskForRelease, StopWaiting, render, RStep,
         Render, DrawFrame, present_detour, NextSlot, Presented, ReleaseOnPresent, on_present, DeviceLost, StagePresent,
         NotServiced, KeepPipe, AllocationFails, AllocatePipe, Allocate, IssueIsMissing,
         NothingToPublish, PublishFaults, Finish, service, LoseOrReset
    <3>2. ~AllocationFails /\ ~AllocatePipe /\ ~Finish
      BY <2>3 DEF AllocationFails, AllocatePipe, Allocate, Finish, RStep
    <3>3. QED
      BY <1>4, <3>1, <3>2, PipeSteps
  <2>4. rpc' \in {"lock", "publish"} /\ Good(issue)' => pipe'[issue'].frame = frame'
    <3>1. SUFFICES ASSUME rpc' \in {"lock", "publish"}, Good(issue)'
                   PROVE  pipe'[issue'].frame = frame'
      OBVIOUS
    <3>2. issue' = issue /\ rpc \in {"lock", "publish"}
      BY <2>3, <3>1 DEF LockForPublish, RStep
    <3>3. Good(issue) /\ pipe'[issue] = pipe[issue]
      BY <1>0, <2>2, <3>1, <3>2 DEF Good
    <3>4. QED
      BY <2>1, <3>2, <3>3 DEF IInv, OrderInv
  <2>5. rpc' = "publish" => pipe_ok'[ready']
    BY <2>3 DEF IInv, OrderInv, LockForPublish, Publishable, ready
  <2>6. published'.frame \in 0 .. frame'
    BY <1>0, <2>1
  <2>7. \A s \in Both : Good(s)' => /\ pipe_seq'[s] = pipe'[s].frame
                                    /\ published'.frame <= pipe'[s].frame /\ pipe'[s].frame <= frame'
    BY <2>1, <2>2 DEF IInv, OrderInv
  <2>8. QED
    BY <2>4, <2>5, <2>6, <2>7 DEF OrderInv
<1>5. QED
  BY <1>1, <1>2, <1>3, <1>4

-----------------------------------------------------------------------------
(* The theorems *)

LEMMA InitInv ==
  ASSUME Init
  PROVE  IInv
<1>1. TypeOK
  <2>1. /\ slots \subseteq 1 .. kMaxCallbacks /\ count \in Others .. kMaxCallbacks /\ in_flight \in {0, 1}
        /\ calls \in 0 .. MaxCalls /\ i \in 0 .. kMaxCallbacks + 1 /\ n \in 0 .. kMaxCallbacks
        /\ frame \in 0 .. MaxFrames /\ kind \in Kinds /\ presents_since_service \in 0 .. kMenuFallbackPresents + 1
    BY Bounds DEF Init, Kinds
  <2>2. /\ pipe \in [Both -> Surfaces] /\ pipe_ok \in [Both -> BOOLEAN]
        /\ pipe_seq \in [Both -> 0 .. MaxFrames] /\ issue \in Both
    BY SurfaceTypes DEF Init, All, Both
  <2>3. {registered, pending, continuous, publishing, drop_requested, release_requested, released,
         mapped, lost, device_is_lost, primed} \subseteq BOOLEAN
    BY DEF Init
  <2>4. cpc = "ready" /\ call = "none" /\ stage = "Present" /\ rpc = "engine" /\ caller = "none"
    BY DEF Init
  <2>5. QED
    BY <2>1, <2>2, <2>3, <2>4 DEF TypeOK
<1>2. DispatchInv
  BY DEF Init, DispatchInv, GoneWhenRemoved, InCallback, Servicing
<1>3. RingInv
  BY DEF Init, RingInv
<1>4. ReleaseInv
  BY DEF Init, ReleaseInv
<1>5. OrderInv
  <2>1. \A s \in Both : ~Good(s)
    BY SurfaceTypes DEF Init, Good
  <2>2. published.frame \in 0 .. frame /\ rpc = "engine"
    BY DEF Init
  <2>3. QED
    BY <2>1, <2>2 DEF OrderInv
<1>6. QED
  BY <1>1, <1>2, <1>3, <1>4, <1>5 DEF IInv

LEMMA StutterInv ==
  ASSUME IInv, UNCHANGED vars
  PROVE  IInv'
<1> USE DEF vars, hook, control, registry, asks, device, loop, drawing, ring
<1>1. TypeOK'
  <2>1. /\ slots' \subseteq 1 .. kMaxCallbacks /\ count' \in Others .. kMaxCallbacks /\ in_flight' \in {0, 1}
        /\ calls' \in 0 .. MaxCalls /\ i' \in 0 .. kMaxCallbacks + 1 /\ n' \in 0 .. kMaxCallbacks
        /\ frame' \in 0 .. MaxFrames /\ kind' \in Kinds /\ presents_since_service' \in 0 .. kMenuFallbackPresents + 1
    BY DEF IInv, TypeOK
  <2>2. /\ pipe' \in [Both -> Surfaces] /\ pipe_ok' \in [Both -> BOOLEAN]
        /\ pipe_seq' \in [Both -> 0 .. MaxFrames] /\ issue' \in Both
    BY DEF IInv, TypeOK
  <2>3. {registered', pending', continuous', publishing', drop_requested', release_requested', released',
         mapped', lost', device_is_lost', primed'} \subseteq BOOLEAN
    BY DEF IInv, TypeOK
  <2>4. /\ cpc' = cpc /\ call' = call /\ rpc' = rpc /\ stage' = stage /\ caller' = caller
    OBVIOUS
  <2>5. /\ cpc' \in {"ready", "register", "apply", "publish", "close", "stop", "remove", "drain", "ask", "wait",
                    "release", "done"}
        /\ call' \in {"none", "publish", "close", "continue", "capture", "stop", "drop", "stage", "shutdown"}
    BY <2>4 DEF IInv, TypeOK
  <2>6. /\ rpc' \in {"engine", "dispatch", "slots", "present", "device", "service", "issue", "lock", "publish",
                    "finish", "one shot", "fault"}
        /\ stage' \in {"Present", "AfterSecondEye"} /\ caller' \in {"none", "scene", "present", "fallback"}
    BY <2>4 DEF IInv, TypeOK
  <2>7. QED
    BY <2>1, <2>2, <2>3, <2>5, <2>6 DEF TypeOK
<1>2. DispatchInv'
  BY DEF IInv, DispatchInv, GoneWhenRemoved, InCallback, Servicing
<1>3. RingInv'
  BY DEF IInv, RingInv
<1>4. ReleaseInv'
  BY DEF IInv, ReleaseInv
<1>5. OrderInv'
  BY DEF IInv, OrderInv, Good, ready
<1>6. QED
  BY <1>1, <1>2, <1>3, <1>4, <1>5 DEF IInv

LEMMA NextInv ==
  ASSUME IInv, [Next]_vars
  PROVE  IInv'
<1>1. CASE Next
  <2>1. TypeOK'
    BY <1>1, Types DEF IInv
  <2>2. QED
    BY <1>1, <2>1, DispatchStep, RingStep, ReleaseStep, OrderStep DEF IInv
<1>2. CASE UNCHANGED vars
  BY <1>2, StutterInv
<1>3. QED
  BY <1>1, <1>2

\* The inductive invariant holds in every state of every behaviour.
THEOREM Invariance == Spec => []IInv
  BY InitInv, NextInv, PTL DEF Spec

\* The members of RenderHook, FrameCapture and FramePublisher keep their types.
THEOREM TypeCorrect == Spec => []TypeOK
<1>1. IInv => TypeOK
  BY DEF IInv
<1>2. QED
  BY <1>1, Invariance, PTL

\* A callback that remove_present_callback has reported gone is in no slot and is not
\* running, whatever the presents, the other mods' slots and the calls before it.
THEOREM Gone == Spec => []GoneWhenRemoved
<1>1. IInv => GoneWhenRemoved
  BY DEF IInv, DispatchInv
<1>2. QED
  BY <1>1, Invariance, PTL

\* service_continuous finds both surfaces from its test of the pipe to its end, through
\* allocations that fail, drops, lost devices and whatever the command thread calls.
THEOREM Whole == Spec => []RingIsWhole
<1>1. IInv => RingIsWhole
  BY DEF IInv, RingInv, RingIsWhole
<1>2. QED
  BY <1>1, Invariance, PTL

\* What the render thread has released for on_shutdown is not taken again.
THEOREM Released == Spec => []ReleasedForGood
<1>1. IInv => ReleasedForGood
  BY DEF IInv, ReleaseInv, ReleasedForGood
<1>2. QED
  BY <1>1, Invariance, PTL

\* Each picture goes out under the number of its own frame, and none after a newer one.
THEOREM InOrder == Spec => PublishedInOrder
<1>1. ASSUME IInv, [Next]_vars
      PROVE  [/\ published'.frame >= published.frame
              /\ published'.seq = published'.frame]_published
  <2>1. CASE UNCHANGED vars
    BY <2>1 DEF vars
  <2>2. CASE Publish
    <3>1. ready \in Both /\ published.frame \in Int
      BY <1>1, <2>2, PublishStep DEF IInv, OrderInv
    <3>2. pipe[ready].frame \in Int
      BY <1>1, <3>1, Fields DEF IInv, Surfaces
    <3>3. QED
      BY <1>1, <2>2, <3>1, <3>2, PublishStep
  <2>3. CASE Next /\ ~Publish
    BY <2>3, PictureSteps
  <2>4. QED
    BY <1>1, <2>1, <2>2, <2>3
<1>2. QED
  BY <1>1, Invariance, PTL DEF Spec, PublishedInOrder

=============================================================================
