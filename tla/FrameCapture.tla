---------------------------- MODULE FrameCapture ----------------------------
(***************************************************************************)
(* The readback that feeds the host: RenderHook's present callbacks,       *)
(* FrameCapture's two-surface pipe on the render thread, and the calls of  *)
(* the command thread that switch it on and off and finally tear it down.  *)
(*                                                                         *)
(* A surface is NoSurface or what was read into it: the number of a frame, *)
(* 0 for fresh memory, and whether that frame was a split scene or a mono  *)
(* menu. Stereo and the split viewport stay armed. The section's bytes are *)
(* FrameSlots's.                                                           *)
(***************************************************************************)
EXTENDS Integers, FiniteSets

CONSTANTS
  kMaxCallbacks,         \* slots of RenderHook
  Others,                \* slots the other mods' callbacks hold
  kMenuFallbackPresents,
  MaxFrames,             \* bound: frames drawn
  MaxCalls               \* bound: calls of the command thread before shutdown

ASSUME CaptureAssumption ==
  /\ {kMaxCallbacks, Others, kMenuFallbackPresents, MaxFrames, MaxCalls} \subseteq Nat
  /\ Others < kMaxCallbacks /\ kMenuFallbackPresents > 0

VARIABLES
  \* RenderHook
  slots, count,                        \* the slots that hold on_present; slots ever handed out
  in_flight,
  \* the command thread, later the unload thread
  cpc, call, calls,
  registered, pending, continuous, publishing, drop_requested, release_requested, released,
  stage,
  mapped,                              \* FramePublisher's views of the section
  \* the device
  lost, device_is_lost,
  \* the render thread
  rpc, caller, i, n,
  frame, kind,                         \* the frame being drawn
  presents_since_service,
  pipe, pipe_ok, pipe_seq, primed, issue,
  published

hook == <<slots, count>>
control == <<cpc, call, calls>>
registry == <<registered, stage>>
asks == <<pending, drop_requested, release_requested, released>>
device == <<lost, device_is_lost>>
loop == <<in_flight, caller, i, n>>
drawing == <<frame, kind, presents_since_service>>
ring == <<pipe, pipe_ok, pipe_seq, primed, issue>>
vars == <<hook, control, registry, asks, continuous, publishing, mapped, device, rpc, loop, drawing,
          ring, published>>

Kinds == {"scene", "menu"}
Layout(k) == IF k = "scene" THEN "side by side" ELSE "mono"
NoSurface == [frame |-> -1, kind |-> "menu"]
Fresh == [frame |-> 0, kind |-> "menu"]
Both == {0, 1}
All(x) == [s \in Both |-> x]

Init ==
  /\ slots = {} /\ count = Others /\ in_flight = 0
  /\ cpc = "ready" /\ call = "none" /\ calls = 0
  /\ registered = FALSE /\ stage = "Present"
  /\ pending = FALSE /\ drop_requested = FALSE
  /\ release_requested = FALSE /\ released = FALSE
  /\ continuous = FALSE /\ publishing = FALSE /\ mapped = FALSE
  /\ lost = FALSE /\ device_is_lost = FALSE
  /\ rpc = "engine" /\ caller = "none" /\ i = 0 /\ n = 0
  /\ frame = 0 /\ kind = "menu" /\ presents_since_service = 0
  /\ pipe = All(NoSurface) /\ pipe_ok = All(FALSE) /\ pipe_seq = All(0)
  /\ primed = FALSE /\ issue = 0
  /\ published = [frame |-> 0, seq |-> 0, kind |-> "menu", layout |-> "mono", caller |-> "none"]

-----------------------------------------------------------------------------
(* What both threads call *)

free_device_resources == pipe' = All(NoSurface) /\ primed' = FALSE /\ UNCHANGED <<pipe_ok, pipe_seq, issue>>

release_surfaces == publishing' = FALSE /\ mapped' = FALSE /\ free_device_resources

-----------------------------------------------------------------------------
(* The command thread: one call at a time, and on_shutdown after the last *)

render == <<device, rpc, loop, drawing, published>>
CStep(from, to) == cpc = from /\ cpc' = to
Call(name) == calls < MaxCalls /\ calls' = calls + 1 /\ call' = name

set_publishing_on ==
  /\ Call("publish")
  /\ \/ CStep("ready", "register") /\ mapped' = TRUE
     \/ CStep("ready", "ready") /\ UNCHANGED mapped
  /\ UNCHANGED <<hook, registry, asks, continuous, publishing, render, ring>>

set_publishing_off ==
  /\ Call("close")
  /\ CStep("ready", "close")
  /\ publishing' = FALSE
  /\ UNCHANGED <<hook, registry, asks, continuous, mapped, render, ring>>

CloseSection ==
  /\ CStep("close", "ready")
  /\ mapped' = FALSE
  /\ UNCHANGED <<hook, call, calls, registry, asks, continuous, publishing, render, ring>>

\* set_continuous(true) and request_capture_to
Enable ==
  /\ \E name \in {"continue", "capture"} : Call(name)
  /\ CStep("ready", "register")
  /\ UNCHANGED <<hook, registry, asks, continuous, publishing, mapped, render, ring>>

\* add_present_callback hands out the next slot while there is one, and no slot twice.
RegisterIf(room) ==
  /\ IF ~registered /\ room
     THEN slots' = slots \cup {count + 1} /\ count' = count + 1 /\ registered' = TRUE
     ELSE UNCHANGED <<hook, registered>>
  /\ CStep("register", IF registered' \/ call # "capture" THEN "apply" ELSE "ready")
  /\ UNCHANGED <<call, calls, stage, asks, continuous, publishing, mapped, render, ring>>

\* Fault: the slots are not counted.
Register_Unbounded == RegisterIf(TRUE)

Register == RegisterIf(count < kMaxCallbacks)

Apply ==
  /\ CStep("apply", IF call = "publish" THEN "publish" ELSE "ready")
  /\ IF call = "capture" THEN pending' = TRUE /\ UNCHANGED continuous
     ELSE continuous' = TRUE /\ UNCHANGED pending
  /\ UNCHANGED <<hook, call, calls, registry, drop_requested, release_requested, released, publishing,
                 mapped, render, ring>>

StartPublishing ==
  /\ CStep("publish", "ready")
  /\ publishing' = TRUE
  /\ UNCHANGED <<hook, call, calls, registry, asks, continuous, mapped, render, ring>>

set_continuous_off ==
  /\ Call("stop")
  /\ CStep("ready", "stop")
  /\ primed' = FALSE
  /\ UNCHANGED <<hook, registry, asks, continuous, publishing, mapped, render, pipe, pipe_ok, pipe_seq, issue>>

StopContinuous ==
  /\ CStep("stop", IF ~pending /\ registered THEN "remove" ELSE "ready")
  /\ continuous' = FALSE
  /\ UNCHANGED <<hook, call, calls, registry, asks, publishing, mapped, render, ring>>

request_resource_drop ==
  /\ Call("drop") /\ CStep("ready", "ready")
  /\ registered /\ drop_requested' = TRUE
  /\ UNCHANGED <<hook, registry, pending, release_requested, released, continuous, publishing, mapped,
                 render, ring>>

set_stage ==
  /\ Call("stage") /\ CStep("ready", "ready")
  /\ stage' \in {"Present", "AfterSecondEye"} \ {stage}
  /\ UNCHANGED <<hook, registered, asks, continuous, publishing, mapped, render, ring>>

AfterRemove == IF call = "shutdown" THEN "done" ELSE "ready"

\* Fault: the slot is cleared and the dispatch in flight is not waited for.
remove_present_callback_NoDrain ==
  /\ CStep("remove", AfterRemove)
  /\ slots' = {} /\ registered' = FALSE
  /\ UNCHANGED <<count, call, calls, stage, asks, continuous, publishing, mapped, render, ring>>

\* A slot that held nothing makes it fail at once.
remove_present_callback ==
  /\ CStep("remove", IF slots = {} THEN AfterRemove ELSE "drain")
  /\ slots' = {}
  /\ UNCHANGED <<count, call, calls, registry, asks, continuous, publishing, mapped, render, ring>>

\* The wait ends with the dispatch, or at its deadline; then the callback counts as registered.
Drain ==
  /\ CStep("drain", AfterRemove)
  /\ \/ in_flight = 0 /\ registered' = FALSE
     \/ in_flight # 0 /\ UNCHANGED registered
  /\ UNCHANGED <<hook, call, calls, stage, asks, continuous, publishing, mapped, render, ring>>

\* Fault: the pipe is left running while its release is asked for.
on_shutdown_StillOn ==
  /\ CStep("ready", IF registered THEN "ask" ELSE "release") /\ call' = "shutdown"
  /\ pending' = FALSE
  /\ UNCHANGED <<hook, calls, registry, drop_requested, release_requested, released, continuous,
                 publishing, mapped, render, ring>>

on_shutdown ==
  /\ CStep("ready", IF registered THEN "ask" ELSE "release") /\ call' = "shutdown"
  /\ pending' = FALSE /\ continuous' = FALSE
  /\ UNCHANGED <<hook, calls, registry, drop_requested, release_requested, released, publishing,
                 mapped, render, ring>>

ReleaseHere ==
  /\ CStep("release", "done")
  /\ release_surfaces
  /\ UNCHANGED <<hook, call, calls, registry, asks, continuous, render>>

AskForRelease ==
  /\ CStep("ask", "wait")
  /\ released' = FALSE /\ release_requested' = TRUE
  /\ UNCHANGED <<hook, call, calls, registry, pending, drop_requested, continuous, publishing, mapped,
                 render, ring>>

\* The render thread has released, or a second has passed.
StopWaiting ==
  /\ CStep("wait", "remove")
  /\ release_requested' = FALSE
  /\ UNCHANGED <<hook, call, calls, registry, pending, drop_requested, released, continuous, publishing,
                 mapped, render, ring>>

Command ==
  \/ set_publishing_on \/ set_publishing_off \/ CloseSection \/ Enable \/ Register \/ Apply
  \/ StartPublishing \/ set_continuous_off \/ StopContinuous \/ request_resource_drop \/ set_stage
  \/ remove_present_callback \/ Drain \/ on_shutdown \/ ReleaseHere \/ AskForRelease \/ StopWaiting

-----------------------------------------------------------------------------
(* The render thread: the frame, present_detour and on_present *)

RStep(from, to) == rpc = from /\ rpc' = to

\* A scene calls service_now after its second eye; a menu draws no scene.
DrawFrame ==
  /\ frame < MaxFrames /\ frame' = frame + 1
  /\ kind' \in Kinds
  /\ IF kind' = "scene" /\ stage = "AfterSecondEye"
     THEN RStep("engine", "service") /\ caller' = "scene" /\ presents_since_service' = 0
     ELSE RStep("engine", "dispatch") /\ UNCHANGED <<caller, presents_since_service>>
  /\ UNCHANGED <<hook, control, registry, asks, continuous, publishing, mapped, device, in_flight, i, n, ring, published>>

present_detour ==
  /\ RStep("dispatch", "slots")
  /\ in_flight' = 1 /\ n' = count /\ i' = Others + 1
  /\ UNCHANGED <<hook, control, registry, asks, continuous, publishing, mapped, device, caller, drawing, ring, published>>

NextSlot ==
  /\ i <= n /\ i' = i + 1
  /\ RStep("slots", IF i \in slots THEN "present" ELSE "slots")
  /\ UNCHANGED <<hook, control, registry, asks, continuous, publishing, mapped, device, in_flight, caller, n,
                 drawing, ring, published>>

Presented ==
  /\ i > n
  /\ RStep("slots", "engine")
  /\ in_flight' = 0 /\ i' = 0 /\ n' = 0 /\ caller' = "none"
  /\ UNCHANGED <<hook, control, registry, asks, continuous, publishing, mapped, device, drawing, ring, published>>

ReleaseOnPresent ==
  /\ RStep("present", "slots")
  /\ release_requested /\ released' = TRUE
  /\ release_surfaces
  /\ UNCHANGED <<hook, control, registry, pending, drop_requested, release_requested, continuous, device, loop, drawing, published>>

on_present ==
  /\ RStep("present", "device")
  /\ ~release_requested
  /\ UNCHANGED <<hook, control, registry, asks, continuous, publishing, mapped, device, loop, drawing, ring, published>>

\* freed on the transition, not every frame
DeviceLost ==
  /\ RStep("device", "slots")
  /\ lost /\ device_is_lost' = TRUE
  /\ IF device_is_lost THEN UNCHANGED ring ELSE free_device_resources
  /\ UNCHANGED <<hook, control, registry, asks, continuous, publishing, mapped, lost, loop, drawing, published>>

\* The drop on demand, then the stage: Present services here, any other only as the menu's
\* fallback, when no scene has been serviced for a while.
StagePresent ==
  /\ rpc = "device"
  /\ ~lost /\ device_is_lost' = FALSE
  /\ drop_requested' = FALSE
  /\ IF drop_requested THEN free_device_resources ELSE UNCHANGED ring
  /\ IF stage = "Present"
     THEN rpc' = "service" /\ caller' = "present" /\ UNCHANGED presents_since_service
     ELSE /\ presents_since_service' = IF presents_since_service > kMenuFallbackPresents
                                        THEN presents_since_service ELSE presents_since_service + 1
          /\ IF presents_since_service >= kMenuFallbackPresents
             THEN rpc' = "service" /\ caller' = "fallback"
             ELSE rpc' = "slots" /\ UNCHANGED caller
  /\ UNCHANGED <<hook, control, registry, pending, release_requested, released, continuous, publishing,
                 mapped, lost, in_flight, i, n, frame, kind, published>>

-----------------------------------------------------------------------------
(* service_continuous and the one-shot service, for the scene and for on_present *)

others == <<hook, control, registry, asks, continuous, publishing, mapped, device, loop, drawing>>
ready == 1 - issue

\* switched off, or the device gives no back buffer
NotServiced ==
  /\ RStep("service", "one shot")
  /\ UNCHANGED <<others, ring, published>>

KeepPipe ==
  /\ RStep("service", "issue")
  /\ continuous /\ ~lost
  /\ \A s \in Both : pipe[s] # NoSurface
  /\ UNCHANGED <<others, ring, published>>

\* A surface is missing, or the back buffer has changed its size: all are made anew. What
\* the slots were is forgotten in either case.
Allocate(to, surfaces) ==
  /\ RStep("service", to)
  /\ continuous /\ ~lost
  /\ pipe' \in surfaces
  /\ pipe_ok' = All(FALSE) /\ pipe_seq' = All(0) /\ primed' = FALSE
  /\ UNCHANGED <<others, issue, published>>

\* Fault: what could be allocated is used.
AllocationFails_Partly == Allocate("issue", {[s \in Both |-> IF s = 0 THEN Fresh ELSE NoSurface]})

AllocationFails == Allocate("one shot", {All(NoSurface)})
AllocatePipe == Allocate("issue", {All(Fresh)})

\* GetRenderTargetData, stamped in any case; a failure leaves the old pixels.
Issue ==
  /\ RStep("issue", "lock")
  /\ pipe[issue] # NoSurface
  /\ \/ /\ pipe' = [pipe EXCEPT ![issue] = [frame |-> frame, kind |-> kind]]
        /\ pipe_ok' = [pipe_ok EXCEPT ![issue] = TRUE]
     \/ pipe_ok' = [pipe_ok EXCEPT ![issue] = FALSE] /\ UNCHANGED pipe
  /\ pipe_seq' = [pipe_seq EXCEPT ![issue] = frame]
  /\ UNCHANGED <<others, primed, issue, published>>

IssueIsMissing ==
  /\ RStep("issue", "one shot")
  /\ pipe[issue] = NoSurface
  /\ UNCHANGED <<others, ring, published>>

\* Fault: a readback that failed is published.
Publishable_Any == primed /\ pipe[ready] # NoSurface /\ publishing

Publishable == primed /\ pipe[ready] # NoSurface /\ publishing /\ pipe_ok[ready]

LockForPublish ==
  /\ RStep("lock", "publish")
  /\ Publishable /\ mapped
  /\ UNCHANGED <<others, ring, published>>

\* nothing primed, a lock that fails, a readback that had failed, or no section
NothingToPublish ==
  /\ RStep("lock", "finish")
  /\ UNCHANGED <<others, ring, published>>

\* The layout is that of the switches and of the presents since a scene was serviced, now.
Publish ==
  /\ RStep("publish", "finish")
  /\ mapped
  /\ published' = [frame |-> pipe[ready].frame, seq |-> pipe_seq[ready], kind |-> pipe[ready].kind,
                   layout |-> IF presents_since_service < kMenuFallbackPresents THEN "side by side" ELSE "mono",
                   caller |-> caller]
  /\ UNCHANGED <<others, ring>>

\* The command thread has unmapped the section in the middle of the copy.
PublishFaults ==
  /\ RStep("publish", "fault")
  /\ ~mapped
  /\ UNCHANGED <<others, ring, published>>

Finish ==
  /\ RStep("finish", "one shot")
  /\ primed' = TRUE /\ issue' = ready
  /\ UNCHANGED <<others, pipe, pipe_ok, pipe_seq, published>>

service ==
  /\ RStep("one shot", IF caller = "scene" THEN "dispatch" ELSE "slots")
  /\ pending' = FALSE
  /\ UNCHANGED <<hook, control, registry, drop_requested, release_requested, released, continuous,
                 publishing, mapped, device, loop, drawing, ring, published>>

\* Alt-tab, and back
LoseOrReset ==
  /\ lost' = ~lost
  /\ UNCHANGED <<hook, control, registry, asks, continuous, publishing, mapped, device_is_lost, rpc,
                 loop, drawing, ring, published>>

Render ==
  \/ DrawFrame \/ present_detour \/ NextSlot \/ Presented
  \/ ReleaseOnPresent \/ on_present \/ DeviceLost \/ StagePresent
  \/ NotServiced \/ KeepPipe \/ AllocationFails \/ AllocatePipe \/ Issue \/ IssueIsMissing
  \/ LockForPublish \/ NothingToPublish \/ Publish \/ PublishFaults \/ Finish \/ service

Next == Command \/ Render \/ LoseOrReset

Spec == Init /\ [][Next]_vars

-----------------------------------------------------------------------------
(* What must hold *)

Surfaces == [frame : -1 .. MaxFrames, kind : Kinds]

\* Every variable has its type (RenderHook's, FrameCapture's and FramePublisher's members).
TypeOK ==
  /\ slots \subseteq 1 .. kMaxCallbacks /\ count \in Others .. kMaxCallbacks /\ in_flight \in {0, 1}
  /\ cpc \in {"ready", "register", "apply", "publish", "close", "stop", "remove", "drain", "ask", "wait",
              "release", "done"}
  /\ call \in {"none", "publish", "close", "continue", "capture", "stop", "drop", "stage", "shutdown"}
  /\ calls \in 0 .. MaxCalls
  /\ {registered, pending, continuous, publishing, drop_requested, release_requested, released,
      mapped, lost, device_is_lost, primed} \subseteq BOOLEAN
  /\ stage \in {"Present", "AfterSecondEye"}
  /\ rpc \in {"engine", "dispatch", "slots", "present", "device", "service", "issue", "lock", "publish",
              "finish", "one shot", "fault"}
  /\ caller \in {"none", "scene", "present", "fallback"}
  /\ i \in 0 .. kMaxCallbacks + 1 /\ n \in 0 .. kMaxCallbacks
  /\ frame \in 0 .. MaxFrames /\ kind \in Kinds
  /\ presents_since_service \in 0 .. kMenuFallbackPresents + 1
  /\ pipe \in [Both -> Surfaces] /\ pipe_ok \in [Both -> BOOLEAN]
  /\ pipe_seq \in [Both -> 0 .. MaxFrames] /\ issue \in Both

Servicing == rpc \in {"service", "issue", "lock", "publish", "finish", "one shot"}
InCallback == rpc \in {"present", "device"} \/ (Servicing /\ caller # "scene")

\* Once remove_present_callback has answered that the callback is gone, no slot holds it
\* and no dispatch that began before is still inside it.
GoneWhenRemoved == ~registered => slots = {} /\ ~InCallback

\* Between the test of the pipe and the lock both surfaces exist, until the mod is shut
\* down (the all-or-nothing allocation of service_continuous).
RingIsWhole ==
  rpc \in {"issue", "lock", "publish", "finish"} /\ cpc # "done" => \A s \in Both : pipe[s] # NoSurface

\* A picture goes out under its own frame's stamp, and never after a newer one: through
\* failed readbacks and locks, reallocations, drops and lost devices, and calls that race.
\* (It goes out twice when set_stage comes between its scene and its present, which then
\* both service it.)
PublishedInOrder ==
  [][/\ published'.frame >= published.frame
     /\ published'.seq = published'.frame]_published

\* A release that the render thread has done stays done: nothing is allocated, mapped or
\* published again behind on_shutdown.
ReleasedForGood == cpc = "done" /\ released => pipe = All(NoSurface) /\ ~mapped /\ ~publishing

=============================================================================
