------------------------------ MODULE UICapture ------------------------------
(***************************************************************************)
(* UICapture and FramePublisher::publish_ui: the game's HUD, captured on   *)
(* the render thread and published to the host as a layer of its own.      *)
(*                                                                         *)
(* The render thread sees the HUD's passes, publishes at the present and   *)
(* retires the layer when capture is off; the command thread switches      *)
(* capture on and off; the thread that unloads retires the layer too. Two  *)
(* threads store to one block of the section. The borrowing of the         *)
(* engine's target, viewports and the shot to a file are not here.         *)
(***************************************************************************)
EXTENDS Integers, FiniteSets

CONSTANTS
  kUiSlots,   \* slots of the layer's pixels
  MaxLayers,  \* bound: publications
  Reshapes,   \* the layers whose source has another size than that of the one before
  MaxCalls    \* bound: calls of set_enabled

ASSUME UICaptureAssumption ==
  /\ kUiSlots \in Nat \ {0}
  /\ MaxLayers \in Nat /\ Reshapes \subseteq 1 .. MaxLayers /\ MaxCalls \in Nat

VARIABLES
  sequence, present, slot, geometry, pixels,  \* UiFrameHeader and the slots
  enabled, user_disabled, published,
  source,                                     \* there is a surface to read the layer from
  rpc, layer, write_slot,                     \* the render thread and the layer it publishes
  cpc, calls,                                 \* the command thread
  upc, release_requested,                     \* the thread that unloads
  overlapped                                  \* history: a retirement met an open publication

section == <<sequence, present, slot, geometry, pixels>>
capture == <<enabled, user_disabled, published>>
render == <<rpc, layer, write_slot>>
command == <<cpc, calls>>
unload == <<upc, release_requested>>
game == <<section, capture, source, render, command, unload, overlapped>>

Index == 0 .. kUiSlots - 1
Layers == 0 .. MaxLayers
SizeOf(l) == IF l = 0 THEN 0 ELSE 1 + Cardinality(Reshapes \cap 1 .. l)

CaptureTypeOK ==
  /\ sequence \in Nat /\ present \in BOOLEAN
  /\ slot \in Index /\ geometry \in Layers /\ pixels \in [Index -> Layers \X Layers]
  /\ {enabled, user_disabled, published, source} \subseteq BOOLEAN
  /\ rpc \in {"engine", "bracket", "arm", "present", "mark", "fields", "copy", "copy2", "even", "note",
              "retire", "absent", "settle"}
  /\ layer \in Layers /\ write_slot \in Index
  /\ cpc \in {"ready", "on", "off"} /\ calls \in 0 .. MaxCalls
  /\ upc \in {"live", "owed", "retire", "absent", "settle", "ask", "wait", "close", "hooks", "gone"}
  /\ {release_requested, overlapped} \subseteq BOOLEAN

CaptureInit ==
  /\ sequence = 0 /\ present = FALSE /\ slot = 0 /\ geometry = 0
  /\ pixels = [s \in Index |-> <<0, 0>>]
  /\ enabled = FALSE /\ user_disabled = FALSE /\ published = FALSE
  /\ source = TRUE
  /\ rpc = "engine" /\ layer = 0 /\ write_slot = 0
  /\ cpc = "ready" /\ calls = 0
  /\ upc = "live" /\ release_requested = FALSE
  /\ overlapped = FALSE

-----------------------------------------------------------------------------
(* publish_ui, called by two threads *)

Odd == IF sequence % 2 = 0 THEN sequence + 1 ELSE sequence
Even == IF sequence % 2 = 0 THEN sequence ELSE sequence + 1

\* The three stores of a retirement, by a thread at pc.
Retiring(pc) ==
  /\ \/ pc = "retire" /\ sequence' = Odd /\ UNCHANGED present
     \/ pc = "absent" /\ present' = FALSE /\ UNCHANGED sequence
     \/ pc = "settle" /\ sequence' = Even /\ UNCHANGED present
  /\ UNCHANGED <<slot, geometry, pixels>>

After(pc, end) ==
  CASE pc = "retire" -> "absent" [] pc = "absent" -> "settle" [] pc = "settle" -> end

\* The section is mapped until FrameCapture closes it.
mapped == upc \notin {"hooks", "gone"}

RenderStores == rpc \in {"mark", "fields", "copy", "copy2", "even", "note", "retire", "absent", "settle"}
UnloadStores == upc \in {"retire", "absent", "settle"}

-----------------------------------------------------------------------------
(* The render thread: the bracket and its passes *)

RStep(from, to) == rpc = from /\ rpc' = to

\* The surface is freed, and a frame with a scene has nothing else to read.
free_device_resources == source' \in {FALSE, source}

\* A frame that has drawn no scene yet can be read from the back buffer.
BeginBracket ==
  /\ upc # "gone" /\ RStep("engine", "bracket")
  /\ source' = (enabled \/ source)
  /\ UNCHANGED <<section, capture, layer, write_slot, command, unload, overlapped>>

\* A frame without a bracket that draws the HUD.
NoBracket ==
  /\ upc # "gone" /\ RStep("engine", "present")
  /\ UNCHANGED <<section, capture, source, layer, write_slot, command, unload, overlapped>>

\* A pass of the engine's own: this frame has a scene, and the HUD needs a surface of its own,
\* which may not have been made.
EnginePass ==
  /\ RStep("bracket", "bracket") /\ enabled
  /\ source' \in BOOLEAN
  /\ UNCHANGED <<section, capture, layer, write_slot, command, unload, overlapped>>

\* A pass of gameclient.dll: the interface is there, so capture may switch itself on.
GamePass ==
  /\ rpc = "bracket"
  /\ rpc' = IF enabled \/ user_disabled THEN "bracket" ELSE "arm"
  /\ UNCHANGED <<section, capture, source, layer, write_slot, command, unload, overlapped>>

SwitchOn ==
  /\ RStep("arm", "bracket") /\ enabled' = TRUE
  /\ UNCHANGED <<section, user_disabled, published, source, layer, write_slot, command, unload, overlapped>>

EndBracket ==
  /\ RStep("bracket", "present")
  /\ UNCHANGED <<section, capture, source, layer, write_slot, command, unload, overlapped>>

-----------------------------------------------------------------------------
(* The render thread: the present *)

PresentReleases ==
  /\ RStep("present", "engine") /\ release_requested
  /\ free_device_resources
  /\ UNCHANGED <<section, capture, layer, write_slot, command, unload, overlapped>>

DeviceLost ==
  /\ RStep("present", "engine") /\ ~release_requested
  /\ free_device_resources
  /\ UNCHANGED <<section, capture, layer, write_slot, command, unload, overlapped>>

Nothing == ~enabled \/ ~source

PresentRetires ==
  /\ rpc = "present" /\ ~release_requested /\ Nothing
  /\ published' = FALSE
  /\ rpc' = IF published /\ mapped THEN "retire" ELSE "engine"
  /\ overlapped' = (overlapped \/ (rpc' = "retire" /\ UnloadStores))
  /\ UNCHANGED <<section, enabled, user_disabled, source, layer, write_slot, command, unload>>

\* Fault: one slot too many.
NextSlot_OnePast == (slot + 1) % (kUiSlots + 1)

NextSlot == (slot + 1) % kUiSlots

\* The layer is read back, and goes into the next slot.
publish_layer ==
  /\ RStep("present", "mark") /\ ~release_requested /\ ~Nothing /\ mapped
  /\ layer < MaxLayers /\ layer' = layer + 1
  /\ write_slot' = NextSlot
  /\ overlapped' = (overlapped \/ UnloadStores)
  /\ UNCHANGED <<section, capture, source, command, unload>>

\* A device call fails, the layer does not fit, or the section is closed.
NotPublished ==
  /\ RStep("present", "engine") /\ ~release_requested /\ ~Nothing
  /\ UNCHANGED <<section, capture, source, layer, write_slot, command, unload, overlapped>>

RetireAtPresent ==
  /\ Retiring(rpc) /\ rpc' = After(rpc, "engine")
  /\ UNCHANGED <<capture, source, layer, write_slot, command, unload, overlapped>>

MarkOdd ==
  /\ RStep("mark", "fields") /\ sequence' = Odd
  /\ UNCHANGED <<present, slot, geometry, pixels, capture, source, layer, write_slot, command, unload, overlapped>>

WriteFields ==
  /\ RStep("fields", "copy")
  /\ geometry' = layer /\ slot' = write_slot
  /\ UNCHANGED <<sequence, present, pixels, capture, source, layer, write_slot, command, unload, overlapped>>

CopyHalf ==
  /\ \/ /\ RStep("copy", "copy2") /\ pixels' = [pixels EXCEPT ![write_slot][1] = layer]
        /\ UNCHANGED present
     \/ /\ RStep("copy2", "even") /\ pixels' = [pixels EXCEPT ![write_slot][2] = layer]
        /\ present' = TRUE
  /\ UNCHANGED <<sequence, slot, geometry, capture, source, layer, write_slot, command, unload, overlapped>>

SettleEven ==
  /\ RStep("even", "note") /\ sequence' = (sequence + 1) - ((sequence + 1) % 2) /\ write_slot' = 0
  /\ UNCHANGED <<present, slot, geometry, pixels, capture, source, layer, command, unload, overlapped>>

\* Fault: what was published is not remembered.
NotePublished_Not ==
  /\ RStep("note", "engine")
  /\ UNCHANGED <<section, capture, source, layer, write_slot, command, unload, overlapped>>

NotePublished ==
  /\ RStep("note", "engine") /\ published' = TRUE
  /\ UNCHANGED <<section, enabled, user_disabled, source, layer, write_slot, command, unload, overlapped>>

Passes == BeginBracket \/ NoBracket \/ EnginePass \/ GamePass \/ SwitchOn
Presents ==
  \/ EndBracket \/ PresentReleases \/ DeviceLost \/ PresentRetires \/ publish_layer \/ NotPublished
  \/ RetireAtPresent \/ MarkOdd \/ WriteFields \/ CopyHalf \/ SettleEven \/ NotePublished

-----------------------------------------------------------------------------
(* The command thread, and the thread that unloads *)

set_enabled ==
  /\ cpc = "ready" /\ upc = "live" /\ calls < MaxCalls /\ calls' = calls + 1
  /\ \E on \in BOOLEAN : user_disabled' = ~on /\ cpc' = IF on THEN "on" ELSE "off"
  /\ UNCHANGED <<section, enabled, published, source, render, unload, overlapped>>

StoreEnabled ==
  /\ cpc # "ready" /\ cpc' = "ready"
  /\ enabled' = (cpc = "on")
  /\ UNCHANGED <<section, user_disabled, published, source, render, calls, unload, overlapped>>

Command == set_enabled \/ StoreEnabled

UStep(from, to) == upc = from /\ upc' = to

on_shutdown ==
  /\ UStep("live", "owed") /\ cpc = "ready"
  /\ enabled' = FALSE
  /\ UNCHANGED <<section, user_disabled, published, source, render, command, release_requested, overlapped>>

RetireOwed ==
  /\ upc = "owed" /\ upc' = IF published THEN "retire" ELSE "ask"
  /\ published' = FALSE
  /\ overlapped' = (overlapped \/ (published /\ RenderStores))
  /\ UNCHANGED <<section, enabled, user_disabled, source, render, command, release_requested>>

RetireAtShutdown ==
  /\ Retiring(upc) /\ upc' = After(upc, "ask")
  /\ UNCHANGED <<capture, source, render, command, release_requested, overlapped>>

AskRelease ==
  /\ UStep("ask", "wait") /\ release_requested' = TRUE
  /\ UNCHANGED <<section, capture, source, render, command, overlapped>>

\* Released, or a second has gone by without a present.
StopWaiting ==
  /\ UStep("wait", "close") /\ release_requested' = FALSE
  /\ UNCHANGED <<section, capture, source, render, command, overlapped>>

\* FrameCapture's shutdown, later in the order: what it does to a publication under way is not here.
CloseSection ==
  /\ UStep("close", "hooks") /\ ~RenderStores
  /\ UNCHANGED <<section, capture, source, render, command, release_requested, overlapped>>

RetireHooks ==
  /\ UStep("hooks", "gone") /\ rpc = "engine"
  /\ UNCHANGED <<section, capture, source, render, command, release_requested, overlapped>>

Shutdown ==
  \/ on_shutdown \/ RetireOwed \/ RetireAtShutdown \/ AskRelease \/ StopWaiting \/ CloseSection \/ RetireHooks

CaptureNext == Passes \/ Presents \/ Command \/ Shutdown
=============================================================================
