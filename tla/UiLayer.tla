------------------------------- MODULE UiLayer -------------------------------
(***************************************************************************)
(* The UI layer from end to end: UICapture publishes, and the host's frame *)
(* loop polls the block, uploads out of the slot and submits a quad with   *)
(* the picture it holds.                                                   *)
(***************************************************************************)
EXTENDS UICapture

VARIABLES
  hpc,
  ui_present_now, last_ui_sequence,
  local,        \* what poll_ui has read
  have,         \* have_ui_frame
  chain,        \* size of the swapchain, 0 for none
  copy,         \* half of the upload under way
  held,         \* the image that was uploaded last: its size, and whether it is one publication
  ui_uploaded,
  lapped,       \* history: the slot being uploaded was written to
  shown         \* the frame submitted last had the quad

host == <<hpc, ui_present_now, last_ui_sequence, local, have, chain, copy, held, ui_uploaded, lapped, shown>>
reading == <<ui_present_now, last_ui_sequence, local, have>>
drawing == <<chain, copy, held, ui_uploaded>>
vars == <<game, host>>

NoRead == [seq |-> 0, slot |-> 0, geometry |-> 0]
NoImage == [size |-> 0, whole |-> TRUE, lapped |-> FALSE]

TypeOK ==
  /\ CaptureTypeOK
  /\ hpc \in {"look", "poll", "fields", "recheck", "chain", "draw", "upload", "upload2", "submit"}
  /\ {ui_present_now, have, ui_uploaded, lapped, shown} \subseteq BOOLEAN
  /\ last_ui_sequence \in Nat /\ last_ui_sequence % 2 = 0
  /\ local \in [seq : Nat, slot : Index, geometry : Layers]
  /\ chain \in {SizeOf(l) : l \in Layers} /\ copy \in Layers
  /\ held \in [size : {SizeOf(l) : l \in Layers}, whole : BOOLEAN, lapped : BOOLEAN]

Init ==
  /\ CaptureInit
  /\ hpc = "look" /\ ui_present_now = FALSE /\ last_ui_sequence = 0 /\ local = NoRead /\ have = FALSE
  /\ chain = 0 /\ copy = 0 /\ held = NoImage /\ ui_uploaded = FALSE /\ lapped = FALSE /\ shown = FALSE

-----------------------------------------------------------------------------
HStep(from, to) == hpc = from /\ hpc' = to

Look ==
  /\ HStep("look", "poll") /\ ui_present_now' = present
  /\ UNCHANGED <<game, last_ui_sequence, local, have, drawing, lapped, shown>>

\* Mid-write, nothing new, or no layer.
NothingNew ==
  /\ HStep("poll", "draw")
  /\ sequence % 2 = 1 \/ sequence = last_ui_sequence \/ ~present
  /\ have' = FALSE
  /\ UNCHANGED <<game, ui_present_now, last_ui_sequence, local, drawing, lapped, shown>>

ReadSequence ==
  /\ HStep("poll", "fields")
  /\ sequence % 2 = 0 /\ sequence # last_ui_sequence /\ present
  /\ local' = [NoRead EXCEPT !.seq = sequence]
  /\ UNCHANGED <<game, ui_present_now, last_ui_sequence, have, drawing, lapped, shown>>

ReadFields ==
  /\ HStep("fields", "recheck")
  /\ local' = [local EXCEPT !.slot = slot, !.geometry = geometry]
  /\ UNCHANGED <<game, ui_present_now, last_ui_sequence, have, drawing, lapped, shown>>

\* Fault: the sequence is not read again.
Recheck_Never ==
  /\ HStep("recheck", "chain")
  /\ have' = TRUE /\ last_ui_sequence' = local.seq /\ lapped' = FALSE
  /\ local' = [local EXCEPT !.seq = 0]
  /\ UNCHANGED <<game, ui_present_now, drawing, shown>>

Recheck ==
  /\ HStep("recheck", "chain")
  /\ have' = (sequence = local.seq)
  /\ last_ui_sequence' = IF have' THEN local.seq ELSE last_ui_sequence
  /\ local' = IF have' THEN [local EXCEPT !.seq = 0] ELSE NoRead
  /\ lapped' = FALSE
  /\ UNCHANGED <<game, ui_present_now, drawing, shown>>

\* The swapchain is made, and has no picture yet; or it cannot be made.
MakeChain ==
  \/ chain' = SizeOf(local.geometry) /\ ui_uploaded' = FALSE /\ UNCHANGED have
  \/ chain' = 0 /\ have' = FALSE /\ UNCHANGED ui_uploaded

FitChain ==
  /\ HStep("chain", "draw")
  /\ IF have /\ chain # SizeOf(local.geometry) THEN MakeChain ELSE UNCHANGED <<chain, have, ui_uploaded>>
  /\ UNCHANGED <<game, ui_present_now, last_ui_sequence, local, copy, held, lapped, shown>>

\* What was read belongs to one iteration of the loop.
NextFrame == ui_present_now' = FALSE /\ local' = NoRead /\ have' = FALSE /\ lapped' = FALSE

\* shouldRender is off: nothing is uploaded, and no quad is submitted.
SkipFrame ==
  /\ HStep("draw", "look") /\ shown' = FALSE /\ NextFrame
  /\ UNCHANGED <<game, last_ui_sequence, drawing>>

\* Nothing to upload, or no image to be had.
KeepImage ==
  /\ HStep("draw", "submit")
  /\ UNCHANGED <<game, reading, drawing, lapped, shown>>

BeginUpload ==
  /\ HStep("draw", "upload") /\ have /\ chain # 0
  /\ UNCHANGED <<game, reading, drawing, lapped, shown>>

UploadHalf ==
  /\ HStep("upload", "upload2") /\ copy' = pixels[local.slot][1]
  /\ UNCHANGED <<game, reading, chain, held, ui_uploaded, lapped, shown>>

UploadRest ==
  /\ HStep("upload2", "submit")
  /\ LET whole == {copy, pixels[local.slot][2]} = {local.geometry}
     IN held' = [size |-> SizeOf(local.geometry), whole |-> whole, lapped |-> lapped /\ ~whole]
  /\ ui_uploaded' = TRUE /\ copy' = 0
  /\ UNCHANGED <<game, reading, chain, lapped, shown>>

Submit ==
  /\ HStep("submit", "look")
  /\ shown' = (ui_present_now /\ ui_uploaded /\ chain # 0) /\ NextFrame
  /\ UNCHANGED <<game, last_ui_sequence, drawing>>

Host ==
  \/ Look \/ NothingNew \/ ReadSequence \/ ReadFields \/ Recheck \/ FitChain
  \/ SkipFrame \/ KeepImage \/ BeginUpload \/ UploadHalf \/ UploadRest \/ Submit

\* The game writes to the slot of the layer the host has taken and not yet uploaded.
Laps == rpc \in {"copy", "copy2"} /\ have /\ write_slot = local.slot

Game ==
  /\ CaptureNext
  /\ lapped' = (lapped \/ Laps)
  /\ UNCHANGED <<hpc, reading, drawing, shown>>

Next == Game \/ Host
Spec == Init /\ [][Next]_vars

-----------------------------------------------------------------------------
(* The image the quad is cut from is one whole publication, of the size    *)
(* the quad has: unless the game came round to its slot during the upload, *)
(* which nothing counts, or a retirement met the publication.              *)
ShownIsWhole ==
  hpc = "look" /\ shown => held.size = chain /\ (held.whole \/ held.lapped \/ overlapped)

(* Whoever leaves a layer in the section owes its retirement: published    *)
(* is what UICapture goes by when capture is switched off, when the        *)
(* surface is lost and when it is unloaded, whichever thread gets there.   *)
(* Once the section is closed nobody can retire it any more.               *)
RetirementIsOwed ==
  present /\ mapped /\ ~RenderStores /\ upc \notin {"retire", "absent"} => published
=============================================================================
