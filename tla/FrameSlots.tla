------------------------------ MODULE FrameSlots ------------------------------
(***************************************************************************)
(* The picture on its way from the game to the host: FramePublisher's      *)
(* publish fills one of a few slots under a sequence and a generation per  *)
(* slot, SharedReader's poll takes a snapshot of the header, and the frame *)
(* loop uploads straight out of the slot while the game goes on writing.   *)
(*                                                                         *)
(* Frames are numbered in the order publish is called. The number stands   *)
(* for the frame's value of each field of the header and for its pixels,   *)
(* in two halves that are copied one by one. The game may die between any  *)
(* two stores, and close() of its next life makes even what it left odd.   *)
(***************************************************************************)
EXTENDS Integers

CONSTANTS
  Slots,      \* kFrameSlots
  MaxFrames,  \* bound: calls of publish
  MaxCrashes  \* bound: crashes of the game

ASSUME SlotsAssumption ==
  Slots \in Nat /\ Slots >= 2 /\ MaxFrames \in Nat /\ MaxCrashes \in Nat

VARIABLES
  \* SharedFrameHeader and the slots
  sequence,        \* odd while a frame is written
  slot,            \* the slot the header names
  slot_generation, \* per slot, odd while its pixels are written
  meta,            \* per field of the header, the frame whose value it has
  pose,            \* the frame whose rendered_orientation it carries, 0: not valid
  pixels,          \* per slot, the frame in either half
  \* the game's render thread
  wpc, frame, write_slot, posed, crashes,
  \* the host's frame thread
  rpc,
  last_sequence,
  local,           \* what poll has read so far
  snap,            \* snap_*: what the last poll that succeeded has read
  screen_layout,   \* the frame whose layout the upload slices by
  uploaded,        \* the frame in either half of what this iteration uploaded
  counted,         \* this iteration counted payload_overwritten
  \* history
  latest,          \* the newest frame published completely
  named,           \* the frame that last named a slot in the header
  cut,             \* a game died among the fields, and no publish has come to its slot since
  mixed            \* the sequences that close() made even while the header was cut

header == <<sequence, slot, slot_generation, meta, pose, pixels>>
writer == <<wpc, frame, write_slot, posed, crashes>>
history == <<latest, named, cut, mixed>>
reader == <<rpc, last_sequence, local, snap, screen_layout, uploaded, counted>>
vars   == <<header, writer, history, reader>>

Index == 0 .. Slots - 1
Odd(n) == n % 2 = 1
RoundUp(n) == IF Odd(n) THEN n + 1 ELSE n  \* (n + 1) & ~1, of an odd n
MarkOdd(n) == IF Odd(n) THEN n ELSE n + 1  \* n | 1

\* The fields of the header in the order publish stores them, the slot after them all.
\* (Left out are bytes and bgra, which the host does not read, and flat, which is not the
\* frame's: set_flat writes it through at any time.)
NextStore == [width |-> "height", height |-> "pitch", pitch |-> "layout", layout |-> "host_sequence",
              host_sequence |-> "slot"]
Fields == DOMAIN NextStore

\* The fields poll reads, some before the slot and some after its generation.
NextRead == [width |-> "height", height |-> "pitch", pitch |-> "slot", host_sequence |-> "pose"]
Polled == DOMAIN NextRead

NoUpload == <<0, 0>>
Nothing == [seq |-> 0, slot |-> 0, picture |-> 0, gen |-> 0, meta |-> [f \in Polled |-> 0], pose |-> 0]

Init ==
  /\ sequence = 0 /\ slot = 0 /\ meta = [f \in Fields |-> 0] /\ pose = 0
  /\ slot_generation = [i \in Index |-> 0]
  /\ pixels = [i \in Index |-> <<0, 0>>]
  /\ wpc = "idle" /\ frame = 0 /\ write_slot = 0 /\ posed = FALSE /\ crashes = 0
  /\ rpc = "poll" /\ last_sequence = 0
  /\ local = Nothing /\ snap = Nothing /\ screen_layout = 0
  /\ uploaded = NoUpload /\ counted = FALSE
  /\ latest = 0 /\ named = 0 /\ cut = FALSE /\ mixed = {}

-----------------------------------------------------------------------------
(* FramePublisher::publish *)

WStep(from, to) == wpc = from /\ wpc' = to

MarkAs(ws, gens) ==
  /\ WStep("idle", "open")
  /\ frame < MaxFrames
  /\ frame' = frame + 1
  /\ write_slot' = ws
  /\ posed' \in BOOLEAN
  /\ slot_generation' = gens
  /\ UNCHANGED <<sequence, slot, meta, pose, pixels, crashes, history, reader>>

\* Fault: the slot index is not wrapped.
MarkSlot_Unwrapped ==
  MarkAs(slot + 1, [slot_generation EXCEPT ![(slot + 1) % Slots] = MarkOdd(@)])

\* Fault: the pixels change under an even generation.
MarkSlot_Unmarked == MarkAs((slot + 1) % Slots, slot_generation)

\* any slot but the published one, and its generation odd before its pixels change
MarkSlot ==
  LET next == (slot + 1) % Slots
  IN  MarkAs(next, [slot_generation EXCEPT ![next] = MarkOdd(@)])

\* Fault: the header is opened by an increment, which closes one a crash left odd.
OpenHeader_Increment ==
  /\ WStep("open", "width")
  /\ sequence' = sequence + 1
  /\ UNCHANGED <<slot, slot_generation, meta, pose, pixels, frame, write_slot, posed, crashes, history, reader>>

OpenHeader ==
  /\ WStep("open", "width")
  /\ sequence' = MarkOdd(sequence)
  /\ UNCHANGED <<slot, slot_generation, meta, pose, pixels, frame, write_slot, posed, crashes, history, reader>>

StoreField ==
  /\ wpc \in Fields
  /\ wpc' = NextStore[wpc]
  /\ meta' = [meta EXCEPT ![wpc] = frame]
  /\ UNCHANGED <<sequence, slot, slot_generation, pose, pixels, frame, write_slot, posed, crashes, history, reader>>

NameSlot ==
  /\ WStep("slot", "copy")
  /\ slot' = write_slot
  /\ named' = frame /\ cut' = FALSE
  /\ UNCHANGED <<sequence, slot_generation, meta, pose, pixels, frame, write_slot, posed, crashes, latest, mixed, reader>>

CopyHalf ==
  /\ \/ WStep("copy", "copy2") /\ pixels' = [pixels EXCEPT ![write_slot][1] = frame]
     \/ WStep("copy2", "pose") /\ pixels' = [pixels EXCEPT ![write_slot][2] = frame]
  /\ UNCHANGED <<sequence, slot, slot_generation, meta, pose, frame, write_slot, posed, crashes, history, reader>>

WritePose ==
  /\ WStep("pose", "settle")
  /\ pose' = IF posed THEN frame ELSE 0
  /\ UNCHANGED <<sequence, slot, slot_generation, meta, pixels, frame, write_slot, posed, crashes, history, reader>>

SettleSlot ==
  /\ WStep("settle", "close")
  /\ slot_generation' = [slot_generation EXCEPT ![write_slot] = RoundUp(@)]
  /\ UNCHANGED <<sequence, slot, meta, pose, pixels, frame, write_slot, posed, crashes, history, reader>>

CloseHeader ==
  /\ WStep("close", "idle")
  /\ sequence' = RoundUp(sequence)
  /\ latest' = frame
  /\ write_slot' = 0 /\ posed' = FALSE
  /\ UNCHANGED <<slot, slot_generation, meta, pose, pixels, frame, crashes, named, cut, mixed, reader>>

\* The game dies inside publish; its successor opens the same section and keeps the header.
GameCrash ==
  /\ wpc # "idle"
  /\ crashes < MaxCrashes
  /\ crashes' = crashes + 1
  /\ wpc' = "idle"
  /\ write_slot' = 0 /\ posed' = FALSE
  /\ cut' = (cut \/ wpc \in (Fields \cup {"slot"}) \ {"width"})
  /\ UNCHANGED <<header, frame, latest, named, mixed, reader>>

\* FramePublisher::close between two frames, on a section an earlier life may have left odd:
\* the slot the header names counts as published again, whatever the fields say
CloseSection ==
  /\ wpc = "idle"
  /\ Odd(sequence)
  /\ sequence' = RoundUp(sequence)
  /\ latest' = IF Odd(slot_generation[slot]) THEN latest ELSE named
  /\ mixed' = IF cut THEN mixed \cup {RoundUp(sequence)} ELSE mixed
  /\ UNCHANGED <<slot, slot_generation, meta, pose, pixels, writer, named, cut, reader>>

Publish ==
  \/ MarkSlot \/ OpenHeader \/ StoreField \/ NameSlot \/ CopyHalf \/ WritePose \/ SettleSlot \/ CloseHeader

-----------------------------------------------------------------------------
(* SharedReader::poll, then the upload and the submission of the frame loop *)

RStep(from, to) == rpc = from /\ rpc' = to

\* mid-write, or nothing new: this iteration repeats the frame it has
NothingNew ==
  /\ RStep("poll", "check")
  /\ Odd(sequence) \/ sequence = last_sequence
  /\ uploaded' = NoUpload /\ counted' = FALSE
  /\ UNCHANGED <<header, writer, history, last_sequence, local, snap, screen_layout>>

ReadSequence ==
  /\ RStep("poll", "width")
  /\ ~Odd(sequence) /\ sequence # last_sequence
  /\ local' = [Nothing EXCEPT !.seq = sequence]
  /\ uploaded' = NoUpload /\ counted' = FALSE
  /\ UNCHANGED <<header, writer, history, last_sequence, snap, screen_layout>>

ReadField ==
  /\ rpc \in Polled
  /\ rpc' = NextRead[rpc]
  /\ local' = [local EXCEPT !.meta[rpc] = meta[rpc]]
  /\ UNCHANGED <<header, writer, history, last_sequence, snap, screen_layout, uploaded, counted>>

\* and, for the properties, which frame this slot was named for
ReadSlot ==
  /\ RStep("slot", "gen")
  /\ local' = [local EXCEPT !.slot = slot, !.picture = named]
  /\ UNCHANGED <<header, writer, history, last_sequence, snap, screen_layout, uploaded, counted>>

\* this poll fails: what was read is forgotten, what was committed stands
GiveUp == rpc' = "check" /\ local' = Nothing

ReadGeneration ==
  /\ rpc = "gen"
  /\ LET g == slot_generation[local.slot]
     IN  IF Odd(g) THEN GiveUp
         ELSE rpc' = "host_sequence" /\ local' = [local EXCEPT !.gen = g]
  /\ UNCHANGED <<header, writer, history, last_sequence, snap, screen_layout, uploaded, counted>>

ReadPose ==
  /\ RStep("pose", "recheck")
  /\ local' = [local EXCEPT !.pose = pose]
  /\ UNCHANGED <<header, writer, history, last_sequence, snap, screen_layout, uploaded, counted>>

\* Fault: the sequence is not read again.
Recheck_Never ==
  /\ rpc = "recheck"
  /\ snap' = local
  /\ last_sequence' = local.seq
  /\ rpc' = "layout" /\ local' = Nothing
  /\ UNCHANGED <<header, writer, history, screen_layout, uploaded, counted>>

\* The whole set is committed together, or none of it; a header without a size, of which
\* a part was never written, is no frame.
Recheck ==
  /\ rpc = "recheck"
  /\ IF sequence = local.seq /\ 0 \notin {local.meta["width"], local.meta["height"], local.meta["pitch"]}
     THEN /\ snap' = local
          /\ last_sequence' = local.seq
          /\ rpc' = "layout" /\ local' = Nothing
     ELSE GiveUp /\ UNCHANGED <<snap, last_sequence>>
  /\ UNCHANGED <<header, writer, history, screen_layout, uploaded, counted>>

\* the layout is not in the snapshot: the loop reads the header once more
ReadLayout ==
  /\ RStep("layout", "upload")
  /\ screen_layout' = meta["layout"]
  /\ UNCHANGED <<header, writer, history, last_sequence, local, snap, uploaded, counted>>

\* shouldRender is off, or an image could not be acquired
SkipUpload ==
  /\ RStep("upload", "check")
  /\ UNCHANGED <<header, writer, history, last_sequence, local, snap, screen_layout, uploaded, counted>>

UploadHalf ==
  /\ \/ RStep("upload", "upload2") /\ uploaded' = [uploaded EXCEPT ![1] = pixels[snap.slot][1]]
     \/ RStep("upload2", "check") /\ uploaded' = [uploaded EXCEPT ![2] = pixels[snap.slot][2]]
  /\ UNCHANGED <<header, writer, history, last_sequence, local, snap, screen_layout, counted>>

Overwritten == slot_generation[snap.slot] # snap.gen

\* did the writer wrap into the slot just uploaded?
CheckOverwritten ==
  /\ RStep("check", "submit")
  /\ counted' = (snap.pose # 0 /\ Overwritten)
  /\ UNCHANGED <<header, writer, history, last_sequence, local, snap, screen_layout, uploaded>>

Submit ==
  /\ RStep("submit", "poll")
  /\ UNCHANGED <<header, writer, history, last_sequence, local, snap, screen_layout, uploaded, counted>>

Host ==
  \/ NothingNew \/ ReadSequence \/ ReadSlot \/ ReadGeneration \/ ReadField \/ ReadPose \/ Recheck
  \/ ReadLayout \/ SkipUpload \/ UploadHalf \/ CheckOverwritten \/ Submit

Next == Publish \/ GameCrash \/ CloseSection \/ Host

Spec == Init /\ [][Next]_vars

-----------------------------------------------------------------------------
(* What must hold *)

Frames == 0 .. MaxFrames
Reading == [seq : Nat, slot : Index, picture : Frames, gen : Nat, meta : [Polled -> Frames], pose : Frames]

\* Every variable has its type (SharedFrameHeader, publish's and poll's locals).
TypeOK ==
  /\ sequence \in Nat /\ slot \in Index
  /\ slot_generation \in [Index -> Nat]
  /\ meta \in [Fields -> Frames] /\ pose \in Frames
  /\ pixels \in [Index -> Frames \X Frames]
  /\ wpc \in {"idle", "open", "slot", "copy", "copy2", "pose", "settle", "close"} \cup Fields
  /\ frame \in Frames /\ write_slot \in Index /\ posed \in BOOLEAN
  /\ crashes \in 0 .. MaxCrashes
  /\ rpc \in {"poll", "slot", "gen", "pose", "recheck", "layout", "upload", "upload2", "check", "submit"} \cup Polled
  /\ last_sequence \in Nat
  /\ local \in Reading /\ snap \in Reading
  /\ screen_layout \in Frames
  /\ counted \in BOOLEAN
  /\ uploaded \in Frames \X Frames
  /\ latest \in Frames /\ named \in Frames /\ cut \in BOOLEAN /\ mixed \subseteq Nat

\* What a successful poll commits is one frame: it was complete in the slot taken, unless
\* the slot has been entered again since, the pose is that frame's or none, and so are the
\* fields of the header. The fields, and only they, may be of two frames at a sequence that
\* close() made even after a game had died among their stores (SharedReader::poll against
\* publish and close).
OneFramePerSnapshot ==
  /\ snap.pose \in {0, snap.picture}
  /\ Overwritten \/ pixels[snap.slot] = <<snap.picture, snap.picture>>
  /\ snap.seq \notin mixed => \A f \in Polled : snap.meta[f] = snap.picture

Torn == uploaded \notin {NoUpload, <<snap.picture, snap.picture>>}

\* The grace of the slots: an image can only be torn once the game has begun as many
\* further frames as there are slots; and if the frame states its pose it never goes
\* unseen, its generation has moved by the time the loop asks (payload_overwritten).
TornOnlyWhenLapped ==
  rpc \in {"check", "submit"} /\ Torn =>
    /\ frame >= snap.picture + Slots
    /\ rpc = "submit" /\ snap.pose # 0 => counted

Mailbox == INSTANCE FrameMailbox WITH held <- snap.picture

\* The pictures that poll takes out of the section are those of a mailbox of complete
\* frames, also across a crash of the game between any two stores of publish: half a
\* header brings no picture that was not complete, and none that is older. (The blank slot
\* of a section in which nobody has come to name one is the frame before the first.)
ImplementsMailbox == Mailbox!Spec

=============================================================================
