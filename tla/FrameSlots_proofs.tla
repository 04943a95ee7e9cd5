--------------------------- MODULE FrameSlots_proofs ---------------------------
(***************************************************************************)
(* Proofs about the frame slots, for every number of slots from two on,    *)
(* any number of frames and any number of crashes of the game.             *)
(***************************************************************************)
EXTENDS FrameSlots, TLAPS

-----------------------------------------------------------------------------
(* The inductive invariant *)

Whole(s, n) == pixels[s] = <<n, n>>

\* The fields that publish has stored when it comes to a field, or to the slot.
Stored == [width |-> {}, height |-> {"width"}, pitch |-> {"width", "height"},
           layout |-> {"width", "height", "pitch"},
           host_sequence |-> {"width", "height", "pitch", "layout"},
           slot |-> Fields]

OfFrame(n) == \A f \in Fields : meta[f] = n

\* Where publish is, and what it has done so far for the slot it fills.
WriterInv ==
  /\ frame >= named /\ named >= latest
  /\ wpc # "idle" => frame > latest /\ (wpc # "close" => Odd(slot_generation[write_slot]))
  /\ wpc \in {"open", "slot"} \cup Fields => frame > named /\ write_slot = (slot + 1) % Slots
  /\ wpc \notin {"idle", "open"} => Odd(sequence)
  /\ wpc \in Fields \cup {"slot"} => \A f \in Stored[wpc] : meta[f] = frame
  /\ wpc \in {"copy", "copy2", "pose", "settle", "close"} => slot = write_slot /\ named = frame /\ ~cut /\ OfFrame(frame)
  /\ wpc = "copy2" => pixels[slot][1] = frame
  /\ wpc \in {"pose", "settle", "close"} => Whole(slot, frame)
  /\ wpc \in {"settle", "close"} => pose \in {0, frame}

\* Before publish has stored a field the header describes the frame that named its slot,
\* unless a life ended among the fields; at an even sequence, close() has noted that.
FieldsInv ==
  /\ wpc \in {"idle", "open", "width"} /\ ~cut => OfFrame(named)
  /\ ~Odd(sequence) /\ sequence \notin mixed => OfFrame(named)

\* If its slot has an even generation, the frame that named it is in it; at an even
\* sequence this frame is the newest complete one.
HeaderInv ==
  ~Odd(slot_generation[slot]) =>
    /\ Whole(slot, named) /\ pose \in {0, named}
    /\ ~Odd(sequence) => latest = named

\* The fields that poll has read when it comes to one, or further.
Looked == [width |-> {}, height |-> {"width"}, pitch |-> {"width", "height"},
           slot |-> {"width", "height", "pitch"}, gen |-> {"width", "height", "pitch"},
           host_sequence |-> {"width", "height", "pitch"},
           pose |-> Polled, recheck |-> Polled]

\* As long as the sequence stands, what poll has read so far is what the header says.
PollInv ==
  /\ local.seq <= sequence /\ ~Odd(local.seq)
  /\ sequence = local.seq =>
       /\ rpc \in DOMAIN Looked => \A f \in Looked[rpc] : local.meta[f] = meta[f]
       /\ rpc \in {"gen", "host_sequence", "pose", "recheck"} => local.slot = slot /\ local.picture = named
       /\ rpc \in {"host_sequence", "pose", "recheck"} => slot_generation[slot] = local.gen
       /\ rpc = "recheck" => local.pose = pose
  /\ ~Odd(local.gen)

\* How many slots b is ahead of a.
Ahead(a, b) == IF b >= a THEN b - a ELSE b - a + Slots

\* The frame committed last is whole in its slot until the slot is entered again, which
\* takes as many frames as there are slots.
SnapInv ==
  /\ snap.pose \in {0, snap.picture} /\ snap.picture <= latest
  /\ ~Odd(snap.gen) /\ snap.gen <= slot_generation[snap.slot]
  /\ Overwritten => frame >= snap.picture + Slots
  /\ ~Overwritten => Whole(snap.slot, snap.picture) /\ named >= snap.picture + Ahead(snap.slot, slot)
  /\ snap.seq \notin mixed => \A f \in Polled : snap.meta[f] = snap.picture

\* An upload of anything but that frame has met the slot entered again.
UploadInv ==
  /\ rpc \in {"slot", "gen", "pose", "recheck", "layout", "upload"} \cup Polled => uploaded = NoUpload
  /\ rpc = "upload2" => uploaded[1] = snap.picture \/ Overwritten
  /\ rpc \in {"check", "submit"} /\ Torn => Overwritten
  /\ rpc = "submit" /\ Torn /\ snap.pose # 0 => counted

IInv ==
  /\ TypeOK
  /\ WriterInv
  /\ FieldsInv
  /\ HeaderInv
  /\ PollInv
  /\ SnapInv
  /\ UploadInv

-----------------------------------------------------------------------------
(* Parities and slots *)

\* The two roundings of publish, and the slot after another.
LEMMA Rounding ==
  ASSUME NEW n \in Nat
  PROVE  /\ MarkOdd(n) \in Nat /\ Odd(MarkOdd(n)) /\ MarkOdd(n) >= n
         /\ RoundUp(n) \in Nat /\ ~Odd(RoundUp(n)) /\ RoundUp(n) >= n
         /\ ~Odd(n) => MarkOdd(n) > n
         /\ Odd(n) => RoundUp(n) > n /\ MarkOdd(n) = n
  BY DEF MarkOdd, RoundUp, Odd

LEMMA FirstSlot == 0 \in Index
  BY SlotsAssumption DEF Index

LEMMA NextSlot ==
  ASSUME NEW s \in Index
  PROVE  /\ (s + 1) % Slots = IF s + 1 = Slots THEN 0 ELSE s + 1
         /\ (s + 1) % Slots \in Index /\ (s + 1) % Slots # s
  BY SlotsAssumption DEF Index

\* The order of the stores and of the reads, written out.
LEMMA StoreOrder ==
  /\ Fields = {"width", "height", "pitch", "layout", "host_sequence"}
  /\ NextStore["width"] = "height" /\ NextStore["height"] = "pitch" /\ NextStore["pitch"] = "layout"
  /\ NextStore["layout"] = "host_sequence" /\ NextStore["host_sequence"] = "slot"
  /\ Stored["width"] = {} /\ Stored["slot"] = Fields
  /\ \A f \in Fields : Stored[f] \subseteq Fields /\ f \notin Stored[f]
  /\ \A f \in Fields : Stored[NextStore[f]] = Stored[f] \cup {f}
<1>1. Fields = {"width", "height", "pitch", "layout", "host_sequence"}
  BY DEF Fields, NextStore
<1>2. /\ NextStore["width"] = "height" /\ NextStore["height"] = "pitch" /\ NextStore["pitch"] = "layout"
      /\ NextStore["layout"] = "host_sequence" /\ NextStore["host_sequence"] = "slot"
  BY DEF NextStore
<1>3. /\ Stored["width"] = {} /\ Stored["height"] = {"width"} /\ Stored["pitch"] = {"width", "height"}
      /\ Stored["layout"] = {"width", "height", "pitch"}
      /\ Stored["host_sequence"] = {"width", "height", "pitch", "layout"}
      /\ Stored["slot"] = Fields
  BY DEF Stored
<1>4. QED
  BY <1>1, <1>2, <1>3

LEMMA ReadOrder ==
  /\ Polled = {"width", "height", "pitch", "host_sequence"}
  /\ NextRead["width"] = "height" /\ NextRead["height"] = "pitch" /\ NextRead["pitch"] = "slot"
  /\ NextRead["host_sequence"] = "pose"
  /\ DOMAIN Looked = Polled \cup {"slot", "gen", "pose", "recheck"}
  /\ Looked["width"] = {} /\ Looked["recheck"] = Polled
  /\ Looked["gen"] = Looked["slot"] /\ Looked["host_sequence"] = Looked["gen"] /\ Looked["recheck"] = Looked["pose"]
  /\ \A f \in Polled : Looked[NextRead[f]] = Looked[f] \cup {f}
<1>1. Polled = {"width", "height", "pitch", "host_sequence"}
  BY DEF Polled, NextRead
<1>2. /\ NextRead["width"] = "height" /\ NextRead["height"] = "pitch" /\ NextRead["pitch"] = "slot"
      /\ NextRead["host_sequence"] = "pose"
  BY DEF NextRead
<1>3. /\ DOMAIN Looked = {"width", "height", "pitch", "slot", "gen", "host_sequence", "pose", "recheck"}
      /\ Looked["width"] = {} /\ Looked["height"] = {"width"} /\ Looked["pitch"] = {"width", "height"}
      /\ Looked["slot"] = {"width", "height", "pitch"} /\ Looked["gen"] = {"width", "height", "pitch"}
      /\ Looked["host_sequence"] = {"width", "height", "pitch"}
      /\ Looked["pose"] = Polled /\ Looked["recheck"] = Polled
  BY DEF Looked
<1>4. QED
  BY <1>1, <1>2, <1>3

\* The types of what poll has read and committed, field by field.
LEMMA ReadTypes ==
  ASSUME TypeOK
  PROVE  /\ local.seq \in Nat /\ local.slot \in Index /\ local.gen \in Nat
         /\ local.picture \in Frames /\ local.meta \in [Polled -> Frames] /\ local.pose \in Frames
         /\ snap.seq \in Nat /\ snap.slot \in Index /\ snap.gen \in Nat
         /\ snap.picture \in Frames /\ snap.meta \in [Polled -> Frames] /\ snap.pose \in Frames
         /\ slot_generation[local.slot] \in Nat /\ slot_generation[snap.slot] \in Nat
  BY DEF TypeOK, Reading

-----------------------------------------------------------------------------
(* The initial state *)

LEMMA InitInv == Init => IInv
<1> SUFFICES ASSUME Init PROVE IInv
  OBVIOUS
<1>1. TypeOK
  <2>1. 0 \in Index /\ 0 \in Frames /\ 0 \in 0 .. MaxCrashes
    BY SlotsAssumption DEF Index, Frames
  <2>2. Nothing \in Reading
    BY <2>1 DEF Nothing, Reading
  <2>3. [i \in Index |-> <<0, 0>>] \in [Index -> Frames \X Frames] /\ [f \in Fields |-> 0] \in [Fields -> Frames]
    BY <2>1
  <2>4. QED
    BY <2>1, <2>2, <2>3 DEF Init, TypeOK, NoUpload
<1>2. WriterInv /\ FieldsInv /\ HeaderInv
  BY FirstSlot, StoreOrder DEF Init, WriterInv, FieldsInv, HeaderInv, OfFrame, Whole, Odd
<1>3. PollInv /\ UploadInv
  BY ReadOrder DEF Init, PollInv, UploadInv, Torn, Nothing, NoUpload, Odd
<1>4. SnapInv
  BY FirstSlot, SlotsAssumption DEF Init, SnapInv, Ahead, Overwritten, Whole, Nothing, Odd
<1>5. QED
  BY <1>1, <1>2, <1>3, <1>4 DEF IInv

-----------------------------------------------------------------------------
(* The steps of the game *)

\* Generations only grow: once a slot is entered again it stays so for the upload.
LEMMA UploadKept ==
  ASSUME IInv, UNCHANGED reader,
         \A s \in Index : slot_generation'[s] \in Nat /\ slot_generation'[s] >= slot_generation[s]
  PROVE  UploadInv'
<1>1. Overwritten => Overwritten'
  BY ReadTypes DEF IInv, SnapInv, Overwritten, reader
<1>2. Torn' = Torn
  BY DEF Torn, reader
<1>3. QED
  BY <1>1, <1>2 DEF IInv, UploadInv, reader

LEMMA MarkSlotInv ==
  ASSUME IInv, MarkSlot
  PROVE  IInv'
<1> DEFINE next == (slot + 1) % Slots
<1>1. /\ wpc = "idle" /\ wpc' = "open" /\ frame < MaxFrames /\ frame' = frame + 1
      /\ write_slot' = next /\ posed' \in BOOLEAN
      /\ slot_generation' = [slot_generation EXCEPT ![next] = MarkOdd(@)]
      /\ UNCHANGED <<sequence, slot, meta, pose, pixels, crashes, history, reader>>
  BY DEF MarkSlot, MarkAs, WStep
<1>2. next \in Index /\ next # slot /\ next = (IF slot + 1 = Slots THEN 0 ELSE slot + 1)
  BY NextSlot DEF IInv, TypeOK
<1> HIDE DEF next
<1>3. /\ slot_generation'[next] = MarkOdd(slot_generation[next])
      /\ MarkOdd(slot_generation[next]) \in Nat /\ Odd(MarkOdd(slot_generation[next]))
      /\ MarkOdd(slot_generation[next]) >= slot_generation[next]
      /\ \A s \in Index \ {next} : slot_generation'[s] = slot_generation[s]
  BY <1>1, <1>2, Rounding DEF IInv, TypeOK
<1>4. TypeOK'
  BY <1>1, <1>2, <1>3, SlotsAssumption DEF IInv, TypeOK, Frames, history, reader
<1>5. WriterInv' /\ FieldsInv' /\ HeaderInv'
  <2>1. WriterInv'
    BY <1>1, <1>2, <1>3, <1>4, SlotsAssumption, StoreOrder DEF IInv, TypeOK, WriterInv, history, next, Frames
  <2>2. FieldsInv' /\ HeaderInv'
    BY <1>1, <1>2, <1>3 DEF IInv, TypeOK, FieldsInv, OfFrame, HeaderInv, Whole, history
  <2>3. QED
    BY <2>1, <2>2
<1>6. PollInv'
  BY <1>1, <1>2, <1>3, <1>4 DEF IInv, TypeOK, PollInv, WriterInv, history, reader
<1>7. SnapInv'
  <2>1. CASE snap.slot = next
    <3>1. ~Overwritten => frame + 1 >= snap.picture + Slots
      <4>1. slot \in Index /\ frame \in Nat /\ named \in Nat
        BY DEF IInv, TypeOK, Frames
      <4>2. Ahead(next, slot) = Slots - 1
        BY <4>1, <1>2, SlotsAssumption DEF Ahead, Index
      <4>3. ~Overwritten => named >= snap.picture + Ahead(snap.slot, slot)
        BY DEF IInv, SnapInv
      <4>4. QED
        BY <4>1, <4>2, <4>3, <2>1, ReadTypes, SlotsAssumption DEF IInv, WriterInv, Frames
    <3>2. Overwritten'
      BY <2>1, <1>1, <1>3 DEF IInv, SnapInv, Overwritten, reader
    <3>3. QED
      BY <2>1, <3>1, <3>2, <1>1, <1>3, ReadTypes, SlotsAssumption DEF IInv, TypeOK, SnapInv, history, reader, Frames
  <2>2. CASE snap.slot # next
    BY <2>2, <1>1, <1>3, ReadTypes, SlotsAssumption
       DEF IInv, TypeOK, SnapInv, Overwritten, Ahead, Whole, history, reader, Frames
  <2>3. QED
    BY <2>1, <2>2
<1>8. UploadInv'
  BY <1>1, <1>2, <1>3, UploadKept DEF IInv, TypeOK
<1>9. QED
  BY <1>4, <1>5, <1>6, <1>7, <1>8 DEF IInv

LEMMA OpenHeaderInv ==
  ASSUME IInv, OpenHeader
  PROVE  IInv'
<1>1. /\ wpc = "open" /\ wpc' = "width" /\ sequence' = MarkOdd(sequence)
      /\ UNCHANGED <<slot, slot_generation, meta, pose, pixels, frame, write_slot, posed, crashes, history, reader>>
  BY DEF OpenHeader, WStep
<1>2. sequence' \in Nat /\ Odd(sequence') /\ sequence' >= sequence
  BY <1>1, Rounding DEF IInv, TypeOK
<1>3. TypeOK'
  BY <1>1, <1>2, StoreOrder DEF IInv, TypeOK, history, reader
<1>4. WriterInv' /\ FieldsInv' /\ HeaderInv'
  BY <1>1, <1>2, StoreOrder DEF IInv, WriterInv, FieldsInv, OfFrame, HeaderInv, Whole, history
<1>5. PollInv'
  BY <1>1, <1>2, Rounding, ReadTypes DEF IInv, TypeOK, PollInv, history, reader
<1>6. SnapInv'
  BY <1>1 DEF IInv, SnapInv, Overwritten, Whole, Ahead, history, reader
<1>7. UploadInv'
  BY <1>1, UploadKept DEF IInv, TypeOK
<1>8. QED
  BY <1>3, <1>4, <1>5, <1>6, <1>7 DEF IInv

LEMMA StoreFieldInv ==
  ASSUME IInv, StoreField
  PROVE  IInv'
<1>1. /\ wpc \in Fields /\ wpc' = NextStore[wpc] /\ meta' = [meta EXCEPT ![wpc] = frame]
      /\ UNCHANGED <<sequence, slot, slot_generation, pose, pixels, frame, write_slot, posed, crashes, history, reader>>
  BY DEF StoreField
<1>2. wpc' \in (Fields \ {"width"}) \cup {"slot"} /\ Stored[wpc'] = Stored[wpc] \cup {wpc}
  BY <1>1, StoreOrder
<1>3. /\ frame > named /\ frame > latest /\ Odd(sequence) /\ Odd(slot_generation[write_slot])
      /\ write_slot = (slot + 1) % Slots /\ \A f \in Stored[wpc] : meta[f] = frame
  BY <1>1, StoreOrder DEF IInv, WriterInv
<1>4. meta' \in [Fields -> Frames] /\ \A f \in Stored[wpc'] : meta'[f] = frame
  BY <1>1, <1>2, <1>3, StoreOrder DEF IInv, TypeOK
<1>5. TypeOK'
  BY <1>1, <1>2, <1>4, StoreOrder DEF IInv, TypeOK, history, reader
<1>6. WriterInv' /\ FieldsInv' /\ HeaderInv'
  BY <1>1, <1>2, <1>3, <1>4, StoreOrder DEF IInv, WriterInv, FieldsInv, HeaderInv, Whole, history
<1>7. PollInv'
  BY <1>1, <1>3 DEF IInv, PollInv, history, reader
<1>8. SnapInv'
  BY <1>1 DEF IInv, SnapInv, Overwritten, Whole, Ahead, history, reader
<1>9. UploadInv'
  BY <1>1, UploadKept DEF IInv, TypeOK
<1>10. QED
  BY <1>5, <1>6, <1>7, <1>8, <1>9 DEF IInv

LEMMA NameSlotInv ==
  ASSUME IInv, NameSlot
  PROVE  IInv'
<1>1. /\ wpc = "slot" /\ wpc' = "copy" /\ slot' = write_slot /\ named' = frame /\ cut' = FALSE
      /\ UNCHANGED <<sequence, slot_generation, meta, pose, pixels, frame, write_slot, posed, crashes,
                     latest, mixed, reader>>
  BY DEF NameSlot, WStep
<1>2. /\ frame > named /\ frame > latest /\ Odd(sequence) /\ Odd(slot_generation[write_slot])
      /\ write_slot = (slot + 1) % Slots /\ OfFrame(frame)
  BY <1>1, StoreOrder DEF IInv, WriterInv, OfFrame
<1>3. TypeOK'
  BY <1>1 DEF IInv, TypeOK, reader
<1>4. WriterInv' /\ FieldsInv' /\ HeaderInv'
  BY <1>1, <1>2, <1>3, StoreOrder DEF TypeOK, WriterInv, FieldsInv, OfFrame, HeaderInv, Frames
<1>5. PollInv'
  BY <1>1, <1>2 DEF IInv, PollInv, reader
<1>6. SnapInv'
  <2>1. Overwritten' <=> Overwritten
    BY <1>1 DEF Overwritten, reader
  <2>2. ASSUME ~Overwritten
        PROVE  Ahead(snap.slot, write_slot) = Ahead(snap.slot, slot) + 1
    <3>1. write_slot # snap.slot
      BY <2>2, <1>2 DEF IInv, SnapInv, Overwritten
    <3>2. slot \in Index /\ snap.slot \in Index /\ write_slot = (IF slot + 1 = Slots THEN 0 ELSE slot + 1)
      BY <1>2, NextSlot, ReadTypes DEF IInv, TypeOK
    <3>3. QED
      BY <3>1, <3>2, SlotsAssumption DEF Ahead, Index
  <2>3. ASSUME ~Overwritten
        PROVE  frame >= snap.picture + Ahead(snap.slot, write_slot)
    <3>1. named >= snap.picture + Ahead(snap.slot, slot)
      BY <2>3 DEF IInv, SnapInv
    <3>2. Ahead(snap.slot, slot) \in Int /\ frame \in Nat /\ named \in Nat /\ snap.picture \in Nat
      <4>1. slot \in Index /\ snap.slot \in Index
        BY ReadTypes DEF IInv, TypeOK
      <4>2. Ahead(snap.slot, slot) \in Int
        BY <4>1, SlotsAssumption DEF Ahead, Index
      <4>3. QED
        BY <4>2, ReadTypes DEF IInv, TypeOK, Frames
    <3>3. QED
      BY <2>2, <2>3, <3>1, <3>2, <1>2
  <2>4. Ahead(snap.slot, write_slot) = Ahead(snap.slot, slot)'
    BY <1>1 DEF Ahead, reader
  <2>5. QED
    BY <2>1, <2>3, <2>4, <1>1 DEF IInv, SnapInv, Whole, reader
<1>7. UploadInv'
  BY <1>1, UploadKept DEF IInv, TypeOK
<1>8. QED
  BY <1>3, <1>4, <1>5, <1>6, <1>7 DEF IInv

LEMMA CopyHalfInv ==
  ASSUME IInv, CopyHalf
  PROVE  IInv'
<1>1. /\ \/ wpc = "copy" /\ wpc' = "copy2" /\ pixels' = [pixels EXCEPT ![write_slot][1] = frame]
         \/ wpc = "copy2" /\ wpc' = "pose" /\ pixels' = [pixels EXCEPT ![write_slot][2] = frame]
      /\ UNCHANGED <<sequence, slot, slot_generation, meta, pose, frame, write_slot, posed, crashes, history, reader>>
  BY DEF CopyHalf, WStep
<1>2. /\ Odd(slot_generation[slot]) /\ Odd(sequence) /\ slot = write_slot /\ frame > latest
      /\ named = frame /\ ~cut /\ OfFrame(frame)
      /\ wpc = "copy2" => pixels[slot][1] = frame
  BY <1>1 DEF IInv, WriterInv
<1>3. /\ write_slot \in Index /\ frame \in Frames
      /\ pixels \in [Index -> Frames \X Frames]
  BY DEF IInv, TypeOK
<1>4. /\ pixels' \in [Index -> Frames \X Frames]
      /\ \A s \in Index \ {write_slot} : pixels'[s] = pixels[s]
      /\ wpc' = "copy2" => pixels'[slot][1] = frame
      /\ wpc' = "pose" => pixels'[slot] = <<frame, frame>>
  BY <1>1, <1>2, <1>3
<1>5. TypeOK'
  BY <1>1, <1>4 DEF IInv, TypeOK, history, reader
<1>6. WriterInv' /\ FieldsInv' /\ HeaderInv'
  BY <1>1, <1>2, <1>4, <1>5, StoreOrder
     DEF IInv, TypeOK, WriterInv, FieldsInv, OfFrame, HeaderInv, Whole, history
<1>7. PollInv'
  BY <1>1, <1>2 DEF IInv, PollInv, history, reader
<1>8. SnapInv'
  <2>1. Overwritten' = Overwritten /\ snap.slot \in Index
    BY <1>1, ReadTypes DEF IInv, Overwritten, reader
  <2>2. ~Overwritten => snap.slot # write_slot
    BY <1>2 DEF IInv, SnapInv, Overwritten
  <2>3. QED
    BY <1>1, <1>4, <2>1, <2>2 DEF IInv, SnapInv, Whole, Ahead, history, reader
<1>9. UploadInv'
  BY <1>1, UploadKept DEF IInv, TypeOK
<1>10. QED
  BY <1>5, <1>6, <1>7, <1>8, <1>9 DEF IInv

LEMMA WritePoseInv ==
  ASSUME IInv, WritePose
  PROVE  IInv'
<1>1. /\ wpc = "pose" /\ wpc' = "settle" /\ pose' = IF posed THEN frame ELSE 0
      /\ UNCHANGED <<sequence, slot, slot_generation, meta, pixels, frame, write_slot, posed, crashes, history, reader>>
  BY DEF WritePose, WStep
<1>2. Odd(slot_generation[slot]) /\ Odd(sequence)
  BY <1>1 DEF IInv, WriterInv
<1>3. pose' \in {0, frame} /\ pose' \in Frames
  BY <1>1, SlotsAssumption DEF IInv, TypeOK, Frames
<1>4. TypeOK'
  BY <1>1, <1>3 DEF IInv, TypeOK, history, reader
<1>5. WriterInv' /\ FieldsInv' /\ HeaderInv'
  BY <1>1, <1>2, <1>3, StoreOrder DEF IInv, WriterInv, FieldsInv, OfFrame, HeaderInv, Whole, history
<1>6. PollInv'
  BY <1>1, <1>2 DEF IInv, PollInv, history, reader
<1>7. SnapInv'
  BY <1>1 DEF IInv, SnapInv, Overwritten, Whole, Ahead, history, reader
<1>8. UploadInv'
  BY <1>1, UploadKept DEF IInv, TypeOK
<1>9. QED
  BY <1>4, <1>5, <1>6, <1>7, <1>8 DEF IInv

LEMMA SettleSlotInv ==
  ASSUME IInv, SettleSlot
  PROVE  IInv'
<1>1. /\ wpc = "settle" /\ wpc' = "close"
      /\ slot_generation' = [slot_generation EXCEPT ![write_slot] = RoundUp(@)]
      /\ UNCHANGED <<sequence, slot, meta, pose, pixels, frame, write_slot, posed, crashes, history, reader>>
  BY DEF SettleSlot, WStep
<1>2. Odd(slot_generation[slot]) /\ Odd(sequence) /\ slot = write_slot /\ named = frame
  BY <1>1 DEF IInv, WriterInv
<1>3. /\ write_slot \in Index /\ slot_generation' \in [Index -> Nat]
      /\ slot_generation'[write_slot] > slot_generation[write_slot]
      /\ \A s \in Index \ {write_slot} : slot_generation'[s] = slot_generation[s]
  BY <1>1, <1>2, Rounding DEF IInv, TypeOK
<1>4. TypeOK'
  BY <1>1, <1>3 DEF IInv, TypeOK, history, reader
<1>5. WriterInv' /\ FieldsInv' /\ HeaderInv'
  BY <1>1, <1>2, <1>3, StoreOrder DEF IInv, WriterInv, FieldsInv, OfFrame, HeaderInv, Whole, history
<1>6. PollInv'
  BY <1>1, <1>2 DEF IInv, PollInv, history, reader
<1>7. SnapInv'
  <2>1. CASE snap.slot = write_slot
    <3>1. Overwritten /\ Overwritten'
      BY <2>1, <1>1, <1>2, <1>3, ReadTypes DEF IInv, TypeOK, SnapInv, Overwritten, history, reader
    <3>2. snap.gen <= slot_generation'[snap.slot]
      BY <2>1, <1>3, ReadTypes DEF IInv, TypeOK, SnapInv
    <3>3. QED
      BY <3>1, <3>2, <1>1 DEF IInv, SnapInv, history, reader
  <2>2. CASE snap.slot # write_slot
    <3>1. snap.slot \in Index
      BY ReadTypes DEF IInv
    <3>2. QED
      BY <2>2, <3>1, <1>1, <1>3 DEF IInv, SnapInv, Overwritten, Whole, Ahead, history, reader
  <2>3. QED
    BY <2>1, <2>2
<1>8. UploadInv'
  <2>1. \A s \in Index : slot_generation'[s] \in Nat /\ slot_generation'[s] >= slot_generation[s]
    BY <1>3 DEF IInv, TypeOK
  <2>2. QED
    BY <1>1, <2>1, UploadKept
<1>9. QED
  BY <1>4, <1>5, <1>6, <1>7, <1>8 DEF IInv

LEMMA CloseHeaderInv ==
  ASSUME IInv, CloseHeader
  PROVE  IInv'
<1>1. /\ wpc = "close" /\ wpc' = "idle" /\ sequence' = RoundUp(sequence) /\ latest' = frame
      /\ write_slot' = 0 /\ posed' = FALSE
      /\ UNCHANGED <<slot, slot_generation, meta, pose, pixels, frame, crashes, named, cut, mixed, reader>>
  BY DEF CloseHeader, WStep
<1>2. /\ Odd(sequence) /\ named = frame /\ OfFrame(frame) /\ Whole(slot, frame) /\ pose \in {0, frame} /\ frame > latest
  BY <1>1 DEF IInv, WriterInv
<1>3. sequence' \in Nat /\ sequence' > sequence
  BY <1>1, <1>2, Rounding DEF IInv, TypeOK
<1>4. TypeOK'
  BY <1>1, <1>3, FirstSlot DEF IInv, TypeOK, reader
<1>5. WriterInv' /\ FieldsInv' /\ HeaderInv'
  BY <1>1, <1>2, <1>4, StoreOrder DEF TypeOK, WriterInv, FieldsInv, OfFrame, HeaderInv, Whole, Frames
<1>6. PollInv'
  BY <1>1, <1>3, ReadTypes DEF IInv, TypeOK, PollInv, reader
<1>7. SnapInv'
  <2>1. snap.picture <= latest'
    BY <1>1, <1>2, ReadTypes DEF IInv, TypeOK, SnapInv, Frames
  <2>2. QED
    BY <2>1, <1>1 DEF IInv, SnapInv, Overwritten, Whole, Ahead, reader
<1>8. UploadInv'
  BY <1>1, UploadKept DEF IInv, TypeOK
<1>9. QED
  BY <1>4, <1>5, <1>6, <1>7, <1>8 DEF IInv

\* A crash leaves the header and the slots as they are.
LEMMA GameCrashInv ==
  ASSUME IInv, GameCrash
  PROVE  IInv'
<1>1. /\ wpc # "idle" /\ wpc' = "idle" /\ crashes < MaxCrashes /\ crashes' = crashes + 1
      /\ write_slot' = 0 /\ posed' = FALSE
      /\ cut' = (cut \/ wpc \in (Fields \cup {"slot"}) \ {"width"})
      /\ UNCHANGED <<header, frame, latest, named, mixed, reader>>
  BY DEF GameCrash
<1>2. TypeOK'
  <2>1. crashes \in 0 .. MaxCrashes
    BY DEF IInv, TypeOK
  <2>2. crashes' \in 0 .. MaxCrashes
    BY <1>1, <2>1, SlotsAssumption
  <2>3. write_slot' \in Index /\ posed' \in BOOLEAN /\ cut' \in BOOLEAN
    BY <1>1, FirstSlot DEF IInv, TypeOK
  <2>4. QED
    BY <1>1, <2>2, <2>3 DEF IInv, TypeOK, header, reader
<1>3. WriterInv' /\ HeaderInv'
  BY <1>1, StoreOrder DEF IInv, WriterInv, HeaderInv, Whole, header
<1>4. FieldsInv'
  <2>1. wpc \in {"idle", "open", "slot", "copy", "copy2", "pose", "settle", "close"} \cup Fields
    BY DEF IInv, TypeOK
  <2>2. ~cut' => OfFrame(named)
    BY <1>1, <2>1, StoreOrder DEF IInv, FieldsInv, WriterInv
  <2>3. QED
    BY <1>1, <2>2 DEF IInv, FieldsInv, OfFrame, header
<1>5. PollInv'
  BY <1>1 DEF IInv, PollInv, header, reader
<1>6. SnapInv'
  BY <1>1 DEF IInv, SnapInv, Overwritten, Whole, Ahead, header, reader
<1>7. UploadInv'
  BY <1>1, UploadKept DEF IInv, TypeOK, header
<1>8. QED
  BY <1>2, <1>3, <1>4, <1>5, <1>6, <1>7 DEF IInv

\* Closing what a crash left open publishes the frame in the header's slot, if it is complete.
LEMMA CloseSectionInv ==
  ASSUME IInv, CloseSection
  PROVE  IInv'
<1>1. /\ wpc = "idle" /\ Odd(sequence) /\ sequence' = RoundUp(sequence)
      /\ latest' = IF Odd(slot_generation[slot]) THEN latest ELSE named
      /\ mixed' = IF cut THEN mixed \cup {sequence'} ELSE mixed
      /\ UNCHANGED <<slot, slot_generation, meta, pose, pixels, wpc, frame, write_slot, posed, crashes,
                     named, cut, reader>>
  BY DEF CloseSection, writer
<1>2. sequence' \in Nat /\ sequence' > sequence
  BY <1>1, Rounding DEF IInv, TypeOK
<1>3. latest' >= latest /\ latest' <= named /\ mixed \subseteq mixed'
  BY <1>1 DEF IInv, TypeOK, WriterInv, Frames
<1>4. TypeOK'
  BY <1>1, <1>2 DEF IInv, TypeOK, reader
<1>5. WriterInv' /\ FieldsInv' /\ HeaderInv'
  BY <1>1, <1>3, StoreOrder DEF IInv, WriterInv, FieldsInv, OfFrame, HeaderInv, Whole
<1>6. PollInv'
  BY <1>1, <1>2, ReadTypes DEF IInv, TypeOK, PollInv, reader
<1>7. SnapInv'
  <2>1. snap.picture <= latest'
    BY <1>1, <1>3, ReadTypes DEF IInv, TypeOK, SnapInv, Frames
  <2>2. QED
    BY <2>1, <1>1, <1>3 DEF IInv, SnapInv, Overwritten, Whole, Ahead, reader
<1>8. UploadInv'
  BY <1>1, UploadKept DEF IInv, TypeOK
<1>9. QED
  BY <1>4, <1>5, <1>6, <1>7, <1>8 DEF IInv

-----------------------------------------------------------------------------
(* The steps of the host *)

\* The host writes nothing of the section.
LEMMA SectionKept ==
  ASSUME IInv, UNCHANGED <<header, writer, history>>
  PROVE  WriterInv' /\ FieldsInv' /\ HeaderInv'
  BY DEF IInv, WriterInv, FieldsInv, OfFrame, HeaderInv, Whole, header, writer, history

\* Between two commits the snapshot stands.
LEMMA SnapKept ==
  ASSUME IInv, UNCHANGED <<header, writer, history, snap>>
  PROVE  SnapInv' /\ (Overwritten' <=> Overwritten)
  BY DEF IInv, SnapInv, Overwritten, Whole, Ahead, header, writer, history

\* Every step that ends a poll forgets what was read.
LEMMA PollOver ==
  ASSUME IInv, UNCHANGED <<header, writer, history>>, local' = Nothing
  PROVE  /\ local' \in Reading
         /\ rpc' \in {"check", "layout"} => PollInv'
<1>1. 0 \in Index /\ 0 \in Frames
  BY FirstSlot, SlotsAssumption DEF Frames
<1>2. local' \in Reading
  BY <1>1 DEF Nothing, Reading
<1>3. local'.seq = 0 /\ local'.gen = 0 /\ ~Odd(0)
  BY DEF Nothing, Odd
<1>4. rpc' \in {"check", "layout"} => rpc' \notin DOMAIN Looked /\ rpc' \notin {"gen", "host_sequence", "pose", "recheck"}
  BY ReadOrder
<1>5. QED
  BY <1>2, <1>3, <1>4 DEF IInv, TypeOK, PollInv, header

LEMMA BeginInv ==
  ASSUME IInv, NothingNew \/ ReadSequence
  PROVE  IInv'
<1>1. /\ rpc = "poll" /\ uploaded' = NoUpload /\ counted' = FALSE
      /\ UNCHANGED <<header, writer, history, last_sequence, snap, screen_layout>>
      /\ \/ rpc' = "check" /\ UNCHANGED local
         \/ rpc' = "width" /\ ~Odd(sequence) /\ local' = [Nothing EXCEPT !.seq = sequence]
  BY DEF NothingNew, ReadSequence, RStep
<1>2. 0 \in Index /\ 0 \in Frames
  BY FirstSlot, SlotsAssumption DEF Frames
<1>3. TypeOK'
  <2>1. local' \in Reading
    BY <1>1, <1>2 DEF IInv, TypeOK, Nothing, Reading
  <2>2. uploaded' \in Frames \X Frames
    BY <1>1, <1>2 DEF NoUpload
  <2>3. QED
    BY <1>1, <2>1, <2>2, ReadOrder DEF IInv, TypeOK, header, writer, history
<1>4. PollInv'
  <2>1. ~Odd(0)
    BY DEF Odd
  <2>2. CASE rpc' = "check" /\ UNCHANGED local
    BY <1>1, <2>2, ReadOrder DEF IInv, PollInv, header
  <2>3. CASE rpc' = "width" /\ ~Odd(sequence) /\ local' = [Nothing EXCEPT !.seq = sequence]
    <3>1. local'.seq = sequence /\ local'.gen = 0
      BY <2>3 DEF Nothing
    <3>2. QED
      BY <1>1, <2>1, <2>3, <3>1, ReadOrder DEF IInv, TypeOK, PollInv, header
  <2>4. QED
    BY <1>1, <2>2, <2>3
<1>5. UploadInv'
  BY <1>1 DEF UploadInv, Torn
<1>6. QED
  BY <1>1, <1>3, <1>4, <1>5, SectionKept, SnapKept DEF IInv

\* A read adds one value of the header to what poll has, and another field keeps its own.
LEMMA ReadFieldInv ==
  ASSUME IInv, ReadField
  PROVE  IInv'
<1>1. /\ rpc \in Polled /\ rpc' = NextRead[rpc] /\ local' = [local EXCEPT !.meta[rpc] = meta[rpc]]
      /\ UNCHANGED <<header, writer, history, last_sequence, snap, screen_layout, uploaded, counted>>
  BY DEF ReadField
<1>2. /\ rpc' \in {"height", "pitch", "slot", "pose"}
      /\ rpc' = "pose" => rpc = "host_sequence"
      /\ Looked[rpc'] = Looked[rpc] \cup {rpc} /\ rpc \in DOMAIN Looked /\ Looked[rpc'] \subseteq Polled
  BY <1>1, ReadOrder
<1>3. /\ local'.meta = [local.meta EXCEPT ![rpc] = meta[rpc]]
      /\ local'.seq = local.seq /\ local'.slot = local.slot /\ local'.picture = local.picture
      /\ local'.gen = local.gen /\ local'.pose = local.pose
      /\ meta[rpc] \in Frames
  BY <1>1, ReadOrder, StoreOrder DEF IInv, TypeOK, Reading
<1>4. local' \in Reading
  BY <1>1, <1>3 DEF IInv, TypeOK, Reading
<1>5. TypeOK'
  BY <1>1, <1>2, <1>4, ReadOrder DEF IInv, TypeOK, header, writer, history
<1>6. PollInv'
  <2>1. sequence = local.seq => \A f \in Looked[rpc'] : local'.meta[f] = meta[f]
    BY <1>1, <1>2, <1>3, ReadTypes DEF IInv, PollInv
  <2>2. QED
    BY <1>1, <1>2, <1>3, <2>1 DEF IInv, PollInv, header, history
<1>7. UploadInv'
  BY <1>1, <1>2, ReadOrder DEF IInv, UploadInv, Torn
<1>8. QED
  BY <1>1, <1>5, <1>6, <1>7, SectionKept, SnapKept DEF IInv

LEMMA ReadInv ==
  ASSUME IInv, ReadSlot \/ ReadGeneration \/ ReadPose
  PROVE  IInv'
<1>1. /\ rpc \in {"slot", "gen", "pose"}
      /\ UNCHANGED <<header, writer, history, last_sequence, snap, screen_layout, uploaded, counted>>
      /\ \/ rpc = "slot" /\ rpc' = "gen" /\ local' = [local EXCEPT !.slot = slot, !.picture = named]
         \/ /\ rpc = "gen" /\ rpc' = "host_sequence" /\ ~Odd(slot_generation[local.slot])
            /\ local' = [local EXCEPT !.gen = slot_generation[local.slot]]
         \/ rpc = "pose" /\ rpc' = "recheck" /\ local' = [local EXCEPT !.pose = pose]
         \/ rpc = "gen" /\ rpc' = "check" /\ local' = Nothing
  BY DEF ReadSlot, ReadGeneration, ReadPose, RStep, GiveUp
<1>2. local' \in Reading
  BY <1>1, PollOver, ReadTypes DEF IInv, TypeOK, Reading
<1>3. TypeOK'
  BY <1>1, <1>2, ReadOrder DEF IInv, TypeOK, header, writer, history
<1>4. PollInv'
  <2>1. CASE local' = Nothing /\ rpc' = "check"
    BY <2>1, <1>1, PollOver
  <2>2. CASE rpc' # "check"
    <3>1. /\ local'.meta = local.meta /\ local'.seq = local.seq
          /\ rpc \in DOMAIN Looked /\ Looked[rpc'] = Looked[rpc]
      BY <2>2, <1>1, ReadOrder DEF IInv, TypeOK, Reading
    <3>2. QED
      BY <2>2, <3>1, <1>1 DEF IInv, TypeOK, Reading, PollInv, header, history
  <2>3. QED
    BY <1>1, <2>1, <2>2
<1>5. UploadInv'
  BY <1>1, ReadOrder DEF IInv, UploadInv, Torn
<1>6. QED
  BY <1>1, <1>3, <1>4, <1>5, SectionKept, SnapKept DEF IInv

\* A sequence that stands at the second look says that nothing that was read has moved.
LEMMA RecheckInv ==
  ASSUME IInv, Recheck
  PROVE  IInv' /\ (snap' # snap => snap'.picture = latest)
<1>1. /\ rpc = "recheck" /\ local' = Nothing
      /\ UNCHANGED <<header, writer, history, screen_layout, uploaded, counted>>
      /\ \/ /\ sequence = local.seq /\ snap' = local /\ last_sequence' = local.seq /\ rpc' = "layout"
         \/ rpc' = "check" /\ UNCHANGED <<snap, last_sequence>>
  BY DEF Recheck, GiveUp
<1>2. TypeOK'
  BY <1>1, PollOver, ReadTypes DEF IInv, TypeOK, header, writer, history
<1>3. PollInv'
  BY <1>1, PollOver
<1>4. UploadInv'
  BY <1>1, ReadOrder DEF IInv, UploadInv, Torn
<1>5. CASE snap' = snap
  BY <1>1, <1>2, <1>3, <1>4, <1>5, SectionKept, SnapKept DEF IInv
<1>6. CASE sequence = local.seq /\ snap' = local
  <2>1. /\ snap'.slot = slot /\ snap'.gen = slot_generation[slot] /\ snap'.picture = named /\ snap'.pose = pose
        /\ ~Odd(slot_generation[slot]) /\ ~Odd(sequence) /\ snap'.seq = sequence
        /\ \A f \in Polled : snap'.meta[f] = meta[f]
    BY <1>1, <1>6, ReadOrder DEF IInv, PollInv
  <2>2. Whole(slot, named) /\ pose \in {0, named} /\ latest = named
    BY <2>1 DEF IInv, HeaderInv
  <2>3. Ahead(slot, slot) = 0
    BY DEF IInv, TypeOK, Ahead, Index
  <2>4. ~Overwritten' /\ Whole(slot, named)'
    BY <1>1, <2>1, <2>2 DEF Overwritten, Whole, header, history
  <2>5. SnapInv'
    <3>1. snap'.seq \notin mixed => \A f \in Polled : snap'.meta[f] = named
      BY <2>1, ReadOrder, StoreOrder DEF IInv, FieldsInv, OfFrame
    <3>2. QED
      BY <1>1, <2>1, <2>2, <2>3, <2>4, <3>1 DEF IInv, TypeOK, SnapInv, Whole, Ahead, header, writer, history, Frames
  <2>6. QED
    BY <1>1, <1>2, <1>3, <1>4, <2>1, <2>2, <2>5, SectionKept DEF IInv
<1>7. QED
  BY <1>1, <1>5, <1>6

LEMMA UploadStepInv ==
  ASSUME IInv, ReadLayout \/ SkipUpload \/ UploadHalf
  PROVE  IInv'
<1>1. /\ UNCHANGED <<header, writer, history, last_sequence, local, snap, counted>>
      /\ \/ rpc = "layout" /\ rpc' = "upload" /\ screen_layout' = meta["layout"] /\ UNCHANGED uploaded
         \/ rpc = "upload" /\ rpc' = "check" /\ UNCHANGED <<uploaded, screen_layout>>
         \/ /\ rpc = "upload" /\ rpc' = "upload2" /\ UNCHANGED screen_layout
            /\ uploaded' = [uploaded EXCEPT ![1] = pixels[snap.slot][1]]
         \/ /\ rpc = "upload2" /\ rpc' = "check" /\ UNCHANGED screen_layout
            /\ uploaded' = [uploaded EXCEPT ![2] = pixels[snap.slot][2]]
  BY DEF ReadLayout, SkipUpload, UploadHalf, RStep
<1>2. /\ pixels[snap.slot] \in Frames \X Frames
      /\ ~Overwritten => pixels[snap.slot] = <<snap.picture, snap.picture>>
  BY ReadTypes DEF IInv, TypeOK, SnapInv, Whole
<1>3. TypeOK'
  BY <1>1, <1>2, StoreOrder DEF IInv, TypeOK, header, writer, history
<1>4. PollInv'
  BY <1>1, ReadOrder DEF IInv, PollInv, header, history
<1>5. UploadInv'
  BY <1>1, <1>2, SnapKept, ReadOrder DEF IInv, TypeOK, UploadInv, Torn, NoUpload
<1>6. QED
  BY <1>1, <1>3, <1>4, <1>5, SectionKept, SnapKept DEF IInv

LEMMA SubmitInv ==
  ASSUME IInv, CheckOverwritten \/ Submit
  PROVE  IInv'
<1>1. /\ UNCHANGED <<header, writer, history, last_sequence, local, snap, screen_layout, uploaded>>
      /\ \/ rpc = "check" /\ rpc' = "submit" /\ counted' = (snap.pose # 0 /\ Overwritten)
         \/ rpc = "submit" /\ rpc' = "poll" /\ UNCHANGED counted
  BY DEF CheckOverwritten, Submit, RStep
<1>2. TypeOK'
  BY <1>1 DEF IInv, TypeOK, header, writer, history
<1>3. PollInv'
  BY <1>1, ReadOrder DEF IInv, PollInv, header, history
<1>4. UploadInv'
  BY <1>1, SnapKept, ReadOrder DEF IInv, UploadInv, Torn
<1>5. QED
  BY <1>1, <1>2, <1>3, <1>4, SectionKept, SnapKept DEF IInv

LEMMA NextInv == IInv /\ [Next]_vars => IInv'
<1> SUFFICES ASSUME IInv, [Next]_vars PROVE IInv'
  OBVIOUS
<1>1. CASE Publish
  BY <1>1, MarkSlotInv, OpenHeaderInv, StoreFieldInv, NameSlotInv, CopyHalfInv, WritePoseInv, SettleSlotInv,
     CloseHeaderInv
     DEF Publish
<1>2. CASE GameCrash \/ CloseSection
  BY <1>2, GameCrashInv, CloseSectionInv
<1>3. CASE Host
  BY <1>3, BeginInv, ReadInv, ReadFieldInv, RecheckInv, UploadStepInv, SubmitInv DEF Host
<1>4. CASE UNCHANGED vars
  BY <1>4, SectionKept, SnapKept
     DEF IInv, TypeOK, PollInv, UploadInv, Torn, vars, header, writer, history, reader
<1>5. QED
  BY <1>1, <1>2, <1>3, <1>4 DEF Next

-----------------------------------------------------------------------------
(* The results *)

\* The inductive invariant of publish and poll holds, also across crashes of the game.
THEOREM Invariance == Spec => []IInv
  BY InitInv, NextInv, PTL DEF Spec

\* The section, publish's and poll's locals are well typed.
THEOREM TypeCorrect == Spec => []TypeOK
<1>1. IInv => TypeOK
  BY DEF IInv
<1>2. QED
  BY <1>1, Invariance, PTL

\* What a poll commits is one frame, whole in its slot until that is entered again, with its
\* pose or none; and with its fields, but at a sequence closed over a header that was cut.
THEOREM OneFrame == Spec => []OneFramePerSnapshot
<1>1. IInv => OneFramePerSnapshot
  BY DEF IInv, SnapInv, OneFramePerSnapshot, Whole
<1>2. QED
  BY <1>1, Invariance, PTL

\* An upload is torn only by a game that has begun as many further frames as there are
\* slots, and a torn image that states a pose is counted.
THEOREM TornWhenLapped == Spec => []TornOnlyWhenLapped
<1>1. IInv => TornOnlyWhenLapped
  BY DEF IInv, SnapInv, UploadInv, TornOnlyWhenLapped
<1>2. QED
  BY <1>1, Invariance, PTL

\* Every step of the section is a step of the mailbox, or none.
LEMMA MailboxStep ==
  ASSUME IInv, [Next]_vars
  PROVE  [Mailbox!Publish \/ Mailbox!Take]_<<latest, snap.picture>>
<1>1. CASE CloseHeader
  <2>1. latest' = frame /\ frame > latest /\ frame \in Nat /\ UNCHANGED snap
    BY <1>1 DEF CloseHeader, WStep, IInv, TypeOK, WriterInv, reader, Frames
  <2>2. QED
    BY <2>1 DEF Mailbox!Publish
<1>2. CASE CloseSection
  <2>1. latest' \in {latest, named} /\ named >= latest /\ named \in Nat /\ latest \in Nat /\ UNCHANGED snap
    BY <1>2 DEF CloseSection, IInv, TypeOK, WriterInv, reader, Frames
  <2>2. QED
    BY <2>1 DEF Mailbox!Publish
<1>3. CASE Recheck
  <2>1. UNCHANGED latest /\ snap.picture <= latest
    BY <1>3 DEF Recheck, IInv, SnapInv, history
  <2>2. snap'.picture \in {snap.picture, latest} /\ snap.picture \in Nat /\ latest \in Nat
    BY <1>3, RecheckInv, ReadTypes DEF IInv, TypeOK, Frames
  <2>3. QED
    BY <2>1, <2>2 DEF Mailbox!Take
<1>4. CASE UNCHANGED <<latest, snap>>
  BY <1>4
<1>5. Next => CloseHeader \/ CloseSection \/ Recheck \/ UNCHANGED <<latest, snap>>
  BY DEF Next, Publish, Host, MarkSlot, MarkAs, OpenHeader, StoreField, NameSlot, CopyHalf, WritePose, SettleSlot,
     GameCrash, NothingNew, ReadSequence, ReadSlot, ReadGeneration, ReadField, ReadPose, ReadLayout,
     SkipUpload, UploadHalf, CheckOverwritten, Submit, writer, history, reader
<1>6. QED
  BY <1>1, <1>2, <1>3, <1>4, <1>5 DEF vars, writer, history, reader

\* Seen through poll the pictures of the section are those of a mailbox of complete frames.
THEOREM MailboxRefined == Spec => ImplementsMailbox
<1>1. Init => Mailbox!Init
  BY DEF Init, Nothing, Mailbox!Init
<1>2. QED
  BY <1>1, MailboxStep, Invariance, PTL DEF Spec, ImplementsMailbox, Mailbox!Spec

=============================================================================
