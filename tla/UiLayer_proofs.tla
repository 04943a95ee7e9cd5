---------------------------- MODULE UiLayer_proofs ----------------------------
(***************************************************************************)
(* Proofs about the UI layer, for any number of slots, of publications and *)
(* of calls that switch capture on and off.                                *)
(***************************************************************************)
EXTENDS UiLayer, TLAPS

-----------------------------------------------------------------------------
(* The inductive invariant *)

Writing == rpc \in {"copy", "copy2", "even"}

\* Nobody brings back a layer that the render thread is retiring.
RetireInv ==
  /\ RetirementIsOwed
  /\ rpc = "settle" => ~present

\* As long as the two threads have not met in the section, the publication under way has it
\* to itself, its window is open while it writes, and the slot is whole before and after.
WriterInv ==
  ~overlapped =>
    /\ ~(RenderStores /\ UnloadStores)
    /\ rpc = "fields" \/ Writing => sequence % 2 = 1
    /\ Writing => slot = write_slot /\ geometry = layer
    /\ rpc \in {"copy2", "even"} => pixels[slot][1] = layer
    /\ rpc = "even" => pixels[slot][2] = layer
    /\ ~Writing => pixels[slot] = <<geometry, geometry>>

\* What the host has read under one sequence is the layer of the section, and what it has
\* taken stays whole in its slot until the game comes round to it.
ReaderInv ==
  /\ hpc \in {"look", "poll", "fields", "recheck"} => ~have
  /\ hpc \in {"fields", "recheck"} => local.seq % 2 = 0 /\ local.seq <= sequence
  /\ hpc = "recheck" /\ local.seq = sequence /\ ~overlapped =>
       local.slot = slot /\ local.geometry = geometry
  /\ have /\ ~lapped /\ ~overlapped => pixels[local.slot] = <<local.geometry, local.geometry>>
  /\ hpc = "upload2" /\ ~lapped /\ ~overlapped => copy = local.geometry

\* The picture the host holds fits its swapchain, and is whole or known not to be.
HeldInv ==
  /\ hpc \in {"draw", "upload", "upload2"} /\ have /\ chain # 0 => chain = SizeOf(local.geometry)
  /\ hpc \in {"upload", "upload2"} => have /\ chain # 0
  /\ ui_uploaded /\ chain # 0 => held.size = chain
  /\ held.whole \/ held.lapped \/ overlapped
  /\ hpc = "look" /\ shown => ui_uploaded /\ chain # 0

IInv ==
  /\ TypeOK
  /\ RetireInv
  /\ WriterInv
  /\ ReaderInv
  /\ HeldInv

-----------------------------------------------------------------------------
(* Parities, slots and sizes *)

LEMMA Parities ==
  ASSUME sequence \in Nat
  PROVE  /\ Odd \in Nat /\ Odd >= sequence /\ Odd % 2 = 1
         /\ Even \in Nat /\ Even >= sequence /\ Even % 2 = 0
         /\ (sequence + 1) - ((sequence + 1) % 2) \in Nat
         /\ (sequence + 1) - ((sequence + 1) % 2) >= sequence
         /\ ((sequence + 1) - ((sequence + 1) % 2)) % 2 = 0
  BY DEF Odd, Even

LEMMA SlotTypes == slot \in Index => NextSlot \in Index
  BY UICaptureAssumption DEF Index, NextSlot

LEMMA LayerTypes ==
  /\ 0 \in Index /\ 0 \in Layers /\ 0 \in {SizeOf(l) : l \in Layers}
  /\ NoRead \in [seq : Nat, slot : Index, geometry : Layers]
  /\ NoImage \in [size : {SizeOf(l) : l \in Layers}, whole : BOOLEAN, lapped : BOOLEAN]
<1>1. 0 \in Index /\ 0 \in Layers
  BY UICaptureAssumption DEF Index, Layers
<1>2. SizeOf(0) = 0
  BY DEF SizeOf
<1>3. 0 \in {SizeOf(l) : l \in Layers}
  BY <1>1, <1>2
<1>4. QED
  BY <1>1, <1>3 DEF NoRead, NoImage

-----------------------------------------------------------------------------
(* Types *)

\* The host reads the section and writes to its own state; the game does the reverse.
LEMMA HostFrame ==
  ASSUME Host
  PROVE  UNCHANGED game
  BY DEF Host, Look, NothingNew, ReadSequence, ReadFields, Recheck, FitChain, SkipFrame, KeepImage, BeginUpload,
     UploadHalf, UploadRest, Submit

\* Steps that store nothing to the section and begin or end no publication or retirement.
Quiet ==
  \/ Passes \/ EndBracket \/ PresentReleases \/ DeviceLost \/ NotPublished
  \/ Command \/ on_shutdown \/ AskRelease \/ StopWaiting \/ CloseSection \/ RetireHooks

Stores ==
  \/ PresentRetires \/ RetireAtPresent \/ RetireOwed \/ RetireAtShutdown
  \/ publish_layer \/ MarkOdd \/ WriteFields \/ CopyHalf \/ SettleEven \/ NotePublished

LEMMA Steps == CaptureNext => Quiet \/ Stores
  BY DEF CaptureNext, Presents, Shutdown, Quiet, Stores

LEMMA QuietSteps ==
  ASSUME Quiet
  PROVE  /\ UNCHANGED <<section, published, layer, write_slot, overlapped>>
         /\ \/ rpc' = rpc
            \/ {rpc, rpc'} \subseteq {"engine", "bracket", "arm", "present"}
         /\ \/ upc' = upc
            \/ /\ ~RenderStores
               /\ upc = "close" /\ upc' = "hooks"
            \/ upc = "live" /\ upc' = "owed"
            \/ upc = "ask" /\ upc' = "wait"
            \/ upc = "wait" /\ upc' = "close"
            \/ upc = "hooks" /\ upc' = "gone"
  BY DEF Quiet, Passes, BeginBracket, NoBracket, EnginePass, GamePass, SwitchOn, EndBracket, PresentReleases,
     DeviceLost, NotPublished, RStep, Command, set_enabled, StoreEnabled, on_shutdown, AskRelease, StopWaiting,
     CloseSection, RetireHooks, UStep, section, capture, render, command, unload

LEMMA QuietTypes ==
  ASSUME CaptureTypeOK, Quiet
  PROVE  CaptureTypeOK'
<1>1. {enabled', user_disabled', source', release_requested'} \subseteq BOOLEAN
  BY DEF CaptureTypeOK, Quiet, Passes, BeginBracket, NoBracket, EnginePass, GamePass, SwitchOn, EndBracket,
     PresentReleases, DeviceLost, NotPublished, free_device_resources, Command, set_enabled, StoreEnabled,
     on_shutdown, AskRelease, StopWaiting, CloseSection, RetireHooks, section, capture, render, command, unload
<1>2. cpc' \in {"ready", "on", "off"} /\ calls' \in 0 .. MaxCalls
  BY UICaptureAssumption
     DEF CaptureTypeOK, Quiet, Passes, BeginBracket, NoBracket, EnginePass, GamePass, SwitchOn, EndBracket,
     PresentReleases, DeviceLost, NotPublished, Command, set_enabled, StoreEnabled,
     on_shutdown, AskRelease, StopWaiting, CloseSection, RetireHooks, command
<1>3. QED
  BY <1>1, <1>2, QuietSteps DEF CaptureTypeOK, section

LEMMA StoreTypes ==
  ASSUME CaptureTypeOK, Stores
  PROVE  CaptureTypeOK'
<1>1. CASE PresentRetires \/ RetireOwed
  BY <1>1 DEF PresentRetires, RetireOwed, CaptureTypeOK, section, render, command, unload
<1>2. CASE RetireAtPresent \/ RetireAtShutdown
  <2>1. sequence' \in Nat /\ present' \in BOOLEAN
    BY <1>2, Parities DEF RetireAtPresent, RetireAtShutdown, Retiring, CaptureTypeOK
  <2>2. /\ rpc' \in {rpc, "absent", "settle", "engine"} /\ upc' \in {upc, "absent", "settle", "ask"}
        /\ UNCHANGED <<slot, geometry, pixels, capture, source, layer, write_slot, command, release_requested, overlapped>>
    BY <1>2 DEF RetireAtPresent, RetireAtShutdown, Retiring, After, render, unload
  <2>3. QED
    BY <2>1, <2>2 DEF CaptureTypeOK, capture, command
<1>3. CASE publish_layer
  BY <1>3, SlotTypes, UICaptureAssumption
     DEF publish_layer, RStep, CaptureTypeOK, Layers, section, capture, command, unload
<1>4. CASE MarkOdd \/ SettleEven
  BY <1>4, Parities, LayerTypes
     DEF MarkOdd, SettleEven, RStep, CaptureTypeOK, capture, command, unload
<1>5. CASE CopyHalf
  <2>1. pixels' \in [Index -> Layers \X Layers]
    BY <1>5 DEF CopyHalf, CaptureTypeOK
  <2>2. QED
    BY <1>5, <2>1 DEF CopyHalf, RStep, CaptureTypeOK, capture, command, unload
<1>6. CASE WriteFields \/ NotePublished
  BY <1>6 DEF WriteFields, NotePublished, RStep, CaptureTypeOK, section, capture, command, unload
<1>7. QED
  BY <1>1, <1>2, <1>3, <1>4, <1>5, <1>6 DEF Stores

LEMMA HostTypes ==
  ASSUME TypeOK, ReaderInv, Host
  PROVE  TypeOK'
<1>1. CaptureTypeOK'
  BY HostFrame DEF TypeOK, CaptureTypeOK, game, section, capture, render, command, unload
<1>2. /\ hpc' \in {"look", "poll", "fields", "recheck", "chain", "draw", "upload", "upload2", "submit"}
      /\ {ui_present_now', have', ui_uploaded', lapped', shown'} \subseteq BOOLEAN
  BY DEF TypeOK, CaptureTypeOK, Host, Look, NothingNew, ReadSequence, ReadFields, Recheck, FitChain, MakeChain,
     SkipFrame, KeepImage, BeginUpload, UploadHalf, UploadRest, Submit, NextFrame, HStep, reading, drawing
<1>3. local' \in [seq : Nat, slot : Index, geometry : Layers]
  <2>1. /\ local \in [seq : Nat, slot : Index, geometry : Layers]
        /\ sequence \in Nat /\ slot \in Index /\ geometry \in Layers
    BY DEF TypeOK, CaptureTypeOK
  <2>2. \/ local' \in {local, NoRead} \/ local' = [local EXCEPT !.slot = slot, !.geometry = geometry]
        \/ local' = [NoRead EXCEPT !.seq = sequence] \/ local' = [local EXCEPT !.seq = 0]
    BY DEF Host, Look, NothingNew, ReadSequence, ReadFields, Recheck, FitChain,
     SkipFrame, KeepImage, BeginUpload, UploadHalf, UploadRest, Submit, NextFrame, reading
  <2>3. CASE local' = [NoRead EXCEPT !.seq = sequence]
    <3>1. local' = [seq |-> sequence, slot |-> 0, geometry |-> 0]
      BY <2>3 DEF NoRead
    <3>2. QED
      BY <2>1, <3>1, LayerTypes
  <2>4. CASE local' = [local EXCEPT !.slot = slot, !.geometry = geometry] \/ local' = [local EXCEPT !.seq = 0]
    <3>1. \/ local' = [seq |-> local.seq, slot |-> slot, geometry |-> geometry]
          \/ local' = [seq |-> 0, slot |-> local.slot, geometry |-> local.geometry]
      BY <2>1, <2>4
    <3>2. QED
      BY <2>1, <3>1
  <2>5. QED
    BY <2>1, <2>2, <2>3, <2>4, LayerTypes
<1>4. last_ui_sequence' \in Nat /\ last_ui_sequence' % 2 = 0
  <2>1. last_ui_sequence' = last_ui_sequence \/ (hpc = "recheck" /\ last_ui_sequence' = local.seq)
    BY DEF Host, Look, NothingNew, ReadSequence, ReadFields, Recheck, FitChain,
     SkipFrame, KeepImage, BeginUpload, UploadHalf, UploadRest, Submit, NextFrame, reading, HStep
  <2>2. QED
    BY <2>1 DEF TypeOK, ReaderInv
<1>5. chain' \in {SizeOf(l) : l \in Layers} /\ copy' \in Layers
      /\ held' \in [size : {SizeOf(l) : l \in Layers}, whole : BOOLEAN, lapped : BOOLEAN]
  <2>1. CASE FitChain
    BY <2>1, LayerTypes DEF TypeOK, FitChain, MakeChain
  <2>2. CASE UploadHalf
    BY <2>2 DEF TypeOK, CaptureTypeOK, UploadHalf
  <2>3. CASE UploadRest
    BY <2>3, LayerTypes DEF TypeOK, UploadRest
  <2>4. CASE UNCHANGED <<chain, copy, held>>
    BY <2>4 DEF TypeOK
  <2>5. QED
    BY <2>1, <2>2, <2>3, <2>4
       DEF Host, Look, NothingNew, ReadSequence, ReadFields, Recheck, SkipFrame, KeepImage, BeginUpload, Submit,
           NextFrame, drawing
<1>6. QED
  BY <1>1, <1>2, <1>3, <1>4, <1>5 DEF TypeOK

-----------------------------------------------------------------------------
(* The section *)

LEMMA RetireStep ==
  ASSUME TypeOK, RetireInv, [Next]_vars
  PROVE  RetireInv'
<1> USE DEF RetireInv, RetirementIsOwed, mapped, RenderStores
<1>1. CASE UNCHANGED game
  BY <1>1 DEF game, section, capture, render, unload
<1>2. CASE Quiet
  BY <1>2, QuietSteps DEF section
<1>3. CASE PresentRetires \/ RetireOwed
  BY <1>3 DEF PresentRetires, RetireOwed, section, render, unload
<1>4. CASE RetireAtPresent \/ RetireAtShutdown
  BY <1>4 DEF RetireAtPresent, RetireAtShutdown, Retiring, After, capture, render, unload
<1>5. CASE publish_layer \/ MarkOdd \/ WriteFields \/ CopyHalf \/ SettleEven \/ NotePublished
  BY <1>5 DEF publish_layer, MarkOdd, WriteFields, CopyHalf, SettleEven, NotePublished, RStep, section, capture, unload
<1>6. QED
  BY <1>1, <1>2, <1>3, <1>4, <1>5, Steps, HostFrame DEF Next, Game, Stores, vars

LEMMA WriterStep ==
  ASSUME TypeOK, WriterInv, [Next]_vars
  PROVE  WriterInv'
<1> USE DEF WriterInv, Writing, RenderStores, UnloadStores
<1>0. /\ sequence \in Nat /\ overlapped \in BOOLEAN /\ write_slot \in Index /\ slot \in Index
      /\ pixels \in [Index -> Layers \X Layers]
  BY DEF TypeOK, CaptureTypeOK
<1>1. CASE UNCHANGED game
  BY <1>1 DEF game, section, capture, render, unload
<1>2. CASE Quiet
  BY <1>2, QuietSteps DEF section
<1>3. CASE PresentRetires \/ RetireOwed
  BY <1>0, <1>3 DEF PresentRetires, RetireOwed, section, render, unload
<1>4. CASE RetireAtPresent \/ RetireAtShutdown
  BY <1>0, <1>4 DEF RetireAtPresent, RetireAtShutdown, Retiring, After, capture, render, unload
<1>5. CASE publish_layer \/ MarkOdd \/ WriteFields \/ NotePublished
  BY <1>0, <1>5, Parities
     DEF publish_layer, MarkOdd, WriteFields, NotePublished, RStep, section, capture, unload
<1>6. CASE CopyHalf \/ SettleEven
  BY <1>0, <1>6 DEF CopyHalf, SettleEven, RStep, unload
<1>7. QED
  BY <1>1, <1>2, <1>3, <1>4, <1>5, <1>6, Steps, HostFrame DEF Next, Game, Stores, vars

-----------------------------------------------------------------------------
(* The host *)

\* The section the host reads under a sequence it has read before is the same section.
LEMMA SectionMoves ==
  ASSUME TypeOK, WriterInv, CaptureNext
  PROVE  /\ sequence' \in Nat /\ sequence' >= sequence
         /\ overlapped => overlapped'
         /\ ~overlapped /\ sequence % 2 = 0 => UNCHANGED <<slot, geometry>>
         /\ \A s \in Index : pixels'[s] = pixels[s] \/ (rpc \in {"copy", "copy2"} /\ write_slot = s)
<1> USE DEF WriterInv, Writing
<1>0. sequence \in Nat /\ pixels \in [Index -> Layers \X Layers] /\ write_slot \in Index
  BY DEF TypeOK, CaptureTypeOK
<1>2. CASE Quiet
  <2>1. UNCHANGED <<sequence, slot, geometry, pixels, overlapped>>
    BY <1>2, QuietSteps DEF section
  <2>2. QED
    BY <1>0, <2>1
<1>3. CASE PresentRetires \/ RetireOwed \/ publish_layer \/ NotePublished
  <2>1. UNCHANGED <<sequence, slot, geometry, pixels>>
    BY <1>3 DEF PresentRetires, RetireOwed, publish_layer, NotePublished, section
  <2>2. overlapped => overlapped'
    BY <1>3 DEF PresentRetires, RetireOwed, publish_layer, NotePublished
  <2>3. QED
    BY <1>0, <2>1, <2>2
<1>4. CASE RetireAtPresent \/ RetireAtShutdown
  BY <1>0, <1>4, Parities DEF RetireAtPresent, RetireAtShutdown, Retiring
<1>5. CASE MarkOdd \/ WriteFields \/ SettleEven
  BY <1>0, <1>5, Parities DEF MarkOdd, WriteFields, SettleEven, RStep
<1>6. CASE CopyHalf
  BY <1>0, <1>6 DEF CopyHalf, RStep
<1>7. QED
  BY <1>2, <1>3, <1>4, <1>5, <1>6, Steps DEF Stores

LEMMA ReaderStep ==
  ASSUME TypeOK, WriterInv, ReaderInv, HeldInv, [Next]_vars
  PROVE  ReaderInv'
<1>0. /\ sequence \in Nat /\ local.seq \in Nat /\ local.slot \in Index /\ slot \in Index
      /\ local \in [seq : Nat, slot : Index, geometry : Layers]
      /\ pixels \in [Index -> Layers \X Layers]
      /\ {have, lapped} \subseteq BOOLEAN
  BY DEF TypeOK, CaptureTypeOK
<1>1. CASE UNCHANGED vars
  BY <1>1 DEF vars, game, section, host, ReaderInv
<1>2. CASE Game
  <2>1. UNCHANGED <<hpc, local, have, copy>> /\ lapped' = (lapped \/ Laps)
    BY <1>2 DEF Game, reading, drawing
  <2>2. /\ sequence' \in Nat /\ sequence' >= sequence
        /\ overlapped => overlapped'
        /\ ~overlapped /\ sequence % 2 = 0 => UNCHANGED <<slot, geometry>>
        /\ pixels'[local.slot] = pixels[local.slot] \/ (rpc \in {"copy", "copy2"} /\ write_slot = local.slot)
    BY <1>0, <1>2, SectionMoves DEF Game
  <2>3. hpc \in {"fields", "recheck"} => local.seq % 2 = 0 /\ local.seq <= sequence
    BY DEF ReaderInv
  <2>4. local.seq <= sequence => local.seq <= sequence' /\ (local.seq = sequence' => local.seq = sequence)
    BY <1>0, <2>2
  <2>5. QED
    BY <2>1, <2>2, <2>3, <2>4 DEF ReaderInv, Laps
<1>3. CASE Host
  <2>1. UNCHANGED <<sequence, slot, geometry, pixels, overlapped>>
    BY <1>3, HostFrame DEF game, section
  <2>2. CASE Look \/ NothingNew \/ SkipFrame \/ KeepImage \/ BeginUpload \/ Submit
    BY <2>1, <2>2 DEF Look, NothingNew, SkipFrame, KeepImage, BeginUpload, Submit, NextFrame, HStep,
       reading, drawing, ReaderInv
  <2>3. CASE ReadSequence
    BY <1>0, <2>1, <2>3 DEF ReadSequence, NoRead, HStep, drawing, ReaderInv
  <2>4. CASE ReadFields
    BY <1>0, <2>1, <2>4 DEF ReadFields, HStep, drawing, ReaderInv
  <2>5. CASE Recheck
    <3>1. hpc = "recheck" /\ hpc' = "chain" /\ (have' <=> sequence = local.seq) /\ copy' = copy
      BY <2>5 DEF Recheck, HStep, drawing
    <3>2. have' => local'.slot = local.slot /\ local'.geometry = local.geometry
      BY <1>0, <2>5 DEF Recheck
    <3>3. have' /\ ~overlapped => pixels[local.slot] = <<local.geometry, local.geometry>>
      BY <1>0, <3>1 DEF ReaderInv, WriterInv
    <3>4. QED
      BY <2>1, <3>1, <3>2, <3>3 DEF ReaderInv
  <2>6. CASE FitChain
    BY <2>1, <2>6 DEF FitChain, MakeChain, HStep, ReaderInv
  <2>7. CASE UploadHalf \/ UploadRest
    BY <2>1, <2>7 DEF UploadHalf, UploadRest, HStep, reading, ReaderInv, HeldInv
  <2>8. QED
    BY <1>3, <2>2, <2>3, <2>4, <2>5, <2>6, <2>7 DEF Host
<1>4. QED
  BY <1>1, <1>2, <1>3 DEF Next

LEMMA HeldStep ==
  ASSUME TypeOK, ReaderInv, HeldInv, [Next]_vars
  PROVE  HeldInv'
<1>1. CASE UNCHANGED vars
  BY <1>1 DEF vars, game, host, HeldInv
<1>2. CASE Game
  <2>1. UNCHANGED <<hpc, local, have, chain, held, ui_uploaded, shown>>
    BY <1>2 DEF Game, reading, drawing
  <2>2. overlapped => overlapped'
    <3>1. overlapped' \in {overlapped, overlapped \/ (rpc' = "retire" /\ UnloadStores), overlapped \/ UnloadStores,
                           overlapped \/ (published /\ RenderStores)}
      BY <1>2, Steps, QuietSteps
         DEF Game, Stores, PresentRetires, RetireAtPresent, RetireOwed, RetireAtShutdown, publish_layer, MarkOdd,
             WriteFields, CopyHalf, SettleEven, NotePublished
    <3>2. QED
      BY <3>1
  <2>3. QED
    BY <2>1, <2>2 DEF HeldInv
<1>3. CASE Host
  <2>1. UNCHANGED <<pixels, overlapped>>
    BY <1>3, HostFrame DEF game, section
  <2>2. CASE Look \/ NothingNew \/ ReadSequence \/ ReadFields \/ Recheck \/ KeepImage \/ BeginUpload \/ UploadHalf
    BY <2>1, <2>2 DEF Look, NothingNew, ReadSequence, ReadFields, Recheck, KeepImage, BeginUpload, UploadHalf, HStep,
       reading, drawing, HeldInv
  <2>3. CASE SkipFrame \/ Submit
    <3>1. hpc' = "look" /\ UNCHANGED <<chain, held, ui_uploaded>> /\ (shown' => ui_uploaded /\ chain # 0)
      BY <2>3 DEF SkipFrame, Submit, HStep, drawing
    <3>2. QED
      BY <2>1, <3>1 DEF HeldInv
  <2>4. CASE FitChain
    BY <2>1, <2>4 DEF FitChain, MakeChain, HStep, HeldInv
  <2>5. CASE UploadRest
    <3>1. /\ hpc = "upload2" /\ hpc' = "submit" /\ have /\ chain # 0 /\ chain = SizeOf(local.geometry)
          /\ UNCHANGED <<local, have, chain>> /\ ui_uploaded'
      BY <2>5 DEF UploadRest, HStep, reading, HeldInv
    <3>2. held'.size = chain
      BY <2>5, <3>1 DEF UploadRest
    <3>3. held'.whole \/ held'.lapped \/ overlapped
      <4> DEFINE whole == {copy, pixels[local.slot][2]} = {local.geometry}
      <4>1. lapped \/ overlapped \/ whole
        BY <3>1 DEF ReaderInv
      <4>2. held'.whole = whole /\ held'.lapped = (lapped /\ ~whole)
        BY <2>5 DEF UploadRest
      <4>3. QED
        BY <4>1, <4>2
    <3>4. QED
      BY <2>1, <3>1, <3>2, <3>3 DEF HeldInv
  <2>6. QED
    BY <1>3, <2>2, <2>3, <2>4, <2>5 DEF Host
<1>4. QED
  BY <1>1, <1>2, <1>3 DEF Next

-----------------------------------------------------------------------------
(* The results *)

LEMMA InitInv == Init => IInv
<1> SUFFICES ASSUME Init PROVE IInv
  OBVIOUS
<1>1. TypeOK
  <2>1. pixels \in [Index -> Layers \X Layers] /\ 0 \in 0 .. MaxCalls
    BY LayerTypes, UICaptureAssumption DEF Init, CaptureInit
  <2>2. CaptureTypeOK
    BY <2>1, LayerTypes DEF Init, CaptureInit, CaptureTypeOK
  <2>3. last_ui_sequence \in Nat /\ last_ui_sequence % 2 = 0
    BY DEF Init
  <2>4. QED
    BY <2>2, <2>3, LayerTypes DEF Init, TypeOK
<1>2. RetireInv /\ WriterInv
  BY LayerTypes DEF Init, CaptureInit, RetireInv, RetirementIsOwed, WriterInv, Writing, RenderStores
<1>3. ReaderInv /\ HeldInv
  BY DEF Init, NoImage, ReaderInv, HeldInv
<1>4. QED
  BY <1>1, <1>2, <1>3 DEF IInv

LEMMA NextInv == IInv /\ [Next]_vars => IInv'
<1> SUFFICES ASSUME IInv, [Next]_vars PROVE IInv'
  OBVIOUS
<1>1. TypeOK'
  <2>1. CASE UNCHANGED vars
    BY <2>1 DEF IInv, TypeOK, CaptureTypeOK, vars, game, section, capture, render, command, unload, host
  <2>2. CASE Game
    <3>1. CaptureTypeOK'
      BY <2>2, Steps, QuietTypes, StoreTypes DEF Game, IInv, TypeOK
    <3>2. lapped' \in BOOLEAN
      BY <2>2 DEF Game
    <3>3. QED
      BY <2>2, <3>1, <3>2 DEF Game, IInv, TypeOK, reading, drawing
  <2>3. CASE Host
    BY <2>3, HostTypes DEF IInv
  <2>4. QED
    BY <2>1, <2>2, <2>3 DEF Next
<1>2. QED
  BY <1>1, RetireStep, WriterStep, ReaderStep, HeldStep DEF IInv

\* The inductive invariant of the section's two writers and of its reader holds.
THEOREM Invariance == Spec => []IInv
  BY InitInv, NextInv, PTL DEF Spec

\* The layer's block, its slots and both ends' locals are well typed: no slot is written or
\* read that the section does not have.
THEOREM TypeCorrect == Spec => []TypeOK
<1>1. IInv => TypeOK
  BY DEF IInv
<1>2. QED
  BY <1>1, Invariance, PTL

\* A layer that stands in a mapped section is one UICapture remembers to retire.
THEOREM Owed == Spec => []RetirementIsOwed
<1>1. IInv => RetirementIsOwed
  BY DEF IInv, RetireInv
<1>2. QED
  BY <1>1, Invariance, PTL

\* The picture in a quad is one publication, or the game has lapped its upload, or a
\* retirement has met a publication.
THEOREM ShownWhole == Spec => []ShownIsWhole
<1>1. IInv => ShownIsWhole
  BY DEF IInv, HeldInv, ShownIsWhole
<1>2. QED
  BY <1>1, Invariance, PTL

=============================================================================
