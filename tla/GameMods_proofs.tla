-------------------------- MODULE GameMods_proofs ---------------------------
(***************************************************************************)
(* Proofs about two mods that change the game: BoneControl's callbacks,    *)
(* for any number of slots, any skeleton, and any number of requests and   *)
(* of players' objects, and the table of keys the mod holds down or taps,  *)
(* for any number of slots, any keys and buttons, and any calls.           *)
(***************************************************************************)
EXTENDS Bones, SyntheticInput, FiniteSetTheorems, WellFoundedInduction, TLAPS

-----------------------------------------------------------------------------
(* The inductive invariant *)

\* The slots are shut down in order, after the last request.
PhaseInv ==
  /\ phase = "live" => sslot = 0
  /\ phase \in {"others", "retire", "retired", "unmapped"} => sslot + 1 \notin Slots
  /\ phase # "live" => request = NoRequest
  /\ phase = "unmapped" => gpc = "engine"

\* A slot is wanted only with a node, and that node is what on_frame has read.
WishInv ==
  /\ \A s \in Slots : want_attached[s] => pending_node[s] \in Nodes
  /\ request # NoRequest => pending_node[request.slot] \in Nodes
  /\ seen \in [want : BOOLEAN, have : BOOLEAN, want_node : Nodes \cup {"none"}, have_node : Nodes \cup {"none"}]
  /\ gpc \in {"unlink", "clear", "wish", "link", "commit"} /\ seen.want => seen.want_node \in Nodes

\* What on_frame has read of the slot it is at.
FrameInv ==
  /\ gpc \in {"link", "commit"} => seen.want /\ ~attached[gslot] /\ player # "none"
  /\ gpc = "unlink" => seen.have_node = node[gslot] /\ (gslot \notin Withdrawn => attached[gslot])

At(s, places) == gslot = s /\ gpc \in places

\* The slot agrees with the engine's list, but for the two steps between a call of the
\* engine and the note of it, and remembers the object its cell is at.
Agreed(s) ==
  /\ LinkedTo(s) =
       IF At(s, {"clear"}) \/ s \in lost THEN {}
       ELSE IF At(s, {"commit"}) THEN {seen.want_node}
       ELSE IF attached[s] THEN {node[s]} ELSE {}
  /\ LinkedTo(s) # {} \/ At(s, {"link"}) => model[s] = player

\* So does every slot whose shutdown has not begun.
AgreeInv == \A s \in Slots \ Withdrawn : Agreed(s)

\* A slot whose shutdown has begun, and that nobody has wanted since, gets no callback any
\* more; the one it had stays where TakeOut finds it until then.
Withheld(s) ==
  /\ ~want_attached[s]
  /\ At(s, {"unlink", "clear", "wish", "link", "commit"}) => ~seen.want
  /\ LinkedTo(s) = {} \/ (/\ s = sslot /\ phase = "remove" /\ ~At(s, {"clear"})
                         /\ LinkedTo(s) = {node[s]} /\ model[s] = player)

GoneInv == \A s \in Withdrawn \ raced : Withheld(s)

IInv ==
  /\ TypeOK
  /\ PhaseInv
  /\ WishInv
  /\ FrameInv
  /\ AgreeInv
  /\ GoneInv

-----------------------------------------------------------------------------
(* The engine's list *)

CellType == [node : Nodes, slot : Slots]

LEMMA CellIs ==
  ASSUME NEW c \in CellType
  PROVE  c = Cell(c.node, c.slot) /\ c.node \in Nodes /\ c.slot \in Slots
  BY DEF Cell, CellType

LEMMA CellFields ==
  ASSUME NEW n, NEW s
  PROVE  Cell(n, s).node = n /\ Cell(n, s).slot = s
  BY DEF Cell

\* The cells of a slot, as the nodes they are at.
LEMMA Linked ==
  ASSUME NEW s, NEW n
  PROVE  /\ TypeOK => (n \in LinkedTo(s) <=> Cell(n, s) \in cells)
         /\ TypeOK' => (n \in LinkedTo(s)' <=> Cell(n, s) \in cells')
<1>1. ASSUME NEW C \in SUBSET CellType
      PROVE  n \in {c.node : c \in {d \in C : d.slot = s}} <=> Cell(n, s) \in C
  <2>1. ASSUME NEW c \in C, c.slot = s, c.node = n
        PROVE  Cell(n, s) \in C
    BY <2>1, CellIs
  <2>2. QED
    BY <2>1, CellFields
<1>2. TypeOK => cells \in SUBSET CellType
  BY DEF TypeOK, CellType
<1>3. TypeOK' => cells' \in SUBSET CellType
  BY DEF TypeOK, CellType
<1>4. QED
  BY <1>1, <1>2, <1>3 DEF LinkedTo

\* Removing a callback takes it off one slot; slot 0's takes the others on its node along.
LEMMA Removal ==
  ASSUME TypeOK, TypeOK', NEW object, NEW n, NEW s, remove(object, n, s), NEW t \in Slots
  PROVE  /\ player' = player /\ lost \subseteq lost'
         /\ \/ LinkedTo(t)' = LinkedTo(t)
            \/ LinkedTo(t)' = LinkedTo(t) \ {n} /\ (t = s \/ t \in lost')
         /\ t \in lost' => t \in lost \/ (t # s /\ LinkedTo(t)' = LinkedTo(t) \ {n} /\ n \in LinkedTo(t))
         /\ object = player /\ t = s => LinkedTo(t)' = LinkedTo(t) \ {n}
<1> DEFINE gone == IF object = player /\ object # "none" THEN Matching(n, s) ELSE {}
<1>1. /\ cells' = cells \ gone /\ player' = player
      /\ lost' = lost \cup {c.slot : c \in {d \in gone : d.slot # s}}
  BY DEF remove
<1>2. \A c \in gone : c \in cells /\ c.node = n /\ (s = 0 \/ c.slot = s)
  BY DEF Matching
<1>3. object # "none" => (object = player => \A c \in cells : c.node = n /\ (s = 0 \/ c.slot = s) => c \in gone)
  BY DEF Matching
<1>4. object = "none" /\ object = player => cells = {}
  BY DEF TypeOK
<1>5. \A c \in cells : c \in CellType
  BY DEF TypeOK, CellType
<1> HIDE DEF gone
<1>6. \A m : m # n => (m \in LinkedTo(t)' <=> m \in LinkedTo(t))
  <2>1. SUFFICES ASSUME NEW m, m # n PROVE m \in LinkedTo(t)' <=> m \in LinkedTo(t)
    OBVIOUS
  <2>2. Cell(m, t) \notin gone
    BY <1>2, <2>1, CellFields
  <2>3. Cell(m, t) \in cells' <=> Cell(m, t) \in cells
    BY <1>1, <2>2
  <2>4. QED
    BY <2>3, Linked
<1>7. n \in LinkedTo(t)' <=> (Cell(n, t) \in cells /\ Cell(n, t) \notin gone)
  BY <1>1, Linked
<1>8. n \in LinkedTo(t) <=> Cell(n, t) \in cells
  BY Linked
<1>9. Cell(n, t) \in gone => t = s \/ t \in lost'
  BY <1>1, CellFields
<1>10. LinkedTo(t)' = LinkedTo(t) \/ (LinkedTo(t)' = LinkedTo(t) \ {n} /\ (t = s \/ t \in lost'))
  <2>1. CASE Cell(n, t) \in gone
    BY <1>6, <1>7, <1>9, <2>1
  <2>2. CASE Cell(n, t) \notin gone
    BY <1>6, <1>7, <1>8, <2>2
  <2>3. QED
    BY <2>1, <2>2
<1>11. t \in lost' => t \in lost \/ (t # s /\ LinkedTo(t)' = LinkedTo(t) \ {n} /\ n \in LinkedTo(t))
  <2>1. SUFFICES ASSUME t \in lost', t \notin lost
                 PROVE  t # s /\ LinkedTo(t)' = LinkedTo(t) \ {n} /\ n \in LinkedTo(t)
    OBVIOUS
  <2>2. PICK c \in gone : c.slot = t /\ t # s
    BY <1>1, <2>1
  <2>3. c = Cell(n, t) /\ c \in cells
    BY <1>2, <1>5, <2>2, CellIs
  <2>4. QED
    BY <1>6, <1>7, <1>8, <2>2, <2>3
<1>12. object = player /\ t = s => LinkedTo(t)' = LinkedTo(t) \ {n}
  <2>1. SUFFICES ASSUME object = player, t = s
                 PROVE  LinkedTo(t)' = LinkedTo(t) \ {n}
    OBVIOUS
  <2>2. n \notin LinkedTo(t)'
    BY <1>3, <1>4, <1>7, <2>1, CellFields
  <2>3. QED
    BY <1>6, <2>2
<1>13. QED
  BY <1>1, <1>10, <1>11, <1>12

LEMMA Addition ==
  ASSUME TypeOK, TypeOK', NEW n, NEW s, add(n, s), NEW t \in Slots
  PROVE  /\ player' = player
         /\ LinkedTo(t)' = IF t = s THEN LinkedTo(t) \cup {n} ELSE LinkedTo(t)
         /\ t \in lost' <=> t # s /\ t \in lost
<1>1. cells' = cells \cup {Cell(n, s)} /\ lost' = lost \ {s} /\ player' = player
  BY DEF add
<1>2. \A m : Cell(m, t) = Cell(n, s) <=> m = n /\ t = s
  BY CellFields
<1>3. \A m : m \in LinkedTo(t)' <=> m \in LinkedTo(t) \/ (m = n /\ t = s)
  BY <1>1, <1>2, Linked
<1>4. QED
  BY <1>1, <1>3

-----------------------------------------------------------------------------
(* Types, and the phases of the unload *)

LEMMA SlotZero ==
  /\ 0 \in Slots /\ kSlots \in Nat \ {0} /\ Slots \subseteq Nat /\ "none" \notin Nodes
  BY BonesAssumption DEF Slots

LEMMA GameTypes ==
  ASSUME TypeOK, WishInv, FrameInv, Game
  PROVE  TypeOK'
<1> USE DEF GStep, slots, engine, frame, vr, command, unload
<1>1. CASE NewPlayer
  <2>1. lost' \subseteq Slots
    BY <1>1 DEF NewPlayer, TypeOK
  <2>2. players' \in 0..MaxPlayers
    BY <1>1, BonesAssumption DEF NewPlayer, TypeOK
  <2>3. QED
    BY <1>1, <2>1, <2>2 DEF NewPlayer, TypeOK
<1>2. CASE BeginFrame
  BY <1>2, SlotZero DEF BeginFrame, TypeOK
<1>3. CASE ReadSlot
  <2>1. gpc' \in {"unlink", "wish"} /\ seen'.want \in BOOLEAN /\ seen'.have \in BOOLEAN
    BY <1>3 DEF ReadSlot, TypeOK
  <2>2. QED
    BY <1>3, <2>1 DEF ReadSlot, TypeOK
<1>4. CASE Unlink
  <2>1. cells' \subseteq cells /\ lost' \subseteq Slots
    BY <1>4 DEF Unlink, remove, Matching, TypeOK
  <2>2. player' = player /\ players' = players
    BY <1>4 DEF Unlink, remove
  <2>3. QED
    BY <1>4, <2>1, <2>2 DEF Unlink, TypeOK
<1>5. CASE Clear
  BY <1>5 DEF Clear, TypeOK, Models
<1>6. CASE Wish
  <2>1. model' \in [Slots -> Models] /\ gslot' \in Slots /\ gpc' \in {"read", "vr", "link"}
        /\ seen'.want \in BOOLEAN /\ seen'.have \in BOOLEAN
    <3>1. CASE gpc' = "link" /\ model' = [model EXCEPT ![gslot] = player] /\ UNCHANGED <<gslot, seen>>
      BY <3>1 DEF TypeOK
    <3>2. CASE NextSlot /\ UNCHANGED model
      BY <3>2, SlotZero DEF NextSlot, Unseen, TypeOK
    <3>3. QED
      BY <1>6, <3>1, <3>2 DEF Wish
  <2>2. QED
    BY <1>6, <2>1 DEF Wish, TypeOK
<1>7. CASE LinkFails
  <2>1. model' \in [Slots -> Models] /\ gslot' \in Slots /\ gpc' \in {"read", "vr"}
        /\ seen'.want \in BOOLEAN /\ seen'.have \in BOOLEAN
    BY <1>7, SlotZero DEF LinkFails, NextSlot, Unseen, TypeOK, Models
  <2>2. QED
    BY <1>7, <2>1 DEF LinkFails, TypeOK
<1>8. CASE Link
  <2>1. Cell(seen.want_node, gslot) \in [node : Nodes, slot : Slots]
    BY <1>8 DEF Link, Cell, TypeOK, WishInv, FrameInv
  <2>2. cells' \subseteq [node : Nodes, slot : Slots] /\ lost' \subseteq Slots /\ player' = player /\ players' = players
    BY <1>8, <2>1 DEF Link, add, TypeOK
  <2>3. player # "none"
    BY <1>8 DEF Link, FrameInv
  <2>4. QED
    BY <1>8, <2>2, <2>3 DEF Link, TypeOK
<1>9. CASE Commit
  <2>1. seen.want_node \in Nodes
    BY <1>9 DEF Commit, WishInv, FrameInv
  <2>2. gslot' \in Slots /\ gpc' \in {"read", "vr"} /\ seen'.want \in BOOLEAN /\ seen'.have \in BOOLEAN
    BY <1>9, SlotZero DEF Commit, NextSlot, Unseen, TypeOK
  <2>3. QED
    BY <1>9, <2>1, <2>2 DEF Commit, TypeOK
<1>10. CASE ReadHands
  BY <1>10 DEF ReadHands, TypeOK
<1>11. CASE drive_hand
  <2>1. PICK active \in SUBSET Hands :
          LET taken == IF driving /\ player # "none" THEN active \ hand_attached ELSE {} IN
          \E n \in Nodes :
            /\ pending_node' = [s \in Slots |-> IF s \in taken THEN n ELSE pending_node[s]]
            /\ want_attached' = [s \in Slots |-> s \in taken \/ want_attached[s]]
            /\ hand_attached' = hand_attached \cup taken
            /\ raced' = raced \cup (taken \cap Withdrawn)
    BY <1>11 DEF drive_hand
  <2>2. /\ pending_node' \in [Slots -> Nodes \cup {"none"}] /\ want_attached' \in [Slots -> BOOLEAN]
        /\ hand_attached' \subseteq Hands
    BY <2>1 DEF TypeOK
  <2>3. raced' \subseteq Slots
    BY <2>1 DEF TypeOK, Withdrawn
  <2>4. QED
    BY <1>11, <2>2, <2>3 DEF drive_hand, TypeOK
<1>12. QED
  BY <1>1, <1>2, <1>3, <1>4, <1>5, <1>6, <1>7, <1>8, <1>9, <1>10, <1>11 DEF Game

LEMMA OtherTypes ==
  ASSUME TypeOK, Command \/ Shutdown
  PROVE  TypeOK'
<1> USE DEF To, slots, engine, frame, vr, command, unload
<1>1. CASE attach_to_player_node
  <2>1. requests' \in 0..MaxRequests
    BY <1>1, BonesAssumption DEF attach_to_player_node, MakeRequest, TypeOK
  <2>2. pending_node' \in [Slots -> Nodes \cup {"none"}] /\ request' \in [slot : Slots, node : Nodes \cup {"none"}]
    BY <1>1 DEF attach_to_player_node, TypeOK
  <2>3. QED
    BY <1>1, <2>1, <2>2 DEF attach_to_player_node, MakeRequest, TypeOK
<1>2. CASE AttachWanted
  <2>1. request' \in [slot : Slots, node : Nodes \cup {"none"}]
    BY <1>2, SlotZero DEF AttachWanted, NoRequest
  <2>2. QED
    BY <1>2, <2>1 DEF AttachWanted, TypeOK
<1>3. CASE detach
  <2>1. requests' \in 0..MaxRequests
    BY <1>3, BonesAssumption DEF detach, MakeRequest, TypeOK
  <2>2. QED
    BY <1>3, <2>1 DEF detach, MakeRequest, TypeOK
<1>4. HandsOff => hands' \in BOOLEAN /\ hand_attached' \subseteq Hands /\ want_attached' \in [Slots -> BOOLEAN]
  BY DEF HandsOff, TypeOK
<1>5. CASE set_hands_enabled
  <2>1. requests' \in 0..MaxRequests
    BY <1>5, BonesAssumption DEF set_hands_enabled, MakeRequest, TypeOK
  <2>2. hands' \in BOOLEAN /\ hand_attached' \subseteq Hands /\ want_attached' \in [Slots -> BOOLEAN]
    BY <1>4, <1>5 DEF set_hands_enabled, TypeOK
  <2>3. QED
    BY <1>5, <2>1, <2>2 DEF set_hands_enabled, MakeRequest, TypeOK
<1>6. CASE BeginShutdown \/ RetireHooks \/ Unmap
  BY <1>6 DEF BeginShutdown, RetireHooks, Unmap, TypeOK
<1>7. CASE Withdraw
  <2>1. phase' \in {"remove", "withdraw", "others"} /\ sslot' \in Slots /\ raced' \subseteq Slots
    BY <1>7 DEF Withdraw, WithdrawTo, NextShutdown, TypeOK
  <2>2. QED
    BY <1>7, <2>1 DEF Withdraw, WithdrawTo, TypeOK
<1>8. CASE TakeOut
  <2>1. cells' \subseteq cells /\ lost' \subseteq Slots
    BY <1>8 DEF TakeOut, remove, Matching, TypeOK
  <2>2. player' = player /\ players' = players
    BY <1>8 DEF TakeOut, remove
  <2>3. QED
    BY <1>8, <2>1, <2>2 DEF TakeOut, TypeOK
<1>9. CASE Forget
  <2>1. phase' \in {"withdraw", "others"} /\ sslot' \in Slots
    BY <1>9 DEF Forget, NextShutdown, TypeOK
  <2>2. attached' \in [Slots -> BOOLEAN] /\ model' \in [Slots -> Models]
    BY <1>9 DEF Forget, TypeOK, Models
  <2>3. QED
    BY <1>9, <2>1, <2>2 DEF Forget, TypeOK
<1>10. CASE VRShutdown
  BY <1>4, <1>10 DEF VRShutdown, TypeOK
<1>11. QED
  BY <1>1, <1>2, <1>3, <1>5, <1>6, <1>7, <1>8, <1>9, <1>10 DEF Command, Shutdown

-----------------------------------------------------------------------------
(* Phases and wishes *)

LEMMA PhaseStep ==
  ASSUME TypeOK, PhaseInv, Next
  PROVE  PhaseInv'
<1> USE DEF To, GStep, slots, engine, frame, vr, command, unload
<1>1. CASE Game
  <2>1. UNCHANGED <<phase, sslot, request>> /\ (gpc = "engine" => gpc' = "engine" \/ BeginFrame)
    BY <1>1 DEF Game, NewPlayer, BeginFrame, ReadSlot, Unlink, Clear, Wish, LinkFails, Link, Commit, ReadHands, drive_hand
  <2>2. BeginFrame => phase # "unmapped"
    BY DEF BeginFrame
  <2>3. QED
    BY <2>1, <2>2 DEF PhaseInv
<1>2. CASE Command
  <2>1. UNCHANGED <<phase, sslot, gpc>>
    BY <1>2 DEF Command, attach_to_player_node, AttachWanted, detach, set_hands_enabled
  <2>2. phase # "live" => request' = NoRequest
    BY <1>2 DEF Command, attach_to_player_node, AttachWanted, detach, set_hands_enabled, MakeRequest, PhaseInv
  <2>3. QED
    BY <2>1, <2>2 DEF PhaseInv
<1>3. CASE Shutdown
  <2>1. UNCHANGED <<request, gpc>>
    BY <1>3 DEF Shutdown, BeginShutdown, Withdraw, WithdrawTo, TakeOut, Forget, VRShutdown, RetireHooks, Unmap
  <2>2. request' = NoRequest
    BY <1>3, <2>1 DEF Shutdown, BeginShutdown, Withdraw, WithdrawTo, TakeOut, Forget, VRShutdown, RetireHooks, Unmap,
       PhaseInv
  <2>3. phase' # "live"
    BY <1>3 DEF Shutdown, BeginShutdown, Withdraw, WithdrawTo, TakeOut, Forget, VRShutdown, RetireHooks, Unmap, NextShutdown
  <2>4. phase' \in {"others", "retire", "retired", "unmapped"} => sslot' + 1 \notin Slots
    BY <1>3 DEF Shutdown, BeginShutdown, Withdraw, WithdrawTo, TakeOut, Forget, VRShutdown, RetireHooks, Unmap,
       NextShutdown, PhaseInv
  <2>5. phase' = "unmapped" => gpc' = "engine"
    BY <1>3 DEF Shutdown, BeginShutdown, Withdraw, WithdrawTo, TakeOut, Forget, VRShutdown, RetireHooks, Unmap, NextShutdown
  <2>6. QED
    BY <2>2, <2>3, <2>4, <2>5 DEF PhaseInv
<1>4. QED
  BY <1>1, <1>2, <1>3 DEF Next

\* Only Withdraw begins the shutdown of a slot.
LEMMA WithdrawnStep ==
  ASSUME TypeOK, PhaseInv, Next
  PROVE  /\ Game \/ Command \/ BeginShutdown \/ TakeOut \/ Forget \/ VRShutdown \/ RetireHooks \/ Unmap =>
              Withdrawn' = Withdrawn
         /\ Withdraw => Withdrawn' = Withdrawn \cup {sslot} /\ sslot \notin Withdrawn
         /\ Withdrawn \subseteq Withdrawn'
<1> USE DEF To, slots, engine, frame, vr, command, unload
<1>0. sslot \in Slots /\ sslot \in Nat /\ (\A s \in Slots : s \in Nat) /\ kSlots \in Nat
  BY SlotZero DEF TypeOK
<1>a. Withdrawn \subseteq Slots /\ Withdrawn' \subseteq Slots
  BY DEF Withdrawn
<1>b. \A s \in Slots : s \in Withdrawn <=> phase # "live" /\ (s < sslot \/ (s = sslot /\ phase # "withdraw"))
  BY DEF Withdrawn
<1>c. \A s \in Slots : s \in Withdrawn' <=> phase' # "live" /\ (s < sslot' \/ (s = sslot' /\ phase' # "withdraw"))
  BY DEF Withdrawn
<1>1. Game \/ Command \/ RetireHooks \/ VRShutdown \/ Unmap \/ TakeOut => Withdrawn' = Withdrawn
  <2>1. SUFFICES ASSUME Game \/ Command \/ RetireHooks \/ VRShutdown \/ Unmap \/ TakeOut
                 PROVE  Withdrawn' = Withdrawn
    OBVIOUS
  <2>2. sslot' = sslot
    BY <2>1 DEF Game, NewPlayer, BeginFrame, ReadSlot, Unlink, Clear, Wish, LinkFails, Link, Commit, ReadHands,
       drive_hand, Command, attach_to_player_node, AttachWanted, detach, set_hands_enabled, RetireHooks, VRShutdown, Unmap, TakeOut
  <2>3. (phase' = "live" <=> phase = "live") /\ (phase' = "withdraw" <=> phase = "withdraw")
    BY <2>1 DEF Game, NewPlayer, BeginFrame, ReadSlot, Unlink, Clear, Wish, LinkFails, Link, Commit, ReadHands,
       drive_hand, Command, attach_to_player_node, AttachWanted, detach, set_hands_enabled, RetireHooks, VRShutdown, Unmap, TakeOut
  <2>4. QED
    BY <1>a, <1>b, <1>c, <2>2, <2>3
<1>2. BeginShutdown => Withdrawn' = Withdrawn
  <2>1. SUFFICES ASSUME BeginShutdown PROVE Withdrawn' = Withdrawn
    OBVIOUS
  <2>2. phase = "live" /\ phase' = "withdraw" /\ sslot' = 0
    BY <2>1 DEF BeginShutdown, PhaseInv
  <2>3. \A s \in Slots : s \notin Withdrawn /\ s \notin Withdrawn'
    BY <1>0, <1>b, <1>c, <2>2
  <2>4. QED
    BY <1>a, <2>3
<1>3. Withdraw => Withdrawn' = Withdrawn \cup {sslot} /\ sslot \notin Withdrawn
  <2>1. SUFFICES ASSUME Withdraw PROVE Withdrawn' = Withdrawn \cup {sslot} /\ sslot \notin Withdrawn
    OBVIOUS
  <2>2. /\ phase = "withdraw"
        /\ \/ phase' \in {"remove", "others"} /\ sslot' = sslot
           \/ phase' = "withdraw" /\ sslot' = sslot + 1
    BY <2>1 DEF Withdraw, WithdrawTo, NextShutdown
  <2>3. \A s \in Slots : s \in Withdrawn <=> s < sslot
    BY <1>0, <1>b, <2>2
  <2>4. \A s \in Slots : s \in Withdrawn' <=> s < sslot \/ s = sslot
    <3>1. CASE phase' \in {"remove", "others"} /\ sslot' = sslot
      BY <1>0, <1>c, <3>1
    <3>2. CASE phase' = "withdraw" /\ sslot' = sslot + 1
      BY <1>0, <1>c, <3>2
    <3>3. QED
      BY <2>2, <3>1, <3>2
  <2>5. sslot \notin Withdrawn
    BY <1>0, <2>3
  <2>6. \A s \in Slots : s \in Withdrawn' <=> s \in Withdrawn \cup {sslot}
    BY <2>3, <2>4
  <2>7. QED
    BY <1>0, <1>a, <2>5, <2>6
<1>4. Forget => Withdrawn' = Withdrawn
  <2>1. SUFFICES ASSUME Forget PROVE Withdrawn' = Withdrawn
    OBVIOUS
  <2>2. /\ phase = "forget"
        /\ \/ phase' = "others" /\ sslot' = sslot
           \/ phase' = "withdraw" /\ sslot' = sslot + 1
    BY <2>1 DEF Forget, NextShutdown
  <2>3. \A s \in Slots : s \in Withdrawn <=> s < sslot \/ s = sslot
    BY <1>0, <1>b, <2>2
  <2>4. \A s \in Slots : s \in Withdrawn' <=> s < sslot \/ s = sslot
    <3>1. CASE phase' = "others" /\ sslot' = sslot
      BY <1>0, <1>c, <3>1
    <3>2. CASE phase' = "withdraw" /\ sslot' = sslot + 1
      BY <1>0, <1>c, <3>2
    <3>3. QED
      BY <2>2, <3>1, <3>2
  <2>5. QED
    BY <1>a, <2>3, <2>4
<1>5. QED
  BY <1>1, <1>2, <1>3, <1>4 DEF Next, Shutdown

LEMMA WishStep ==
  ASSUME TypeOK, WishInv, Next
  PROVE  WishInv'
<1> USE DEF To, GStep, slots, engine, frame, vr, command, unload
<1> DEFINE Seen == [want : BOOLEAN, have : BOOLEAN, want_node : Nodes \cup {"none"}, have_node : Nodes \cup {"none"}]
<1> DEFINE W == \A s \in Slots : want_attached[s] => pending_node[s] \in Nodes
<1> DEFINE Q == request # NoRequest => pending_node[request.slot] \in Nodes
<1> DEFINE G == gpc \in {"unlink", "clear", "wish", "link", "commit"} /\ seen.want => seen.want_node \in Nodes
<1>1. CASE Game
  <2>1. seen' \in Seen /\ G'
    <3>1. CASE ReadSlot
      <4>1. seen' = [want |-> want_attached[gslot], have |-> attached[gslot],
                     want_node |-> pending_node[gslot], have_node |-> node[gslot]]
        BY <3>1 DEF ReadSlot
      <4>2. QED
        BY <4>1 DEF TypeOK, WishInv
    <3>2. CASE (Wish \/ LinkFails \/ Commit) /\ NextSlot
      BY <3>2 DEF NextSlot, Unseen
    <3>3. CASE ~ReadSlot /\ ~((Wish \/ LinkFails \/ Commit) /\ NextSlot)
      <4>1. seen' = seen /\ (gpc' \in {"unlink", "clear", "wish", "link", "commit"} =>
                               gpc \in {"unlink", "clear", "wish", "link", "commit"})
        BY <1>1, <3>3 DEF Game, NewPlayer, BeginFrame, Unlink, Clear, Wish, LinkFails, Link, Commit, ReadHands, drive_hand
      <4>2. QED
        BY <4>1 DEF WishInv
    <3>4. QED
      BY <3>1, <3>2, <3>3
  <2>2. W' /\ Q'
    <3>1. CASE drive_hand
      <4>1. PICK active \in SUBSET Hands :
              LET taken == IF driving /\ player # "none" THEN active \ hand_attached ELSE {} IN
              \E n \in Nodes :
                /\ pending_node' = [s \in Slots |-> IF s \in taken THEN n ELSE pending_node[s]]
                /\ want_attached' = [s \in Slots |-> s \in taken \/ want_attached[s]]
        BY <3>1 DEF drive_hand
      <4>2. request' = request /\ request.slot \in Slots
        BY <3>1 DEF drive_hand, TypeOK
      <4>3. \A s \in Slots : pending_node'[s] \in Nodes \/ (pending_node'[s] = pending_node[s] /\ (want_attached'[s] => want_attached[s]))
        BY <4>1
      <4>4. QED
        BY <4>2, <4>3 DEF WishInv
    <3>2. CASE ~drive_hand
      <4>1. UNCHANGED <<want_attached, pending_node, request>>
        BY <1>1, <3>2 DEF Game, NewPlayer, BeginFrame, ReadSlot, Unlink, Clear, Wish, LinkFails, Link, Commit, ReadHands
      <4>2. QED
        BY <4>1 DEF WishInv
    <3>3. QED
      BY <3>1, <3>2
  <2>3. QED
    BY <2>1, <2>2 DEF WishInv
<1>2. CASE Command
  <2>1. seen' \in Seen /\ G'
    <3>1. UNCHANGED <<gpc, seen>>
      BY <1>2 DEF Command, attach_to_player_node, AttachWanted, detach, set_hands_enabled
    <3>2. QED
      BY <3>1 DEF WishInv
  <2>2. CASE attach_to_player_node
    <3>1. PICK s \in Slots, n \in Nodes : pending_node' = [pending_node EXCEPT ![s] = n] /\ request' = [slot |-> s, node |-> n]
      BY <2>2 DEF attach_to_player_node
    <3>2. \A r \in Slots : pending_node'[r] = (IF r = s THEN n ELSE pending_node[r])
      BY <3>1 DEF TypeOK
    <3>3. want_attached' = want_attached
      BY <2>2 DEF attach_to_player_node
    <3>4. W' /\ Q'
      BY <3>1, <3>2, <3>3 DEF WishInv
    <3>5. QED
      BY <2>1, <3>4 DEF WishInv
  <2>3. CASE AttachWanted
    <3>1. /\ pending_node' = pending_node /\ request' = NoRequest /\ request # NoRequest
          /\ want_attached' = [want_attached EXCEPT ![request.slot] = TRUE]
      BY <2>3 DEF AttachWanted
    <3>2. \A s \in Slots : want_attached'[s] => want_attached[s] \/ s = request.slot
      BY <3>1 DEF TypeOK
    <3>3. W' /\ Q'
      BY <3>1, <3>2 DEF WishInv
    <3>4. QED
      BY <2>1, <3>3 DEF WishInv
  <2>4. CASE detach \/ set_hands_enabled
    <3>1. pending_node' = pending_node /\ request' = request
      BY <2>4 DEF detach, set_hands_enabled
    <3>2. \A s \in Slots : want_attached'[s] => want_attached[s]
      BY <2>4 DEF detach, set_hands_enabled, HandsOff, TypeOK
    <3>3. W' /\ Q'
      BY <3>1, <3>2 DEF WishInv
    <3>4. QED
      BY <2>1, <3>3 DEF WishInv
  <2>5. QED
    BY <1>2, <2>2, <2>3, <2>4 DEF Command
<1>3. CASE Shutdown
  <2>1. UNCHANGED <<pending_node, request, gpc, seen>>
    BY <1>3 DEF Shutdown, BeginShutdown, Withdraw, WithdrawTo, TakeOut, Forget, VRShutdown, RetireHooks, Unmap
  <2>2. \A s \in Slots : want_attached'[s] => want_attached[s]
    BY <1>3 DEF Shutdown, BeginShutdown, Withdraw, WithdrawTo, TakeOut, Forget, VRShutdown, RetireHooks, Unmap, HandsOff,
       TypeOK
  <2>3. QED
    BY <2>1, <2>2 DEF WishInv
<1>4. QED
  BY <1>1, <1>2, <1>3 DEF Next

LEMMA FrameStep ==
  ASSUME TypeOK, PhaseInv, FrameInv, Next
  PROVE  FrameInv'
<1> USE DEF To, GStep, slots, engine, frame, vr, command, unload
<1>0. Withdrawn \subseteq Withdrawn'
  BY WithdrawnStep
<1>1. CASE ReadSlot
  <2>1. seen'.have_node = node[gslot] /\ (gpc' = "unlink" => attached[gslot]) /\ gpc' \in {"unlink", "wish"}
        /\ UNCHANGED <<node, attached, gslot>>
    BY <1>1 DEF ReadSlot
  <2>2. QED
    BY <2>1 DEF FrameInv
<1>2. CASE Wish
  <2>1. gpc' \in {"link", "read", "vr"} /\ UNCHANGED <<player, attached>>
        /\ (gpc' = "link" => seen' = seen /\ gslot' = gslot /\ seen.want /\ ~attached[gslot] /\ player # "none")
    BY <1>2 DEF Wish, NextSlot
  <2>2. QED
    BY <2>1 DEF FrameInv
<1>3. CASE Link
  <2>1. gpc = "link" /\ gpc' = "commit" /\ UNCHANGED <<player, attached, seen, gslot>>
    BY <1>3 DEF Link, add
  <2>2. QED
    BY <2>1 DEF FrameInv
<1>4. CASE NewPlayer \/ BeginFrame \/ Unlink \/ Clear \/ LinkFails \/ Commit \/ ReadHands \/ drive_hand
  <2>1. gpc' \notin {"link", "commit", "unlink"}
    BY <1>4 DEF NewPlayer, BeginFrame, Unlink, Clear, LinkFails, Commit, ReadHands, drive_hand, NextSlot
  <2>2. QED
    BY <2>1 DEF FrameInv
<1>5. CASE Command \/ Shutdown
  <2>1. UNCHANGED <<gpc, gslot, seen, node, player>>
    BY <1>5 DEF Command, attach_to_player_node, AttachWanted, detach, set_hands_enabled,
       Shutdown, BeginShutdown, Withdraw, WithdrawTo, TakeOut, Forget, VRShutdown, RetireHooks, Unmap, remove
  <2>2. attached' = attached \/ (Forget /\ attached' = [attached EXCEPT ![sslot] = FALSE])
    BY <1>5 DEF Command, attach_to_player_node, AttachWanted, detach, set_hands_enabled,
       Shutdown, BeginShutdown, Withdraw, WithdrawTo, TakeOut, Forget, VRShutdown, RetireHooks, Unmap
  <2>3. Forget => sslot \in Withdrawn
    BY DEF Forget, Withdrawn, TypeOK
  <2>4. \A s \in Slots : attached'[s] = attached[s] \/ (~attached'[s] /\ s \in Withdrawn)
    BY <2>2, <2>3 DEF TypeOK
  <2>5. gslot \in Slots
    BY DEF TypeOK
  <2>6. QED
    BY <1>0, <2>1, <2>4, <2>5 DEF FrameInv
<1>6. QED
  BY <1>1, <1>2, <1>3, <1>4, <1>5 DEF Next, Game

-----------------------------------------------------------------------------
(* The slots whose shutdown has not begun *)

\* A step that touches neither the list nor what the slots remember of it.
LEMMA AgreeSame ==
  ASSUME NEW s, Agreed(s),
         UNCHANGED <<cells, lost, attached, node, model, player>>,
         UNCHANGED <<gpc, gslot, seen>> \/ {gpc, gpc'} \cap {"clear", "commit", "link"} = {}
  PROVE  Agreed(s)'
<1>1. CASE UNCHANGED <<gpc, gslot, seen>>
  BY <1>1 DEF Agreed, At, LinkedTo
<1>2. CASE {gpc, gpc'} \cap {"clear", "commit", "link"} = {}
  <2>1. ~At(s, {"clear"}) /\ ~At(s, {"commit"}) /\ ~At(s, {"link"})
    BY <1>2 DEF At
  <2>2. ~At(s, {"clear"})' /\ ~At(s, {"commit"})' /\ ~At(s, {"link"})'
    BY <1>2 DEF At
  <2>3. LinkedTo(s)' = LinkedTo(s)
    BY DEF LinkedTo
  <2>4. QED
    BY <2>1, <2>2, <2>3 DEF Agreed
<1>3. QED
  BY <1>1, <1>2

LEMMA AgreeGame ==
  ASSUME TypeOK, TypeOK', PhaseInv, FrameInv, Game, NEW s \in Slots, s \notin Withdrawn, Agreed(s)
  PROVE  Agreed(s)'
<1> USE DEF To, GStep, slots, engine, frame, vr, command, unload
<1>0. gslot \in Slots
  BY DEF TypeOK
<1>1. CASE NewPlayer
  <2>1. gpc = "engine" /\ cells' = {} /\ lost' = lost \cup {c.slot : c \in cells} /\ UNCHANGED <<attached, node, gpc, gslot>>
    BY <1>1 DEF NewPlayer
  <2>2. LinkedTo(s)' = {}
    BY <2>1 DEF LinkedTo
  <2>3. LinkedTo(s) = {} \/ s \in lost'
    BY <2>1 DEF LinkedTo
  <2>4. ~At(s, {"clear"}) /\ ~At(s, {"commit"}) /\ ~At(s, {"commit"})' /\ ~At(s, {"link"})'
    BY <2>1 DEF At
  <2>5. s \notin lost' => ~attached[s]
    BY <2>1, <2>3, <2>4 DEF Agreed
  <2>6. QED
    BY <2>1, <2>2, <2>4, <2>5 DEF Agreed
<1>2. CASE BeginFrame \/ ReadSlot \/ ReadHands \/ drive_hand
  <2>1. /\ UNCHANGED <<cells, lost, attached, node, model, player>>
        /\ {gpc, gpc'} \cap {"clear", "commit", "link"} = {}
    BY <1>2 DEF BeginFrame, ReadSlot, ReadHands, drive_hand
  <2>2. QED
    BY <2>1, AgreeSame
<1>3. CASE Unlink
  <2>1. /\ remove(model[gslot], seen.have_node, gslot) /\ gpc = "unlink" /\ gpc' = "clear"
        /\ UNCHANGED <<attached, node, model, gslot>>
    BY <1>3 DEF Unlink
  <2>2. /\ player' = player /\ lost \subseteq lost'
        /\ \/ LinkedTo(s)' = LinkedTo(s)
           \/ LinkedTo(s)' = LinkedTo(s) \ {seen.have_node} /\ (s = gslot \/ s \in lost')
        /\ s \in lost' => s \in lost
             \/ (s # gslot /\ LinkedTo(s)' = LinkedTo(s) \ {seen.have_node} /\ seen.have_node \in LinkedTo(s))
        /\ model[gslot] = player /\ s = gslot => LinkedTo(s)' = LinkedTo(s) \ {seen.have_node}
    BY <1>0, <2>1, Removal
  <2>3. seen.have_node = node[gslot] /\ (gslot \notin Withdrawn => attached[gslot])
    BY <2>1 DEF FrameInv
  <2>4. /\ LinkedTo(s) = IF s \in lost THEN {} ELSE IF attached[s] THEN {node[s]} ELSE {}
        /\ LinkedTo(s) # {} => model[s] = player
    BY <2>1 DEF Agreed, At
  <2>5. CASE s = gslot
    <3>1. LinkedTo(s)' = {}
      BY <2>2, <2>3, <2>4, <2>5
    <3>2. At(s, {"clear"})' /\ ~At(s, {"link"})'
      BY <2>1, <2>5 DEF At
    <3>3. QED
      BY <3>1, <3>2 DEF Agreed
  <2>6. CASE s # gslot
    <3>1. LinkedTo(s)' = IF s \in lost' THEN {} ELSE IF attached[s] THEN {node[s]} ELSE {}
      BY <2>2, <2>4, <2>6
    <3>2. LinkedTo(s)' # {} => model[s] = player
      BY <2>2, <2>4
    <3>3. ~At(s, {"clear"})' /\ ~At(s, {"link"})' /\ ~At(s, {"commit"})'
      BY <2>1, <2>6 DEF At
    <3>4. QED
      BY <2>1, <2>2, <3>1, <3>2, <3>3 DEF Agreed
  <2>7. QED
    BY <2>5, <2>6
<1>4. CASE Clear
  <2>1. /\ attached' = [attached EXCEPT ![gslot] = FALSE] /\ model' = [model EXCEPT ![gslot] = "none"]
        /\ gpc = "clear" /\ gpc' = "wish" /\ UNCHANGED <<cells, lost, player, node, gslot>>
    BY <1>4 DEF Clear
  <2>2. LinkedTo(s)' = LinkedTo(s)
    BY <2>1 DEF LinkedTo
  <2>3. ~At(s, {"clear"})' /\ ~At(s, {"link"})' /\ ~At(s, {"commit"})' /\ ~At(s, {"commit"})
    BY <2>1 DEF At
  <2>4. CASE s = gslot
    <3>1. LinkedTo(s) = {}
      BY <2>1, <2>4 DEF Agreed, At
    <3>2. ~attached'[s]
      BY <2>1, <2>4 DEF TypeOK
    <3>3. QED
      BY <2>2, <2>3, <3>1, <3>2 DEF Agreed
  <2>5. CASE s # gslot
    <3>1. attached'[s] = attached[s] /\ model'[s] = model[s] /\ ~At(s, {"clear"})
      BY <2>1, <2>5 DEF TypeOK, At
    <3>2. QED
      BY <2>1, <2>2, <2>3, <3>1 DEF Agreed
  <2>6. QED
    BY <2>4, <2>5
<1>5. CASE Wish
  <2>1. /\ gpc = "wish" /\ UNCHANGED <<cells, lost, player, node, attached>>
        /\ \/ gpc' = "link" /\ gslot' = gslot /\ model' = [model EXCEPT ![gslot] = player]
           \/ gpc' \in {"read", "vr"} /\ model' = model
    BY <1>5 DEF Wish, NextSlot
  <2>2. LinkedTo(s)' = LinkedTo(s)
    BY <2>1 DEF LinkedTo
  <2>3. ~At(s, {"clear"})' /\ ~At(s, {"commit"})' /\ ~At(s, {"commit"}) /\ ~At(s, {"clear"})
    BY <2>1 DEF At
  <2>4. LinkedTo(s) # {} \/ At(s, {"link"})' => model'[s] = player
    <3>1. model'[s] = model[s] \/ model'[s] = player
      BY <2>1 DEF TypeOK
    <3>2. At(s, {"link"})' => model'[s] = player
      BY <2>1 DEF At, TypeOK
    <3>3. QED
      BY <3>1, <3>2 DEF Agreed
  <2>5. QED
    BY <2>1, <2>2, <2>3, <2>4 DEF Agreed
<1>6. CASE LinkFails
  <2>1. /\ gpc = "link" /\ gpc' \in {"read", "vr"} /\ UNCHANGED <<cells, lost, player, node, attached>>
        /\ model' = [model EXCEPT ![gslot] = "none"]
    BY <1>6 DEF LinkFails, NextSlot
  <2>2. LinkedTo(s)' = LinkedTo(s)
    BY <2>1 DEF LinkedTo
  <2>3. ~At(s, {"clear"})' /\ ~At(s, {"commit"})' /\ ~At(s, {"commit"}) /\ ~At(s, {"clear"}) /\ ~At(s, {"link"})'
    BY <2>1 DEF At
  <2>4. s = gslot => LinkedTo(s) = {}
    BY <2>1, <2>3 DEF FrameInv, Agreed
  <2>5. s # gslot => model'[s] = model[s]
    BY <2>1 DEF TypeOK
  <2>6. QED
    BY <2>1, <2>2, <2>3, <2>4, <2>5 DEF Agreed
<1>7. CASE Link
  <2>1. /\ gpc = "link" /\ gpc' = "commit" /\ add(seen.want_node, gslot) /\ UNCHANGED <<attached, node, model, gslot, seen>>
    BY <1>7 DEF Link
  <2>2. /\ player' = player
        /\ LinkedTo(s)' = IF s = gslot THEN LinkedTo(s) \cup {seen.want_node} ELSE LinkedTo(s)
        /\ s \in lost' <=> s # gslot /\ s \in lost
    BY <1>0, <2>1, Addition
  <2>3. ~At(s, {"clear"})' /\ ~At(s, {"commit"}) /\ ~At(s, {"clear"}) /\ ~At(s, {"link"})'
        /\ (At(s, {"commit"})' <=> s = gslot) /\ (At(s, {"link"}) <=> s = gslot)
    BY <2>1 DEF At
  <2>4. s = gslot => LinkedTo(s) = {} /\ model[s] = player
    BY <2>1, <2>3 DEF FrameInv, Agreed
  <2>5. QED
    BY <2>1, <2>2, <2>3, <2>4 DEF Agreed
<1>8. CASE Commit
  <2>1. /\ gpc = "commit" /\ gpc' \in {"read", "vr"} /\ UNCHANGED <<cells, lost, player, model>>
        /\ node' = [node EXCEPT ![gslot] = seen.want_node] /\ attached' = [attached EXCEPT ![gslot] = TRUE]
    BY <1>8 DEF Commit, NextSlot
  <2>2. LinkedTo(s)' = LinkedTo(s)
    BY <2>1 DEF LinkedTo
  <2>3. ~At(s, {"clear"})' /\ ~At(s, {"commit"})' /\ ~At(s, {"link"})' /\ ~At(s, {"clear"}) /\ (At(s, {"commit"}) <=> s = gslot)
    BY <2>1 DEF At
  <2>4. s = gslot => node'[s] = seen.want_node /\ attached'[s]
    BY <2>1 DEF TypeOK
  <2>5. s # gslot => node'[s] = node[s] /\ attached'[s] = attached[s]
    BY <2>1 DEF TypeOK
  <2>6. QED
    BY <2>1, <2>2, <2>3, <2>4, <2>5 DEF Agreed
<1>9. QED
  BY <1>1, <1>2, <1>3, <1>4, <1>5, <1>6, <1>7, <1>8 DEF Game

LEMMA AgreeOther ==
  ASSUME TypeOK, TypeOK', PhaseInv, Command \/ Shutdown, NEW s \in Slots, s \notin Withdrawn, Agreed(s)
  PROVE  Agreed(s)'
<1> USE DEF To, slots, engine, frame, vr, command, unload
<1>1. CASE Command \/ BeginShutdown \/ Withdraw \/ VRShutdown \/ RetireHooks \/ Unmap
  <2>1. UNCHANGED <<cells, lost, attached, node, model, player, gpc, gslot, seen>>
    BY <1>1 DEF Command, attach_to_player_node, AttachWanted, detach, set_hands_enabled, BeginShutdown, Withdraw,
       WithdrawTo, VRShutdown, RetireHooks, Unmap
  <2>2. QED
    BY <2>1, AgreeSame
<1>2. CASE TakeOut
  <2> DEFINE n == node[sslot]
  <2>1. /\ remove(model[sslot], n, sslot) /\ UNCHANGED <<attached, node, model, gpc, gslot, seen>> /\ sslot \in Slots
    BY <1>2 DEF TakeOut, TypeOK
  <2>2. sslot \in Withdrawn
    BY <1>2, <2>1 DEF TakeOut, Withdrawn
  <2> HIDE DEF n
  <2>3. /\ player' = player /\ lost \subseteq lost'
        /\ \/ LinkedTo(s)' = LinkedTo(s)
           \/ LinkedTo(s)' = LinkedTo(s) \ {n} /\ s \in lost'
        /\ s \in lost' => s \in lost \/ (LinkedTo(s)' = LinkedTo(s) \ {n} /\ n \in LinkedTo(s))
    BY <2>1, <2>2, Removal
  <2>4. /\ At(s, {"clear"})' <=> At(s, {"clear"})
        /\ At(s, {"commit"})' <=> At(s, {"commit"})
        /\ At(s, {"link"})' <=> At(s, {"link"})
    BY <2>1 DEF At
  <2>5. QED
    BY <2>1, <2>3, <2>4 DEF Agreed
<1>3. CASE Forget
  <2>1. /\ attached' = [attached EXCEPT ![sslot] = FALSE] /\ model' = [model EXCEPT ![sslot] = "none"] /\ sslot \in Slots
        /\ UNCHANGED <<cells, lost, player, node, gpc, gslot, seen>>
    BY <1>3 DEF Forget, TypeOK
  <2>2. sslot \in Withdrawn
    BY <1>3, <2>1 DEF Forget, Withdrawn
  <2>3. attached'[s] = attached[s] /\ model'[s] = model[s]
    BY <2>1, <2>2 DEF TypeOK
  <2>4. LinkedTo(s)' = LinkedTo(s)
    BY <2>1 DEF LinkedTo
  <2>5. QED
    BY <2>1, <2>3, <2>4 DEF Agreed, At
<1>4. QED
  BY <1>1, <1>2, <1>3 DEF Shutdown

LEMMA AgreeStep ==
  ASSUME TypeOK, TypeOK', PhaseInv, FrameInv, AgreeInv, Next
  PROVE  AgreeInv'
<1>1. SUFFICES ASSUME NEW s \in Slots, s \notin Withdrawn'
               PROVE  Agreed(s)'
  BY DEF AgreeInv
<1>2. s \notin Withdrawn
  BY <1>1, WithdrawnStep
<1>3. Agreed(s)
  BY <1>2 DEF AgreeInv
<1>4. QED
  BY <1>2, <1>3, AgreeGame, AgreeOther DEF Next

-----------------------------------------------------------------------------
(* The slots whose shutdown has begun *)

LEMMA GoneGame ==
  ASSUME TypeOK, TypeOK', FrameInv, Game, NEW s \in Slots, s \in Withdrawn, s \notin raced', Withheld(s), s \notin raced
  PROVE  Withheld(s)'
<1> USE DEF To, GStep, slots, engine, frame, vr, command, unload
<1> DEFINE Places == {"unlink", "clear", "wish", "link", "commit"}
<1>0. gslot \in Slots /\ phase' = phase /\ sslot' = sslot
  BY DEF TypeOK, Game, NewPlayer, BeginFrame, ReadSlot, Unlink, Clear, Wish, LinkFails, Link, Commit, ReadHands,
     drive_hand
<1>1. CASE NewPlayer
  <2>1. gpc = "engine" /\ gpc' = "engine" /\ cells' = {} /\ want_attached' = want_attached
    BY <1>1 DEF NewPlayer
  <2>2. LinkedTo(s)' = {}
    BY <2>1 DEF LinkedTo
  <2>3. QED
    BY <2>1, <2>2 DEF Withheld, At
<1>2. CASE BeginFrame \/ ReadHands
  <2>1. gpc' \in {"read", "drive"} /\ UNCHANGED <<cells, want_attached, node, model, player>>
    BY <1>2 DEF BeginFrame, ReadHands
  <2>2. LinkedTo(s)' = LinkedTo(s)
    BY <2>1 DEF LinkedTo
  <2>3. QED
    BY <1>0, <2>1, <2>2 DEF Withheld, At
<1>3. CASE ReadSlot
  <2>1. gpc' \in {"unlink", "wish"} /\ gslot' = gslot /\ seen'.want = want_attached[gslot]
        /\ UNCHANGED <<cells, want_attached, node, model, player>>
    BY <1>3 DEF ReadSlot
  <2>2. LinkedTo(s)' = LinkedTo(s)
    BY <2>1 DEF LinkedTo
  <2>3. QED
    BY <1>0, <2>1, <2>2 DEF Withheld, At
<1>4. CASE Unlink
  <2>1. /\ remove(model[gslot], seen.have_node, gslot) /\ gpc = "unlink" /\ gpc' = "clear"
        /\ UNCHANGED <<want_attached, node, model, gslot, seen>>
    BY <1>4 DEF Unlink
  <2>2. /\ player' = player
        /\ LinkedTo(s)' = LinkedTo(s) \/ LinkedTo(s)' = LinkedTo(s) \ {seen.have_node}
        /\ model[gslot] = player /\ s = gslot => LinkedTo(s)' = LinkedTo(s) \ {seen.have_node}
    BY <1>0, <2>1, Removal
  <2>3. seen.have_node = node[gslot]
    BY <2>1 DEF FrameInv
  <2>4. At(s, Places)' <=> At(s, Places)
    BY <2>1 DEF At
  <2>5. CASE s = gslot
    <3>1. LinkedTo(s)' = {}
      BY <2>2, <2>3, <2>5 DEF Withheld
    <3>2. QED
      BY <2>1, <2>4, <3>1 DEF Withheld
  <2>6. CASE s # gslot
    <3>1. ~At(s, {"clear"})' /\ ~At(s, {"clear"})
      BY <2>1, <2>6 DEF At
    <3>2. LinkedTo(s)' = {} \/ LinkedTo(s)' = LinkedTo(s)
      BY <2>2 DEF Withheld
    <3>3. QED
      BY <1>0, <2>1, <2>2, <2>4, <3>1, <3>2 DEF Withheld
  <2>7. QED
    BY <2>5, <2>6
<1>5. CASE Clear
  <2>1. /\ model' = [model EXCEPT ![gslot] = "none"] /\ gpc = "clear" /\ gpc' = "wish"
        /\ UNCHANGED <<cells, player, node, want_attached, gslot, seen>>
    BY <1>5 DEF Clear
  <2>2. LinkedTo(s)' = LinkedTo(s)
    BY <2>1 DEF LinkedTo
  <2>3. (At(s, Places)' <=> At(s, Places)) /\ ~At(s, {"clear"})' /\ (At(s, {"clear"}) <=> s = gslot)
    BY <2>1 DEF At
  <2>4. s # gslot => model'[s] = model[s]
    BY <2>1 DEF TypeOK
  <2>5. QED
    BY <1>0, <2>1, <2>2, <2>3, <2>4 DEF Withheld
<1>6. CASE Wish \/ LinkFails \/ Commit
  <2>1. gpc \in {"wish", "link", "commit"} /\ UNCHANGED <<cells, player, want_attached>>
    BY <1>6 DEF Wish, LinkFails, Commit
  <2>2. LinkedTo(s)' = LinkedTo(s)
    BY <2>1 DEF LinkedTo
  <2>3. s = gslot => Wish /\ ~seen.want
    BY <1>6, <2>1 DEF Withheld, At, FrameInv, LinkFails, Commit
  <2>4. s # gslot => model'[s] = model[s] /\ node'[s] = node[s]
    BY <1>6 DEF Wish, LinkFails, Commit, TypeOK
  <2>5. s = gslot => model'[s] = model[s] /\ node'[s] = node[s] /\ gpc' \in {"read", "vr"}
    BY <2>3 DEF Wish, NextSlot
  <2>6. gpc' \in {"read", "vr"} \/ (gpc' = "link" /\ gslot' = gslot)
    BY <1>6 DEF Wish, LinkFails, Commit, NextSlot
  <2>7. ~At(s, Places)' /\ ~At(s, {"clear"})'
    BY <2>5, <2>6 DEF At
  <2>8. QED
    BY <1>0, <2>1, <2>2, <2>4, <2>5, <2>7 DEF Withheld
<1>7. CASE Link
  <2>1. /\ gpc = "link" /\ gpc' = "commit" /\ add(seen.want_node, gslot)
        /\ UNCHANGED <<want_attached, node, model, gslot, seen>>
    BY <1>7 DEF Link
  <2>2. s # gslot
    BY <2>1 DEF Withheld, At, FrameInv
  <2>3. player' = player /\ LinkedTo(s)' = LinkedTo(s)
    BY <1>0, <2>1, <2>2, Addition
  <2>4. ~At(s, Places)' /\ ~At(s, {"clear"})'
    BY <2>1, <2>2 DEF At
  <2>5. QED
    BY <1>0, <2>1, <2>3, <2>4 DEF Withheld
<1>8. CASE drive_hand
  <2>1. PICK active \in SUBSET Hands :
          LET taken == IF driving /\ player # "none" THEN active \ hand_attached ELSE {} IN
            /\ want_attached' = [t \in Slots |-> t \in taken \/ want_attached[t]]
            /\ raced' = raced \cup (taken \cap Withdrawn)
    BY <1>8 DEF drive_hand
  <2>2. ~want_attached'[s]
    BY <2>1 DEF Withheld
  <2>3. gpc' = "engine" /\ UNCHANGED <<cells, node, model, player>>
    BY <1>8 DEF drive_hand
  <2>4. LinkedTo(s)' = LinkedTo(s)
    BY <2>3 DEF LinkedTo
  <2>5. ~At(s, Places)' /\ ~At(s, {"clear"})'
    BY <2>3 DEF At
  <2>6. QED
    BY <1>0, <2>2, <2>3, <2>4, <2>5 DEF Withheld
<1>9. QED
  BY <1>1, <1>2, <1>3, <1>4, <1>5, <1>6, <1>7, <1>8 DEF Game

\* The slot whose shutdown begins.
LEMMA GoneWithdraw ==
  ASSUME TypeOK, FrameInv, Withdraw, Agreed(sslot), NEW s \in Slots, s = sslot, s \notin raced'
  PROVE  Withheld(s)'
<1> USE DEF slots, engine, frame, vr, command
<1>1. /\ want_attached' = [want_attached EXCEPT ![sslot] = FALSE]
      /\ (phase' = "remove" /\ sslot' = sslot) \/ ~attached[sslot]
      /\ ~StillWanted /\ UNCHANGED <<cells, node, model, player, gpc, gslot, seen>>
  BY DEF Withdraw, WithdrawTo, NextShutdown
<1>2. ~want_attached'[s]
  BY <1>1 DEF TypeOK
<1>3. At(s, {"unlink", "clear", "wish", "link", "commit"})' => ~seen'.want
  BY <1>1 DEF StillWanted, At
<1>4. LinkedTo(s)' = LinkedTo(s) /\ (At(s, {"clear"})' <=> At(s, {"clear"}))
  BY <1>1 DEF LinkedTo, At
<1>5. ~At(s, {"commit"})
  BY <1>1 DEF StillWanted, At, FrameInv
<1>6. LinkedTo(s) = {} \/ (LinkedTo(s) = {node[s]} /\ model[s] = player /\ attached[s] /\ ~At(s, {"clear"}))
  BY <1>5 DEF Agreed
<1>7. QED
  BY <1>1, <1>2, <1>3, <1>4, <1>6 DEF Withheld

LEMMA GoneOther ==
  ASSUME TypeOK, TypeOK', PhaseInv, Command \/ Shutdown, NEW s \in Slots, s \in Withdrawn, Withheld(s)
  PROVE  Withheld(s)'
<1> USE DEF To, slots, engine, frame, vr, command, unload
<1>0. phase # "live" /\ request = NoRequest
  BY DEF Withdrawn, PhaseInv
<1>1. CASE Command
  BY <1>0, <1>1 DEF Command, attach_to_player_node, AttachWanted, detach, set_hands_enabled, MakeRequest
<1>2. CASE BeginShutdown
  BY <1>0, <1>2 DEF BeginShutdown
<1>3. CASE Withdraw
  <2>1. /\ want_attached' = [want_attached EXCEPT ![sslot] = FALSE] /\ phase = "withdraw"
        /\ UNCHANGED <<cells, gpc, gslot, seen>>
    BY <1>3 DEF Withdraw, WithdrawTo
  <2>2. ~want_attached'[s]
    BY <2>1 DEF TypeOK, Withheld
  <2>3. LinkedTo(s) = {}
    BY <2>1 DEF Withheld
  <2>4. LinkedTo(s)' = LinkedTo(s)
    BY <2>1 DEF LinkedTo
  <2>5. QED
    BY <2>1, <2>2, <2>3, <2>4 DEF Withheld, At
<1>4. CASE TakeOut
  <2> DEFINE n == node[sslot]
  <2>1. /\ remove(model[sslot], n, sslot) /\ phase = "remove" /\ sslot \in Slots
        /\ UNCHANGED <<want_attached, gpc, gslot, seen>>
    BY <1>4 DEF TakeOut, TypeOK
  <2>2. LinkedTo(s) = {} \/ (s = sslot /\ LinkedTo(s) = {n} /\ model[s] = player)
    BY DEF Withheld
  <2> HIDE DEF n
  <2>3. /\ LinkedTo(s)' = LinkedTo(s) \/ LinkedTo(s)' = LinkedTo(s) \ {n}
        /\ model[sslot] = player /\ s = sslot => LinkedTo(s)' = LinkedTo(s) \ {n}
    BY <2>1, Removal
  <2>4. LinkedTo(s)' = {}
    BY <2>2, <2>3
  <2>5. QED
    BY <2>1, <2>4 DEF Withheld, At
<1>5. CASE Forget \/ VRShutdown \/ RetireHooks \/ Unmap
  <2>1. phase # "remove" /\ UNCHANGED <<cells, gpc, gslot, seen>>
    BY <1>5 DEF Forget, VRShutdown, RetireHooks, Unmap
  <2>2. ~want_attached'[s]
    BY <1>5 DEF Forget, VRShutdown, RetireHooks, Unmap, HandsOff, Withheld, TypeOK
  <2>3. LinkedTo(s)' = LinkedTo(s) /\ LinkedTo(s) = {}
    BY <2>1 DEF LinkedTo, Withheld
  <2>4. QED
    BY <2>1, <2>2, <2>3 DEF Withheld, At
<1>6. QED
  BY <1>1, <1>2, <1>3, <1>4, <1>5 DEF Shutdown

LEMMA GoneStep ==
  ASSUME TypeOK, TypeOK', PhaseInv, FrameInv, AgreeInv, GoneInv, Next
  PROVE  GoneInv'
<1>1. SUFFICES ASSUME NEW s \in Withdrawn', s \notin raced'
               PROVE  Withheld(s)'
  BY DEF GoneInv
<1>2. s \in Slots /\ sslot \in Slots
  BY DEF Withdrawn, TypeOK
<1>3. raced \subseteq raced'
  BY DEF Next, Game, NewPlayer, BeginFrame, ReadSlot, Unlink, Clear, Wish, LinkFails, Link, Commit, ReadHands, drive_hand,
     Command, attach_to_player_node, AttachWanted, detach, set_hands_enabled, Shutdown, BeginShutdown, Withdraw,
     WithdrawTo, TakeOut, Forget, VRShutdown, RetireHooks, Unmap, unload, vr
<1>4. CASE s \in Withdrawn
  <2>1. Withheld(s) /\ s \notin raced
    BY <1>1, <1>3, <1>4 DEF GoneInv
  <2>2. QED
    BY <1>1, <1>2, <1>4, <2>1, GoneGame, GoneOther DEF Next
<1>5. CASE s \notin Withdrawn
  <2>1. Withdraw /\ s = sslot /\ sslot \notin Withdrawn
    BY <1>1, <1>5, WithdrawnStep DEF Next, Shutdown
  <2>2. Agreed(sslot)
    BY <1>2, <2>1 DEF AgreeInv
  <2>3. QED
    BY <1>1, <1>2, <2>1, <2>2, GoneWithdraw
<1>6. QED
  BY <1>4, <1>5

-----------------------------------------------------------------------------
(* The theorems *)

LEMMA InitInv ==
  ASSUME Init
  PROVE  IInv
<1> USE DEF Init
<1>1. TypeOK
  <2>1. want_attached \in [Slots -> BOOLEAN] /\ attached \in [Slots -> BOOLEAN]
        /\ node \in [Slots -> Nodes \cup {"none"}] /\ pending_node \in [Slots -> Nodes \cup {"none"}]
        /\ model \in [Slots -> Models]
    BY DEF Models
  <2>2. 0 \in 0..MaxPlayers /\ 0 \in 0..MaxRequests
    BY BonesAssumption
  <2>3. request \in [slot : Slots, node : Nodes \cup {"none"}] /\ seen.want \in BOOLEAN /\ seen.have \in BOOLEAN
    BY SlotZero DEF NoRequest, Unseen
  <2>4. QED
    BY <2>1, <2>2, <2>3, SlotZero DEF TypeOK
<1>2. PhaseInv /\ WishInv /\ FrameInv
  BY DEF PhaseInv, WishInv, FrameInv, Unseen
<1>3. AgreeInv
  BY DEF AgreeInv, Agreed, LinkedTo, At
<1>4. GoneInv
  BY DEF GoneInv, Withdrawn
<1>5. QED
  BY <1>1, <1>2, <1>3, <1>4 DEF IInv

LEMMA NextInv ==
  ASSUME IInv, [Next]_vars
  PROVE  IInv'
<1> USE DEF IInv
<1>1. CASE Next
  <2>1. TypeOK'
    BY <1>1, GameTypes, OtherTypes DEF Next
  <2>2. QED
    BY <1>1, <2>1, PhaseStep, WishStep, FrameStep, AgreeStep, GoneStep
<1>2. CASE UNCHANGED vars
  <2> USE <1>2 DEF vars, slots, engine, frame, vr, command, unload
  <2>1. TypeOK'
    BY DEF TypeOK
  <2>2. PhaseInv' /\ WishInv'
    BY DEF PhaseInv, WishInv
  <2>3. Withdrawn' = Withdrawn
    BY DEF Withdrawn
  <2>4. FrameInv'
    BY <2>3 DEF FrameInv
  <2>5. AgreeInv'
    BY <2>3 DEF AgreeInv, Agreed, LinkedTo, At
  <2>6. GoneInv'
    BY <2>3 DEF GoneInv, Withheld, LinkedTo, At
  <2>7. QED
    BY <2>1, <2>2, <2>4, <2>5, <2>6
<1>3. QED
  BY <1>1, <1>2

\* The inductive invariant: what on_frame has read, the slots that agree with the engine's
\* list, and those that are withheld from it.
THEOREM Invariance == Spec => []IInv
  BY InitInv, NextInv, PTL DEF Spec

\* Every variable has its type: the engine's list holds cells of the slots, at nodes.
THEOREM TypeCorrect == Spec => []TypeOK
<1>1. IInv => TypeOK
  BY DEF IInv
<1>2. QED
  BY <1>1, Invariance, PTL

\* While the mod lives no cell is left that no slot knows, and none is missing that a slot
\* believes in, however requests, players and slots on one node meet.
THEOREM Agree == Spec => []ListAgrees
<1>1. ASSUME IInv
      PROVE  ListAgrees
  <2>1. SUFFICES ASSUME phase = "live", NEW s \in Slots, ~Busy(s)
                 PROVE  LinkedTo(s) = IF attached[s] /\ s \notin lost THEN {node[s]} ELSE {}
    BY DEF ListAgrees
  <2>2. Agreed(s)
    BY <1>1, <2>1 DEF IInv, AgreeInv, Withdrawn
  <2>3. ~At(s, {"clear"}) /\ ~At(s, {"commit"})
    BY <2>1 DEF Busy, At
  <2>4. QED
    BY <2>2, <2>3 DEF Agreed
<1>2. QED
  BY <1>1, Invariance, PTL

\* At the unmapping the engine holds a callback only for a slot that was wanted again, or
\* still, past its withdrawal.
THEOREM GoneInTime == Spec => []GoneBeforeTheImage
<1>1. ASSUME IInv
      PROVE  GoneBeforeTheImage
  <2>1. SUFFICES ASSUME phase = "unmapped", NEW c \in cells, c.slot \notin raced
                 PROVE  FALSE
    BY DEF GoneBeforeTheImage
  <2>2. c.slot \in Slots
    BY <1>1 DEF IInv, TypeOK
  <2>3. sslot \in Slots /\ sslot + 1 \notin Slots
    BY <1>1, <2>1 DEF IInv, TypeOK, PhaseInv
  <2>4. c.slot <= sslot
    BY <2>2, <2>3, SlotZero DEF Slots
  <2>5. c.slot \in Withdrawn
    <3>0. c.slot \in Nat /\ sslot \in Nat
      BY <2>2, <2>3, SlotZero
    <3>1. c.slot < sslot \/ c.slot = sslot
      BY <2>4, <3>0
    <3>2. QED
      BY <2>1, <2>2, <3>1 DEF Withdrawn
  <2>6. LinkedTo(c.slot) = {}
    BY <1>1, <2>1, <2>5 DEF IInv, GoneInv, Withheld
  <2>7. QED
    BY <2>6 DEF LinkedTo
<1>2. QED
  BY <1>1, Invariance, PTL

LEMMA LeastOf ==
  ASSUME NEW S \in SUBSET Nat, S # {}
  PROVE  \E x \in S : \A y \in S : x <= y
<1>1. IsWellFoundedOn(OpToRel(<, Nat), Nat)
  BY NatLessThanWellFounded
<1> DEFINE R == OpToRel(<, Nat)
<1>2. \A x, y \in Nat : <<y, x>> \in R <=> y < x
  BY DEF OpToRel
<1> HIDE DEF R
<1>3. PICK x \in S : \A y \in S : ~ (<<y, x>> \in R)
  BY <1>1, WFMin DEF R
<1>4. \A y \in S : y \in Nat
  OBVIOUS
<1>5. ASSUME NEW y \in S PROVE x <= y
  <2>1. x \in Nat /\ y \in Nat
    BY <1>4
  <2>2. <<y, x>> \in R <=> y < x
    BY <1>2, <2>1
  <2>3. ~(y < x)
    BY <1>3, <2>2
  <2> QED
    BY <2>1, <2>3
<1> QED
  BY <1>5

-----------------------------------------------------------------------------
(* Game input: the inductive invariant *)

\* Where each thread and the poll are says what they are at work on.
PlaceInv ==
  /\ \A t \in Threads :
       /\ pc[t] \in {"ready", "swap", "mouse", "gone"} => call[t].code = 0
       /\ pc[t] \in {"find", "claim", "held", "frames", "up", "free"} => call[t].code # 0 /\ call[t].op # "none"
       /\ pc[t] \in {"find", "claim", "free"} => call[t].op # "release"
       /\ pc[t] = "claim" => call[t].op # "up"
       /\ pc[t] = "free" => call[t].op = "up"
       /\ pc[t] = "swap" => call[t].op = "release"
       /\ call[t].op = "tap" => call[t].frames > 0
  /\ ppc \in {"idle", "load", "shift"} <=> poll.vk = 0
  /\ ppc \in {"press", "left"} => poll.left > 0

Vacant(c) == \A s \in Index : vk[s] # c
One(c) == \A r, s \in Index : vk[r] = c /\ vk[s] = c => r = s

\* A code that nobody interferes with has one thread at work on it, or the poll.
Alone(c) ==
  /\ \A t, u \in Threads : call[t].code = c /\ call[u].code = c => t = u
  /\ poll.vk = c => \A t \in Threads : call[t].code # c

\* What the thread at work on a code has achieved so far.
CallInv(t, c) ==
  call[t].code = c =>
    IF call[t].op = "release"
    THEN Vacant(c)
    ELSE /\ pc[t] = "claim" => Vacant(c)
         /\ pc[t] \in {"held", "frames", "up", "free"} => vk[call[t].slot] = c
         /\ pc[t] = "frames" => held[call[t].slot] = (call[t].op = "down")
         /\ pc[t] = "free" => ~incoming[c]

\* What the poll has, that is at a code's slot.
PollInv(c) ==
  poll.vk = c =>
    /\ vk[poll.slot] = c
    /\ ppc # "held" => held[poll.slot] = (ppc = "assert")
    /\ ppc = "left" => incoming[c]
    /\ ppc \in {"release", "free"} => pressed[c]
    /\ ppc = "free" => ~incoming[c]

\* The poll under way has been at this slot.
Past(s) == ppc = "shift" \/ (ppc # "idle" /\ poll.slot > s)

\* A tap has been seen, or will be: frames are left, or the device has it and the engine's poll is still to come.
Seen(c, s) == pressed[c] \/ frames[s] > 0 \/ (incoming[c] /\ Past(s))

\* What the last call asked for.
Rests(c) ==
  /\ asked[c] = "down" => \E s \in Index : vk[s] = c /\ held[s]
  /\ asked[c] = "up" => Vacant(c) /\ ~incoming[c]
  /\ asked[c] \in {"nothing", "dropped"} => Vacant(c) /\ ~incoming[c]
  /\ asked[c] = "narrowed" => Vacant(c) /\ c \in Mouse
  /\ asked[c] = "tap" =>
       /\ \A s \in Index : vk[s] = c => ~held[s] /\ Seen(c, s)
       /\ Vacant(c) => pressed[c] /\ ~incoming[c]

\* A call has it its way from its end until the next one has found a slot: it may be turned away yet.
RestInv(c) ==
  (\A t \in Threads : call[t].code = c => pc[t] \in {"find", "claim"} /\ ~before[c]) => Rests(c)

CodeInv(c) ==
  ~mixed[c] =>
    /\ Alone(c) /\ One(c)
    /\ \A t \in Threads : CallInv(t, c)
    /\ PollInv(c)
    /\ RestInv(c)

InputInv == InputTypeOK /\ PlaceInv /\ \A c \in Codes : CodeInv(c)

AllCodes == \A c \in Codes : CodeInv(c)

-----------------------------------------------------------------------------
(* Game input: constants, types and the first slot of a code *)

LEMMA InputConstants ==
  /\ kMaxKeys \in Nat /\ kMaxKeys > 0 /\ MaxFrames \in Nat /\ MaxFrames > 0 /\ MaxCalls \in Nat
  /\ 0 \in Index /\ Index \subseteq Nat /\ 0 \notin Codes /\ Codes \subseteq Nat
  /\ \A c \in Codes : c \in Inputs /\ Narrow(c) \in Inputs
  BY SyntheticInputAssumption DEF Index, Inputs

Places == {"ready", "find", "claim", "held", "frames", "up", "free", "swap", "mouse", "gone"}
Steps == {"idle", "load", "held", "assert", "count", "press", "left", "release", "free", "shift"}
CallType == [op : {"none", "tap", "down", "up", "release"}, code : Codes \cup {0}, frames : 0 .. MaxFrames, slot : Index]
PollType == [slot : Index, vk : Codes \cup {0}, left : 0 .. MaxFrames]

\* The parts of the type, as a step has to establish them.
TableOK == vk \in [Index -> Codes \cup {0}] /\ frames \in [Index -> 0 .. MaxFrames] /\ held \in [Index -> BOOLEAN]
DeviceOK == incoming \in [Inputs -> BOOLEAN] /\ current \in [Inputs -> BOOLEAN]
ThreadsOK == pc \in [Threads -> Places] /\ call \in [Threads -> CallType] /\ calls \in 0 .. MaxCalls
DetourOK == ppc \in Steps /\ poll \in PollType
HistoryOK == /\ asked \in [Codes -> {"nothing", "tap", "down", "up", "dropped", "narrowed"}]
             /\ pressed \in [Codes -> BOOLEAN] /\ mixed \in [Codes -> BOOLEAN] /\ before \in [Codes -> BOOLEAN]

LEMMA InputTypeParts == InputTypeOK <=> TableOK /\ DeviceOK /\ ThreadsOK /\ DetourOK /\ HistoryOK
<1>1. DeviceOK <=> {incoming, current} \subseteq [Inputs -> BOOLEAN]
  BY DEF DeviceOK
<1>2. HistoryOK <=> /\ asked \in [Codes -> {"nothing", "tap", "down", "up", "dropped", "narrowed"}]
                    /\ {pressed, mixed, before} \subseteq [Codes -> BOOLEAN]
  BY DEF HistoryOK
<1> QED
  BY <1>1, <1>2 DEF InputTypeOK, TableOK, ThreadsOK, DetourOK, Places, Steps, CallType, PollType

LEMMA CallFields ==
  ASSUME ThreadsOK, NEW t \in Threads
  PROVE  /\ call[t] \in CallType /\ pc[t] \in Places
         /\ call[t].op \in {"none", "tap", "down", "up", "release"}
         /\ call[t].code \in Codes \cup {0} /\ call[t].frames \in 0 .. MaxFrames
         /\ call[t].slot \in Index
<1>1. call[t] \in CallType /\ pc[t] \in Places
  BY DEF ThreadsOK
<1> QED
  BY <1>1 DEF CallType

LEMMA PollFields ==
  ASSUME DetourOK
  PROVE  poll.slot \in Index /\ poll.vk \in Codes \cup {0} /\ poll.left \in 0 .. MaxFrames
  BY DEF DetourOK, PollType

LEMMA FirstOf ==
  ASSUME NEW c, SlotsOf(c) # {}
  PROVE  First(c) \in SlotsOf(c) /\ First(c) \in Index /\ vk[First(c)] = c
<1>1. SlotsOf(c) \in SUBSET Nat
  BY InputConstants DEF SlotsOf
<1>2. \E s \in SlotsOf(c) : \A r \in SlotsOf(c) : s <= r
  BY <1>1, LeastOf
<1>3. First(c) \in SlotsOf(c)
  BY <1>2 DEF First
<1> QED
  BY <1>3 DEF SlotsOf

\* One slot at most is a set of slots no larger than one.
LEMMA AtMostOne ==
  ASSUME NEW c
  PROVE  One(c) <=> ~(Cardinality(SlotsOf(c)) > 1)
<1>1. IsFiniteSet(Index)
  BY InputConstants, FS_Interval DEF Index
<1>2. IsFiniteSet(SlotsOf(c))
  BY <1>1, FS_Subset DEF SlotsOf
<1>3. Cardinality(SlotsOf(c)) \in Nat
  BY <1>2, FS_CardinalityType
<1>4. ASSUME One(c) PROVE Cardinality(SlotsOf(c)) <= 1
  <2>1. CASE SlotsOf(c) = {}
    BY <2>1, FS_EmptySet
  <2>2. CASE SlotsOf(c) # {}
    <3>1. PICK s \in SlotsOf(c) : TRUE
      BY <2>2
    <3>2. SlotsOf(c) = {s}
      BY <1>4, <3>1 DEF One, SlotsOf
    <3> QED
      BY <3>2, FS_Singleton
  <2> QED
    BY <2>1, <2>2
<1>5. ASSUME Cardinality(SlotsOf(c)) <= 1, NEW r \in Index, NEW s \in Index, vk[r] = c, vk[s] = c PROVE r = s
  <2>1. r \in SlotsOf(c) /\ s \in SlotsOf(c)
    BY <1>5 DEF SlotsOf
  <2>2. Cardinality(SlotsOf(c)) # 0
    BY <1>2, <2>1, FS_EmptySet
  <2>3. Cardinality(SlotsOf(c)) = 1
    BY <1>3, <1>5, <2>2
  <2>4. PICK x : SlotsOf(c) = {x}
    BY <1>2, <2>3, FS_Singleton
  <2> QED
    BY <2>1, <2>4
<1>6. One(c) <=> Cardinality(SlotsOf(c)) <= 1
  BY <1>4, <1>5 DEF One
<1> QED
  BY <1>3, <1>6

LEMMA InputTypeInit == InputInit => InputTypeOK
<1> SUFFICES ASSUME InputInit PROVE TableOK /\ DeviceOK /\ ThreadsOK /\ DetourOK /\ HistoryOK
  BY InputTypeParts
<1> USE InputConstants
<1>1. TableOK
  BY DEF InputInit, TableOK
<1>2. DeviceOK
  BY DEF InputInit, DeviceOK
<1>3. NoCall \in CallType /\ NoPoll \in PollType
  BY DEF NoCall, NoPoll, CallType, PollType
<1>4. ThreadsOK
  BY <1>3 DEF InputInit, ThreadsOK, Places
<1>5. DetourOK
  BY <1>3 DEF InputInit, DetourOK, Steps
<1>6. HistoryOK
  BY DEF InputInit, HistoryOK
<1> QED
  BY <1>1, <1>2, <1>4, <1>5, <1>6

\* Going on within a call, and leaving it, keep the threads' types.
LEMMA GoToTypes ==
  ASSUME ThreadsOK, NEW t \in Threads, NEW next \in Places, NEW s \in Index, GoTo(t, next, s)
  PROVE  ThreadsOK' /\ UNCHANGED asked
<1>1. /\ pc' = [pc EXCEPT ![t] = next] /\ call' = [call EXCEPT ![t].slot = s] /\ calls' = calls /\ asked' = asked
  BY DEF GoTo
<1>2. call' \in [Threads -> CallType]
  BY <1>1 DEF ThreadsOK, CallType
<1>3. pc' \in [Threads -> Places]
  BY <1>1 DEF ThreadsOK
<1> QED
  BY <1>1, <1>2, <1>3 DEF ThreadsOK

LEMMA LeaveTypes ==
  ASSUME ThreadsOK, HistoryOK, NEW t \in Threads,
         NEW what \in {"nothing", "tap", "down", "up", "dropped", "narrowed"}, Leave(t, what)
  PROVE  ThreadsOK' /\ asked' \in [Codes -> {"nothing", "tap", "down", "up", "dropped", "narrowed"}]
<1> DEFINE op == IF t = "unload" THEN "up" ELSE "none"
           left == [NoCall EXCEPT !.op = op]
<1>1. /\ pc' = [pc EXCEPT ![t] = "ready"] /\ call' = [call EXCEPT ![t] = left] /\ calls' = calls
      /\ asked' = [asked EXCEPT ![call[t].code] = what]
  BY DEF Leave
<1>2. left \in CallType
  BY InputConstants DEF NoCall, CallType
<1> HIDE DEF left
<1>3. pc' \in [Threads -> Places]
  BY <1>1 DEF ThreadsOK, Places
<1>4. call' \in [Threads -> CallType]
  BY <1>1, <1>2 DEF ThreadsOK
<1>5. asked' \in [Codes -> {"nothing", "tap", "down", "up", "dropped", "narrowed"}]
  BY <1>1 DEF HistoryOK
<1> QED
  BY <1>1, <1>3, <1>4, <1>5 DEF ThreadsOK

LEMMA NextSwapTypes ==
  ASSUME ThreadsOK, NEW t \in Threads, NEW s \in Index, NextSwap(t, s)
  PROVE  ThreadsOK'
<1> DEFINE on == [NoCall EXCEPT !.op = "release", !.slot = s + 1]
           out == [NoCall EXCEPT !.op = IF t = "command" THEN "release" ELSE "up"]
           entry == IF s + 1 < kMaxKeys THEN on ELSE out
           next == CASE s + 1 < kMaxKeys -> "swap"
                     [] s + 1 = kMaxKeys -> IF t = "command" THEN "mouse" ELSE "ready"
<1>1. s \in Nat /\ s < kMaxKeys
  BY InputConstants DEF Index
<1>2. call' = [call EXCEPT ![t] = entry] /\ pc' = [pc EXCEPT ![t] = next] /\ calls' = calls
  BY DEF NextSwap
<1>3. ASSUME s + 1 < kMaxKeys PROVE on \in CallType
  <2>2. s + 1 \in Index
    BY <1>1, <1>3, InputConstants DEF Index
  <2>1. on \in [op : {"release"}, code : {0}, frames : {0}, slot : Index]
    BY <2>2 DEF NoCall
  <2> HIDE DEF on
  <2> QED
    BY <2>1, <2>2, InputConstants DEF CallType
<1>4. out \in CallType
  BY InputConstants DEF NoCall, CallType
<1>5. entry \in CallType
  <2> HIDE DEF on, out
  <2> QED
    BY <1>3, <1>4
<1>6. next \in Places
  <2>1. CASE s + 1 < kMaxKeys
    BY <1>1, <2>1, InputConstants DEF Places
  <2>2. CASE s + 1 = kMaxKeys
    BY <1>1, <2>2, InputConstants DEF Places
  <2> QED
    BY <1>1, <2>1, <2>2, InputConstants
<1> HIDE DEF entry, next
<1> QED
  BY <1>2, <1>5, <1>6 DEF ThreadsOK

LEMMA NextPollTypes ==
  ASSUME DetourOK, NextPoll
  PROVE  DetourOK'
<1>1. poll.slot \in Nat /\ poll.slot < kMaxKeys
  BY PollFields, InputConstants DEF Index
<1>2. NoPoll \in PollType
  BY InputConstants DEF NoPoll, PollType
<1>3. CASE Last(poll.slot)
  <2>1. ppc' = "shift" /\ poll' = NoPoll
    BY <1>3 DEF NextPoll
  <2> QED
    BY <1>2, <2>1 DEF DetourOK, Steps
<1>4. CASE ~Last(poll.slot)
  <2>1. ppc' = "load" /\ poll' = [NoPoll EXCEPT !.slot = poll.slot + 1]
    BY <1>4 DEF NextPoll
  <2>2. poll.slot + 1 \in Index
    BY <1>1, <1>4, InputConstants DEF Last, Index
  <2>3. poll' \in PollType
    BY <2>1, <2>2, InputConstants DEF NoPoll, PollType
  <2> QED
    BY <2>1, <2>3 DEF DetourOK, Steps
<1> QED
  BY <1>3, <1>4

LEMMA MixTypes ==
  ASSUME HistoryOK, NEW cs, Mix(cs)
  PROVE  /\ mixed' \in [Codes -> BOOLEAN]
         /\ \A c \in Codes : mixed'[c] = (mixed[c] \/ c \in cs)
  BY DEF HistoryOK, Mix

LEMMA SendTypes ==
  ASSUME DeviceOK, NEW i \in Inputs, NEW down \in BOOLEAN, Send(i, down)
  PROVE  /\ incoming' \in [Inputs -> BOOLEAN]
         /\ incoming'[i] = down
         /\ \A j \in Inputs : j # i => incoming'[j] = incoming[j]
  BY DEF DeviceOK, Send

-----------------------------------------------------------------------------
(* Game input: what the common parts of the steps do *)

\* The other threads stay where they are.
Others(t) == \A u \in Threads : u # t => call'[u] = call[u] /\ pc'[u] = pc[u]

LEMMA GoToEffect ==
  ASSUME ThreadsOK, NEW t \in Threads, NEW next, NEW s \in Index, GoTo(t, next, s)
  PROVE  /\ Others(t) /\ pc'[t] = next /\ call'[t].slot = s
         /\ call'[t].op = call[t].op /\ call'[t].code = call[t].code /\ call'[t].frames = call[t].frames
<1>1. pc' = [pc EXCEPT ![t] = next] /\ call' = [call EXCEPT ![t].slot = s]
  BY DEF GoTo
<1>2. Others(t) /\ pc'[t] = next
  BY <1>1 DEF ThreadsOK, Others
<1>3. call'[t] = [call[t] EXCEPT !.slot = s]
  BY <1>1 DEF ThreadsOK
<1>4. call[t] \in CallType
  BY CallFields
<1> QED
  BY <1>2, <1>3, <1>4 DEF CallType

LEMMA LeaveEffect ==
  ASSUME ThreadsOK, HistoryOK, NEW t \in Threads, NEW what, Leave(t, what)
  PROVE  /\ Others(t) /\ pc'[t] = "ready"
         /\ call'[t].code = 0 /\ call'[t].op \in {"none", "up"} /\ call'[t].frames = 0
         /\ \A c \in Codes : asked'[c] = IF c = call[t].code THEN what ELSE asked[c]
<1> DEFINE op == IF t = "unload" THEN "up" ELSE "none"
           left == [NoCall EXCEPT !.op = op]
<1>1. /\ pc' = [pc EXCEPT ![t] = "ready"] /\ call' = [call EXCEPT ![t] = left]
      /\ asked' = [asked EXCEPT ![call[t].code] = what]
  BY DEF Leave
<1>2. left.code = 0 /\ left.op \in {"none", "up"} /\ left.frames = 0
  BY DEF NoCall
<1> HIDE DEF left
<1>3. Others(t) /\ pc'[t] = "ready" /\ call'[t] = left
  BY <1>1 DEF ThreadsOK, Others
<1>4. \A c \in Codes : asked'[c] = IF c = call[t].code THEN what ELSE asked[c]
  BY <1>1 DEF HistoryOK
<1> QED
  BY <1>2, <1>3, <1>4

\* A call that is turned away leaves its code as it was; what was mixed before it is mixed again.
LEMMA TurnedAwayEffect ==
  ASSUME ThreadsOK, HistoryOK, NEW t \in Threads, TurnedAway(t), call[t].code # 0
  PROVE  /\ Leave(t, asked[call[t].code]) /\ ThreadsOK' /\ asked' = asked
         /\ mixed' \in [Codes -> BOOLEAN]
         /\ \A c \in Codes : mixed'[c] = (mixed[c] \/ (c = call[t].code /\ before[c]))
<1> DEFINE d == call[t].code
<1>1. Leave(t, asked[d]) /\ Mix({k \in {d} : before[k]})
  BY DEF TurnedAway
<1>2. d \in Codes
  BY CallFields
<1>3. asked[d] \in {"nothing", "tap", "down", "up", "dropped", "narrowed"}
  BY <1>2 DEF HistoryOK
<1>4. ThreadsOK'
  BY <1>1, <1>3, LeaveTypes
<1>5. asked' = asked
  BY <1>1, <1>2 DEF Leave, HistoryOK
<1>6. /\ mixed' \in [Codes -> BOOLEAN]
      /\ \A c \in Codes : mixed'[c] = (mixed[c] \/ c \in {k \in {d} : before[k]})
  BY <1>1, MixTypes
<1>7. \A c \in Codes : c \in {k \in {d} : before[k]} <=> c = d /\ before[c]
  OBVIOUS
<1> QED
  BY <1>1, <1>4, <1>5, <1>6, <1>7

LEMMA NextSwapEffect ==
  ASSUME ThreadsOK, NEW t \in Threads, NEW s \in Index, NextSwap(t, s)
  PROVE  /\ Others(t) /\ pc'[t] \in {"swap", "mouse", "ready"}
         /\ call'[t].code = 0 /\ call'[t].op \in {"release", "up"} /\ call'[t].frames = 0
         /\ pc'[t] = "swap" => call'[t].op = "release"
<1> DEFINE on == [NoCall EXCEPT !.op = "release", !.slot = s + 1]
           out == [NoCall EXCEPT !.op = IF t = "command" THEN "release" ELSE "up"]
           entry == IF s + 1 < kMaxKeys THEN on ELSE out
           next == CASE s + 1 < kMaxKeys -> "swap"
                     [] s + 1 = kMaxKeys -> IF t = "command" THEN "mouse" ELSE "ready"
<1>1. s \in Nat /\ s < kMaxKeys
  BY InputConstants DEF Index
<1>2. call' = [call EXCEPT ![t] = entry] /\ pc' = [pc EXCEPT ![t] = next]
  BY DEF NextSwap
<1>3. /\ on.code = 0 /\ on.op = "release" /\ on.frames = 0
      /\ out.code = 0 /\ out.op \in {"release", "up"} /\ out.frames = 0
  BY DEF NoCall
<1>4. /\ entry.code = 0 /\ entry.op \in {"release", "up"} /\ entry.frames = 0
      /\ s + 1 < kMaxKeys => entry.op = "release"
  <2> HIDE DEF on, out
  <2> QED
    BY <1>3
<1>5. next \in {"swap", "mouse", "ready"} /\ (next = "swap" => s + 1 < kMaxKeys)
  <2>1. CASE s + 1 < kMaxKeys
    BY <1>1, <2>1, InputConstants
  <2>2. CASE s + 1 = kMaxKeys
    BY <1>1, <2>2, InputConstants
  <2> QED
    BY <1>1, <2>1, <2>2, InputConstants
<1> HIDE DEF entry, next
<1>6. Others(t) /\ pc'[t] = next /\ call'[t] = entry
  BY <1>2 DEF ThreadsOK, Others
<1> QED
  BY <1>4, <1>5, <1>6

LEMMA NextPollEffect ==
  ASSUME DetourOK, ppc \notin {"idle", "shift"}, NextPoll
  PROVE  /\ poll'.vk = 0 /\ ppc' \in {"load", "shift"}
         /\ \A s \in Index : Past(s) \/ s = poll.slot => Past(s)'
<1>1. poll.slot \in Nat
  BY PollFields, InputConstants
<1>2. CASE Last(poll.slot)
  BY <1>2 DEF NextPoll, NoPoll, Past
<1>3. CASE ~Last(poll.slot)
  <2>1. ppc' = "load" /\ poll' = [NoPoll EXCEPT !.slot = poll.slot + 1]
    BY <1>3 DEF NextPoll
  <2>2. poll'.vk = 0 /\ poll'.slot = poll.slot + 1
    BY <2>1 DEF NoPoll
  <2>3. Index \subseteq Nat
    BY InputConstants
  <2>4. \A s \in Index : Past(s) \/ s = poll.slot => Past(s)'
    BY <1>1, <2>1, <2>2, <2>3 DEF Past
  <2> QED
    BY <2>1, <2>2, <2>4
<1> QED
  BY <1>2, <1>3

-----------------------------------------------------------------------------
(* Game input: types *)

LEMMA InputTypeStep ==
  ASSUME InputInv, [InputNext]_input_vars
  PROVE  InputTypeOK'
<1> SUFFICES TableOK' /\ DeviceOK' /\ ThreadsOK' /\ DetourOK' /\ HistoryOK'
  BY InputTypeParts, PTL
<1>1. TableOK /\ DeviceOK /\ ThreadsOK /\ DetourOK /\ HistoryOK /\ PlaceInv
  BY InputTypeParts DEF InputInv
<1> USE <1>1
<1>2. UNCHANGED table => TableOK'
  BY DEF table, TableOK
<1>3. UNCHANGED device => DeviceOK'
  BY DEF device, DeviceOK
<1>4. UNCHANGED threads => ThreadsOK'
  BY DEF threads, ThreadsOK
<1>5. UNCHANGED detour => DetourOK'
  BY DEF detour, DetourOK
<1>6. UNCHANGED history => HistoryOK'
  BY DEF history, HistoryOK
<1>7. ASSUME NEW t \in Threads, NEW c \in Codes, NEW entry \in CallType, calls < MaxCalls, Enter(t, c, entry)
      PROVE  TableOK' /\ DeviceOK' /\ ThreadsOK' /\ DetourOK' /\ HistoryOK'
  <2>1. pc' = [pc EXCEPT ![t] = "find"] /\ call' = [call EXCEPT ![t] = entry] /\ calls' = calls + 1
    BY <1>7 DEF Enter
  <2>2. pc' \in [Threads -> Places] /\ call' \in [Threads -> CallType] /\ calls' \in 0 .. MaxCalls
    <3>1. pc' \in [Threads -> Places]
      BY <2>1 DEF ThreadsOK, Places
    <3>2. call' \in [Threads -> CallType]
      BY <2>1 DEF ThreadsOK
    <3>3. calls' \in 0 .. MaxCalls
      BY <1>7, <2>1, InputConstants DEF ThreadsOK
    <3> QED
      BY <3>1, <3>2, <3>3
  <2>3. mixed' \in [Codes -> BOOLEAN]
    BY <1>7 DEF Enter, HistoryOK
  <2>5. before' \in [Codes -> BOOLEAN]
    BY <1>7 DEF Enter, HistoryOK
  <2>4. HistoryOK'
    BY <1>7, <2>3, <2>5 DEF Enter, HistoryOK
  <2> QED
    BY <1>2, <1>3, <1>5, <1>7, <2>2, <2>4 DEF Enter, ThreadsOK
<1>8. ASSUME NEW t \in Threads, tap(t) PROVE TableOK' /\ DeviceOK' /\ ThreadsOK' /\ DetourOK' /\ HistoryOK'
  <2>1. PICK c \in Codes, n \in 0 .. MaxFrames :
          Enter(t, c, [op |-> "tap", code |-> c, frames |-> AtLeastOne(n), slot |-> 0])
    BY <1>8 DEF tap
  <2>2. AtLeastOne(n) \in 0 .. MaxFrames
    BY InputConstants DEF AtLeastOne
  <2>3. [op |-> "tap", code |-> c, frames |-> AtLeastOne(n), slot |-> 0] \in CallType
    BY <2>2, InputConstants DEF CallType
  <2>4. calls < MaxCalls
    BY <1>8 DEF tap, MayCall
  <2> QED
    BY <1>7, <2>1, <2>3, <2>4
<1>9. ASSUME NEW t \in Threads, hold(t) PROVE TableOK' /\ DeviceOK' /\ ThreadsOK' /\ DetourOK' /\ HistoryOK'
  <2>1. PICK c \in Codes, down \in BOOLEAN :
          Enter(t, c, [op |-> IF down THEN "down" ELSE "up", code |-> c, frames |-> 0, slot |-> 0])
    BY <1>9 DEF hold
  <2>2. [op |-> IF down THEN "down" ELSE "up", code |-> c, frames |-> 0, slot |-> 0] \in CallType
    BY InputConstants DEF CallType
  <2>3. calls < MaxCalls
    BY <1>9 DEF hold, MayCall
  <2> QED
    BY <1>7, <2>1, <2>2, <2>3
<1>10. ASSUME NEW t \in Threads, find_slot(t) PROVE TableOK' /\ DeviceOK' /\ ThreadsOK' /\ DetourOK' /\ HistoryOK'
  <2> DEFINE c == call[t].code
  <2>1. UNCHANGED <<table, device, detour, pressed, before>>
    BY <1>10 DEF find_slot
  <2>2. CASE SlotsOf(c) # {}
    <3>1. GoTo(t, "held", First(c)) /\ mixed' = mixed
      BY <1>10, <2>2 DEF find_slot
    <3>2. First(c) \in Index /\ "held" \in Places
      BY <2>2, FirstOf DEF Places
    <3> QED
      BY <2>1, <3>1, <3>2, GoToTypes, <1>2, <1>3, <1>5 DEF HistoryOK
  <2>3. CASE SlotsOf(c) = {} /\ call[t].op # "up"
    <3>1. GoTo(t, "claim", 0) /\ mixed' = mixed
      BY <1>10, <2>3 DEF find_slot
    <3>2. 0 \in Index /\ "claim" \in Places
      BY InputConstants DEF Places
    <3> QED
      BY <2>1, <3>1, <3>2, GoToTypes, <1>2, <1>3, <1>5 DEF HistoryOK
  <2>4. CASE SlotsOf(c) = {} /\ call[t].op = "up"
    <3>1. TurnedAway(t) /\ call[t].code # 0
      BY <1>10, <2>4 DEF find_slot, PlaceInv
    <3>2. ThreadsOK' /\ asked' = asked /\ mixed' \in [Codes -> BOOLEAN]
      BY <3>1, TurnedAwayEffect
    <3> QED
      BY <2>1, <3>2, <1>2, <1>3, <1>5 DEF HistoryOK
  <2> QED
    BY <2>2, <2>3, <2>4
<1>11. ASSUME NEW t \in Threads, claim_slot(t) PROVE TableOK' /\ DeviceOK' /\ ThreadsOK' /\ DetourOK' /\ HistoryOK'
  <2>1. UNCHANGED <<frames, held, device, detour, pressed, before>>
    BY <1>11 DEF claim_slot
  <2>2. CASE SlotsOf(0) # {}
    <3>1. vk' = [vk EXCEPT ![First(0)] = call[t].code] /\ GoTo(t, "held", First(0)) /\ mixed' = mixed
      BY <1>11, <2>2 DEF claim_slot
    <3>2. First(0) \in Index /\ "held" \in Places /\ call[t].code \in Codes \cup {0}
      BY <2>2, FirstOf, CallFields DEF Places
    <3>3. TableOK'
      BY <2>1, <3>1, <3>2 DEF TableOK
    <3> QED
      BY <2>1, <3>1, <3>2, <3>3, GoToTypes, <1>3, <1>5 DEF HistoryOK
  <2>3. CASE ~(SlotsOf(0) # {})
    <3>1. vk' = vk /\ TurnedAway(t) /\ call[t].code # 0
      BY <1>11, <2>3 DEF claim_slot, PlaceInv
    <3>2. ThreadsOK' /\ asked' = asked /\ mixed' \in [Codes -> BOOLEAN]
      BY <3>1, TurnedAwayEffect
    <3> QED
      BY <2>1, <3>1, <3>2, <1>3, <1>5 DEF HistoryOK, TableOK
  <2> QED
    BY <2>2, <2>3
<1>12. ASSUME NEW t \in Threads, StoreHeld(t) PROVE TableOK' /\ DeviceOK' /\ ThreadsOK' /\ DetourOK' /\ HistoryOK'
  <2> DEFINE s == call[t].slot
  <2>1. /\ held' = [held EXCEPT ![s] = (call[t].op = "down")] /\ Mix(Stray(s, call[t].code)) /\ GoTo(t, "frames", s)
        /\ UNCHANGED <<vk, frames, device, detour, pressed, before>>
    BY <1>12 DEF StoreHeld
  <2>2. s \in Index /\ "frames" \in Places
    BY CallFields DEF Places
  <2>3. ThreadsOK' /\ asked' = asked
    BY <2>1, <2>2, GoToTypes
  <2>4. held' \in [Index -> BOOLEAN]
    BY <2>1, <2>2 DEF TableOK
  <2> QED
    BY <2>1, <2>3, <2>4, MixTypes, <1>3, <1>5 DEF HistoryOK, TableOK
<1>13. ASSUME NEW t \in Threads, StoreFrames(t) PROVE TableOK' /\ DeviceOK' /\ ThreadsOK' /\ DetourOK' /\ HistoryOK'
  <2> DEFINE s == call[t].slot
  <2>1. /\ frames' = [frames EXCEPT ![s] = call[t].frames] /\ Mix(Stray(s, call[t].code))
        /\ UNCHANGED <<vk, held, device, detour, before>>
    BY <1>13 DEF StoreFrames
  <2>2. s \in Index /\ "up" \in Places /\ call[t].frames \in 0 .. MaxFrames
    BY CallFields DEF Places
  <2>3. TableOK'
    BY <2>1, <2>2 DEF TableOK
  <2>4. CASE Releases(t)
    <3>1. GoTo(t, "up", s) /\ pressed' = pressed
      BY <1>13, <2>4 DEF StoreFrames
    <3> QED
      BY <2>1, <2>2, <2>3, <3>1, GoToTypes, MixTypes, <1>3, <1>5 DEF HistoryOK
  <2>5. CASE ~Releases(t)
    <3>1. Leave(t, call[t].op) /\ pressed' = [pressed EXCEPT ![call[t].code] = FALSE]
      BY <1>13, <2>5 DEF StoreFrames
    <3>2. call[t].op \in {"tap", "down"}
      BY <1>13, <2>5, CallFields DEF StoreFrames, Releases, PlaceInv
    <3>3. pressed' \in [Codes -> BOOLEAN]
      BY <3>1 DEF HistoryOK
    <3> QED
      BY <2>1, <2>3, <3>1, <3>2, <3>3, LeaveTypes, MixTypes, <1>3, <1>5 DEF HistoryOK
  <2> QED
    BY <2>4, <2>5
<1>14. ASSUME NEW t \in Threads, SendUp(t) PROVE TableOK' /\ DeviceOK' /\ ThreadsOK' /\ DetourOK' /\ HistoryOK'
  <2>1. /\ Send(call[t].code, FALSE) /\ GoTo(t, "free", call[t].slot)
        /\ UNCHANGED <<table, current, detour, pressed, mixed, before>>
    BY <1>14 DEF SendUp
  <2>2. "free" \in Places /\ call[t].slot \in Index
    BY CallFields DEF Places
  <2>3. incoming' \in [Inputs -> BOOLEAN]
    BY <2>1 DEF Send, DeviceOK
  <2> QED
    BY <2>1, <2>2, <2>3, GoToTypes, <1>2, <1>5 DEF HistoryOK, DeviceOK
<1>15. ASSUME NEW t \in Threads, FreeSlot(t) PROVE TableOK' /\ DeviceOK' /\ ThreadsOK' /\ DetourOK' /\ HistoryOK'
  <2>1. /\ vk' = [vk EXCEPT ![call[t].slot] = 0] /\ Mix(Stray(call[t].slot, call[t].code)) /\ Leave(t, "up")
        /\ UNCHANGED <<frames, held, device, detour, pressed, before>>
    BY <1>15 DEF FreeSlot
  <2>2. TableOK'
    BY <2>1 DEF TableOK
  <2> QED
    BY <2>1, <2>2, LeaveTypes, MixTypes, <1>3, <1>5 DEF HistoryOK
<1>16. ASSUME NEW t \in Threads, release_all(t) PROVE TableOK' /\ DeviceOK' /\ ThreadsOK' /\ DetourOK' /\ HistoryOK'
  <2> DEFINE entry == [NoCall EXCEPT !.op = "release"]
  <2>1. /\ pc' = [pc EXCEPT ![t] = "swap"] /\ call' = [call EXCEPT ![t] = entry]
        /\ UNCHANGED <<table, device, detour, history>>
    BY <1>16 DEF release_all
  <2>2. calls' \in 0 .. MaxCalls
    BY <1>16, InputConstants DEF release_all, ThreadsOK
  <2>3. entry \in CallType
    BY InputConstants DEF NoCall, CallType
  <2> HIDE DEF entry
  <2>4. pc' \in [Threads -> Places]
    BY <2>1 DEF ThreadsOK, Places
  <2>5. call' \in [Threads -> CallType]
    BY <2>1, <2>3 DEF ThreadsOK
  <2> QED
    BY <2>1, <2>2, <2>4, <2>5, <1>2, <1>3, <1>5, <1>6 DEF ThreadsOK
<1>17. ASSUME NEW t \in Threads, Swap(t) PROVE TableOK' /\ DeviceOK' /\ ThreadsOK' /\ DetourOK' /\ HistoryOK'
  <2> DEFINE s == call[t].slot
             c == vk[s]
  <2>1. UNCHANGED <<frames, held, device, detour, asked, pressed, before>>
    BY <1>17 DEF Swap
  <2>2. s \in Index /\ c \in Codes \cup {0}
    BY CallFields DEF TableOK
  <2>3. CASE c = 0
    <3>1. NextSwap(t, s) /\ vk' = vk /\ mixed' = mixed
      BY <1>17, <2>3 DEF Swap
    <3> QED
      BY <2>1, <2>2, <3>1, NextSwapTypes, <1>3, <1>5 DEF TableOK, HistoryOK
  <2>4. CASE c # 0
    <3>1. /\ vk' = [vk EXCEPT ![s] = 0] /\ pc' = [pc EXCEPT ![t] = "held"] /\ call' = [call EXCEPT ![t].code = c]
          /\ mixed' = [mixed EXCEPT ![c] = @ \/ ~Quiet(c) \/ Cardinality(SlotsOf(c)) > 1] /\ calls' = calls
      BY <1>17, <2>4 DEF Swap
    <3>2. TableOK'
      BY <2>1, <3>1 DEF TableOK
    <3>3. HistoryOK'
      BY <2>1, <3>1 DEF HistoryOK
    <3> HIDE DEF c
    <3>4. pc' \in [Threads -> Places]
      BY <3>1 DEF ThreadsOK, Places
    <3>5. call' \in [Threads -> CallType]
      BY <2>2, <3>1 DEF ThreadsOK, CallType
    <3> QED
      BY <2>1, <3>1, <3>2, <3>3, <3>4, <3>5, <1>3, <1>5 DEF ThreadsOK
  <2> QED
    BY <2>3, <2>4
<1>18. ASSUME NEW t \in Threads, SendNarrow(t) PROVE TableOK' /\ DeviceOK' /\ ThreadsOK' /\ DetourOK' /\ HistoryOK'
  <2> DEFINE c == call[t].code
  <2>1. /\ Send(Narrow(c), FALSE) /\ NextSwap(t, call[t].slot)
        /\ asked' = [asked EXCEPT ![c] = IF Narrow(c) = c THEN "dropped" ELSE "narrowed"]
        /\ Mix({Narrow(c)} \ {c})
        /\ UNCHANGED <<table, current, detour, pressed, before>>
    BY <1>18 DEF SendNarrow
  <2>2. ThreadsOK'
    BY <2>1, CallFields, NextSwapTypes
  <2>3. incoming' \in [Inputs -> BOOLEAN]
    BY <2>1 DEF Send, DeviceOK
  <2>4. asked' \in [Codes -> {"nothing", "tap", "down", "up", "dropped", "narrowed"}]
    BY <2>1 DEF HistoryOK
  <2>5. mixed' \in [Codes -> BOOLEAN]
    BY <2>1, MixTypes
  <2> QED
    BY <2>1, <2>2, <2>3, <2>4, <2>5, <1>2, <1>5 DEF HistoryOK, DeviceOK
<1>19. ASSUME NEW t \in Threads, Call(t) PROVE TableOK' /\ DeviceOK' /\ ThreadsOK' /\ DetourOK' /\ HistoryOK'
  BY <1>8, <1>9, <1>10, <1>11, <1>12, <1>13, <1>14, <1>15, <1>16, <1>17, <1>18, <1>19 DEF Call
<1>20. CASE ClearMouse
  <2>1. /\ pc' = [pc EXCEPT !["command"] = "ready"] /\ call' = [call EXCEPT !["command"] = NoCall]
        /\ Mix({c \in Mouse : SlotsOf(c) # {} \/ ~Quiet(c)})
        /\ UNCHANGED <<table, detour, calls, pressed, before>>
    BY <1>20 DEF ClearMouse
  <2>2. NoCall \in CallType
    BY InputConstants DEF NoCall, CallType
  <2>3. pc' \in [Threads -> Places]
    BY <2>1 DEF ThreadsOK, Places
  <2>4. call' \in [Threads -> CallType]
    BY <2>1, <2>2 DEF ThreadsOK
  <2>5. DeviceOK'
    BY <1>20 DEF ClearMouse, DeviceOK
  <2>6. asked' \in [Codes -> {"nothing", "tap", "down", "up", "dropped", "narrowed"}]
    <3>1. asked' = [c \in Codes |-> IF c \in Mouse /\ asked[c] = "narrowed" THEN "dropped" ELSE asked[c]]
      BY <1>20 DEF ClearMouse
    <3> QED
      BY <3>1 DEF HistoryOK
  <2> QED
    BY <2>1, <2>3, <2>4, <2>5, <2>6, MixTypes, <1>2, <1>5 DEF HistoryOK, ThreadsOK
<1>21. CASE Gone
  <2>1. pc' = [pc EXCEPT !["unload"] = "gone"] /\ UNCHANGED <<table, device, call, calls, detour, history>>
    BY <1>21 DEF Gone
  <2>2. pc' \in [Threads -> Places]
    BY <2>1 DEF ThreadsOK, Places
  <2> QED
    BY <2>1, <2>2, <1>2, <1>3, <1>5, <1>6 DEF ThreadsOK
<1>22. ASSUME Poll PROVE TableOK' /\ DeviceOK' /\ ThreadsOK' /\ DetourOK' /\ HistoryOK'
  <2> USE PollFields
  <2>1. CASE poll_detour
    BY <2>1, <1>2, <1>3, <1>4, <1>6 DEF poll_detour, DetourOK, Steps
  <2>2. CASE LoadSlot
    <3> DEFINE c == vk[poll.slot]
    <3>1. UNCHANGED <<table, device, threads, asked, pressed, before>>
      BY <2>2 DEF LoadSlot
    <3>2. CASE c = 0
      <4>1. NextPoll /\ mixed' = mixed
        BY <2>2, <3>2 DEF LoadSlot
      <4> QED
        BY <3>1, <4>1, NextPollTypes, <1>2, <1>3, <1>4 DEF HistoryOK
    <3>3. CASE c # 0
      <4>1. ppc' = "held" /\ poll' = [poll EXCEPT !.vk = c] /\ Mix({d \in {c} : ~Quiet(c)})
        BY <2>2, <3>3 DEF LoadSlot
      <4>2. c \in Codes \cup {0}
        BY DEF TableOK
      <4> HIDE DEF c
      <4>3. DetourOK'
        BY <4>1, <4>2 DEF DetourOK, PollType, Steps
      <4> QED
        BY <3>1, <4>1, <4>3, MixTypes, <1>2, <1>3, <1>4 DEF HistoryOK
    <3> QED
      BY <3>2, <3>3
  <2>3. CASE LoadHeld
    BY <2>3, <1>2, <1>3, <1>4, <1>6 DEF LoadHeld, DetourOK, Steps
  <2>4. CASE Assert
    <3>1. Send(poll.vk, TRUE) /\ NextPoll /\ UNCHANGED <<table, current, threads, history>>
      BY <2>4 DEF Assert
    <3>2. DeviceOK'
      BY <3>1 DEF Send, DeviceOK
    <3> QED
      BY <3>1, <3>2, NextPollTypes, <1>2, <1>4, <1>6
  <2>5. CASE LoadFrames
    <3>1. /\ poll' = [poll EXCEPT !.left = frames[poll.slot]] /\ ppc' = IF frames[poll.slot] > 0 THEN "press" ELSE "release"
          /\ UNCHANGED <<table, device, threads, history>>
      BY <2>5 DEF LoadFrames
    <3>2. frames[poll.slot] \in 0 .. MaxFrames
      BY DEF TableOK
    <3>3. poll' \in PollType
      BY <3>1, <3>2 DEF DetourOK, PollType
    <3>4. ppc' \in Steps
      BY <3>1 DEF Steps
    <3> QED
      BY <3>1, <3>3, <3>4, <1>2, <1>3, <1>4, <1>6 DEF DetourOK
  <2>6. CASE Press
    <3>1. Send(poll.vk, TRUE) /\ ppc' = "left" /\ UNCHANGED <<table, current, threads, poll, history>>
      BY <2>6 DEF Press
    <3>2. DeviceOK'
      BY <3>1 DEF Send, DeviceOK
    <3> QED
      BY <3>1, <3>2, <1>2, <1>4, <1>6 DEF DetourOK, Steps
  <2>7. CASE CountDown
    <3>1. /\ frames' = [frames EXCEPT ![poll.slot] = poll.left - 1] /\ NextPoll
          /\ Mix(Stray(poll.slot, poll.vk)) /\ UNCHANGED <<vk, held, device, threads, asked, pressed, before>>
      BY <2>7 DEF CountDown
    <3>2. poll.left > 0
      BY <2>7 DEF CountDown, PlaceInv
    <3>3. poll.left - 1 \in 0 .. MaxFrames
      BY <3>2, InputConstants
    <3>4. TableOK'
      BY <3>1, <3>3 DEF TableOK
    <3> QED
      BY <3>1, <3>4, NextPollTypes, MixTypes, <1>3, <1>4 DEF HistoryOK
  <2>8. CASE Release
    <3>1. Send(poll.vk, FALSE) /\ ppc' = "free" /\ UNCHANGED <<table, current, threads, poll, history>>
      BY <2>8 DEF Release
    <3>2. DeviceOK'
      BY <3>1 DEF Send, DeviceOK
    <3> QED
      BY <3>1, <3>2, <1>2, <1>4, <1>6 DEF DetourOK, Steps
  <2>9. CASE FreeTap
    <3>1. /\ vk' = [vk EXCEPT ![poll.slot] = 0] /\ NextPoll
          /\ Mix(Stray(poll.slot, poll.vk)) /\ UNCHANGED <<frames, held, device, threads, asked, pressed, before>>
      BY <2>9 DEF FreeTap
    <3>2. TableOK'
      BY <3>1 DEF TableOK
    <3> QED
      BY <3>1, <3>2, NextPollTypes, MixTypes, <1>3, <1>4 DEF HistoryOK
  <2>10. CASE Shift
    <3>1. /\ current' = incoming /\ ppc' = "idle" /\ pressed' = [c \in Codes |-> pressed[c] \/ incoming[c]]
          /\ UNCHANGED <<table, incoming, threads, poll, asked, mixed, before>>
      BY <2>10 DEF Shift
    <3>2. pressed' \in [Codes -> BOOLEAN]
      BY <3>1
    <3>3. DeviceOK'
      BY <3>1 DEF DeviceOK
    <3> QED
      BY <3>1, <3>2, <3>3, <1>2, <1>4 DEF DetourOK, Steps, HistoryOK
  <2> QED
    BY <1>22, <2>1, <2>2, <2>3, <2>4, <2>5, <2>6, <2>7, <2>8, <2>9, <2>10 DEF Poll
<1>23. CASE UNCHANGED input_vars
  BY <1>2, <1>3, <1>4, <1>5, <1>6, <1>23 DEF input_vars
<1> QED
  BY <1>19, <1>20, <1>21, <1>22, <1>23 DEF InputNext

-----------------------------------------------------------------------------
(* Game input: places *)

\* One thread's part of PlaceInv, and the poll's.
ThreadPlace(t) ==
  /\ pc[t] \in {"ready", "swap", "mouse", "gone"} => call[t].code = 0
  /\ pc[t] \in {"find", "claim", "held", "frames", "up", "free"} => call[t].code # 0 /\ call[t].op # "none"
  /\ pc[t] \in {"find", "claim", "free"} => call[t].op # "release"
  /\ pc[t] = "claim" => call[t].op # "up"
  /\ pc[t] = "free" => call[t].op = "up"
  /\ pc[t] = "swap" => call[t].op = "release"
  /\ call[t].op = "tap" => call[t].frames > 0
PollPlace ==
  /\ ppc \in {"idle", "load", "shift"} <=> poll.vk = 0
  /\ ppc \in {"press", "left"} => poll.left > 0

LEMMA PlaceParts == PlaceInv <=> (\A t \in Threads : ThreadPlace(t)) /\ PollPlace
  BY DEF PlaceInv, ThreadPlace, PollPlace

\* A step of one thread keeps the places, if it keeps its own.
LEMMA PlaceOfOne ==
  ASSUME PlaceInv, NEW t \in Threads, Others(t), ThreadPlace(t)', UNCHANGED detour
  PROVE  PlaceInv'
<1>1. \A u \in Threads : ThreadPlace(u)'
  BY PlaceParts DEF Others, ThreadPlace
<1>2. PollPlace'
  BY PlaceParts DEF PollPlace, detour
<1> QED
  BY <1>1, <1>2 DEF PlaceInv, ThreadPlace, PollPlace

LEMMA PlaceOfPoll ==
  ASSUME PlaceInv, UNCHANGED threads, PollPlace'
  PROVE  PlaceInv'
<1>1. \A u \in Threads : ThreadPlace(u)'
  BY PlaceParts DEF threads, ThreadPlace
<1> QED
  BY <1>1 DEF PlaceInv, ThreadPlace, PollPlace

LEMMA EnterEffect ==
  ASSUME ThreadsOK, NEW t \in Threads, NEW c \in Codes, NEW entry \in CallType, Enter(t, c, entry)
  PROVE  Others(t) /\ pc'[t] = "find" /\ call'[t] = entry
  BY DEF Enter, ThreadsOK, Others

LEMMA PlaceStep ==
  ASSUME InputInv, [InputNext]_input_vars
  PROVE  PlaceInv'
<1>1. TableOK /\ DeviceOK /\ ThreadsOK /\ DetourOK /\ HistoryOK /\ PlaceInv
  BY InputTypeParts DEF InputInv
<1> USE <1>1
<1>2. ASSUME NEW t \in Threads, tap(t) \/ hold(t) PROVE PlaceInv'
  <2>1. PICK c \in Codes, entry \in CallType :
          /\ Enter(t, c, entry)
          /\ entry.code = c /\ entry.op \in {"tap", "down", "up"} /\ (entry.op = "tap" => entry.frames > 0)
    <3>1. CASE tap(t)
      <4>1. PICK c \in Codes, n \in 0 .. MaxFrames :
              Enter(t, c, [op |-> "tap", code |-> c, frames |-> AtLeastOne(n), slot |-> 0])
        BY <3>1 DEF tap
      <4>2. AtLeastOne(n) \in 0 .. MaxFrames /\ AtLeastOne(n) > 0
        BY InputConstants DEF AtLeastOne
      <4>3. [op |-> "tap", code |-> c, frames |-> AtLeastOne(n), slot |-> 0] \in CallType
        BY <4>2, InputConstants DEF CallType
      <4> QED
        BY <4>1, <4>2, <4>3
    <3>2. CASE hold(t)
      <4>1. PICK c \in Codes, down \in BOOLEAN :
              Enter(t, c, [op |-> IF down THEN "down" ELSE "up", code |-> c, frames |-> 0, slot |-> 0])
        BY <3>2 DEF hold
      <4>2. [op |-> IF down THEN "down" ELSE "up", code |-> c, frames |-> 0, slot |-> 0] \in CallType
        BY InputConstants DEF CallType
      <4> QED
        BY <4>1, <4>2
    <3> QED
      BY <1>2, <3>1, <3>2
  <2>2. Others(t) /\ pc'[t] = "find" /\ call'[t] = entry
    BY <2>1, EnterEffect
  <2>3. ThreadPlace(t)'
    BY <2>1, <2>2, InputConstants DEF ThreadPlace
  <2>4. UNCHANGED detour
    BY <2>1 DEF Enter
  <2> QED
    BY <2>2, <2>3, <2>4, PlaceOfOne
<1>3. ASSUME NEW t \in Threads, NEW next, NEW s \in Index, GoTo(t, next, s), UNCHANGED detour,
             pc[t] \in {"find", "claim", "held", "frames", "up"},
             \/ next = "held"
             \/ next = "claim" /\ call[t].op \notin {"up", "release"}
             \/ next \in {"frames", "up"}
             \/ next = "free" /\ call[t].op = "up"
      PROVE  PlaceInv'
  <2>1. /\ Others(t) /\ pc'[t] = next
        /\ call'[t].op = call[t].op /\ call'[t].code = call[t].code /\ call'[t].frames = call[t].frames
    BY <1>3, GoToEffect
  <2>2. ThreadPlace(t)
    BY PlaceParts
  <2>3. ThreadPlace(t)'
    BY <1>3, <2>1, <2>2 DEF ThreadPlace
  <2> QED
    BY <1>3, <2>1, <2>3, PlaceOfOne
<1>4. ASSUME NEW t \in Threads, NEW what, Leave(t, what), UNCHANGED detour PROVE PlaceInv'
  <2>1. /\ Others(t) /\ pc'[t] = "ready" /\ call'[t].code = 0
        /\ call'[t].op \in {"none", "up"} /\ call'[t].frames = 0
    BY <1>4, LeaveEffect
  <2>2. ThreadPlace(t)'
    BY <2>1 DEF ThreadPlace
  <2> QED
    BY <1>4, <2>1, <2>2, PlaceOfOne
<1>5. ASSUME NEW t \in Threads, NEW s \in Index, NextSwap(t, s), UNCHANGED detour PROVE PlaceInv'
  <2>1. /\ Others(t) /\ pc'[t] \in {"swap", "mouse", "ready"}
        /\ call'[t].code = 0 /\ call'[t].op \in {"release", "up"} /\ (pc'[t] = "swap" => call'[t].op = "release")
    BY <1>5, NextSwapEffect
  <2>2. ThreadPlace(t)'
    BY <2>1 DEF ThreadPlace
  <2> QED
    BY <1>5, <2>1, <2>2, PlaceOfOne
<1>6. ASSUME NEW t \in Threads, find_slot(t) PROVE PlaceInv'
  <2> DEFINE c == call[t].code
  <2>1. pc[t] = "find" /\ UNCHANGED detour /\ call[t].op # "release"
    BY <1>6 DEF find_slot, PlaceInv
  <2>2. CASE SlotsOf(c) # {}
    <3>1. GoTo(t, "held", First(c)) /\ First(c) \in Index
      BY <1>6, <2>2, FirstOf DEF find_slot
    <3> QED
      BY <1>3, <2>1, <3>1
  <2>3. CASE SlotsOf(c) = {} /\ call[t].op # "up"
    <3>1. GoTo(t, "claim", 0) /\ 0 \in Index
      BY <1>6, <2>3, InputConstants DEF find_slot
    <3> QED
      BY <1>3, <2>1, <2>3, <3>1
  <2>4. CASE SlotsOf(c) = {} /\ call[t].op = "up"
    BY <1>4, <1>6, <2>1, <2>4 DEF find_slot, TurnedAway
  <2> QED
    BY <2>2, <2>3, <2>4
<1>7. ASSUME NEW t \in Threads, claim_slot(t) PROVE PlaceInv'
  <2>1. pc[t] = "claim" /\ UNCHANGED detour
    BY <1>7 DEF claim_slot
  <2>2. CASE SlotsOf(0) # {}
    BY <1>3, <1>7, <2>1, <2>2, FirstOf DEF claim_slot
  <2>3. CASE ~(SlotsOf(0) # {})
    BY <1>4, <1>7, <2>1, <2>3 DEF claim_slot, TurnedAway
  <2> QED
    BY <2>2, <2>3
<1>8. ASSUME NEW t \in Threads, StoreHeld(t) PROVE PlaceInv'
  <2>1. /\ pc[t] = "held" /\ GoTo(t, "frames", call[t].slot) /\ UNCHANGED detour
        /\ call[t].slot \in Index
    BY <1>8, CallFields DEF StoreHeld
  <2> QED
    BY <1>3, <2>1
<1>9. ASSUME NEW t \in Threads, StoreFrames(t) PROVE PlaceInv'
  <2>1. pc[t] = "frames" /\ UNCHANGED detour /\ call[t].slot \in Index
    BY <1>9, CallFields DEF StoreFrames
  <2>2. CASE Releases(t)
    BY <1>3, <1>9, <2>1, <2>2 DEF StoreFrames
  <2>3. CASE ~Releases(t)
    BY <1>4, <1>9, <2>1, <2>3 DEF StoreFrames
  <2> QED
    BY <2>2, <2>3
<1>10. ASSUME NEW t \in Threads, SendUp(t) PROVE PlaceInv'
  <2>1. /\ pc[t] = "up" /\ call[t].op = "up" /\ GoTo(t, "free", call[t].slot) /\ UNCHANGED detour
        /\ call[t].slot \in Index
    BY <1>10, CallFields DEF SendUp
  <2> QED
    BY <1>3, <2>1
<1>11. ASSUME NEW t \in Threads, FreeSlot(t) PROVE PlaceInv'
  BY <1>4, <1>11 DEF FreeSlot
<1>12. ASSUME NEW t \in Threads, release_all(t) PROVE PlaceInv'
  <2> DEFINE entry == [NoCall EXCEPT !.op = "release"]
  <2>1. pc' = [pc EXCEPT ![t] = "swap"] /\ call' = [call EXCEPT ![t] = entry] /\ UNCHANGED detour
    BY <1>12 DEF release_all
  <2>2. entry.code = 0 /\ entry.op = "release"
    BY DEF NoCall
  <2> HIDE DEF entry
  <2>3. Others(t) /\ pc'[t] = "swap" /\ call'[t] = entry
    BY <2>1 DEF ThreadsOK, Others
  <2>4. ThreadPlace(t)'
    BY <2>2, <2>3 DEF ThreadPlace
  <2> QED
    BY <2>1, <2>3, <2>4, PlaceOfOne
<1>13. ASSUME NEW t \in Threads, Swap(t) PROVE PlaceInv'
  <2> DEFINE s == call[t].slot
             c == vk[s]
  <2>1. s \in Index /\ UNCHANGED detour
    BY <1>13, CallFields DEF Swap
  <2>2. CASE c = 0
    BY <1>5, <1>13, <2>1, <2>2 DEF Swap
  <2>3. CASE c # 0
    <3>1. pc[t] = "swap" /\ pc' = [pc EXCEPT ![t] = "held"] /\ call' = [call EXCEPT ![t].code = c]
      BY <1>13, <2>3 DEF Swap
    <3> HIDE DEF c
    <3>2. Others(t) /\ pc'[t] = "held" /\ call'[t] = [call[t] EXCEPT !.code = c]
      BY <3>1 DEF ThreadsOK, Others
    <3>3. call[t] \in CallType
      BY CallFields
    <3>4. call'[t].code = c /\ call'[t].op = call[t].op
      BY <3>2, <3>3 DEF CallType
    <3>5. call[t].op = "release"
      BY <3>1, PlaceParts DEF ThreadPlace
    <3>6. ThreadPlace(t)'
      BY <2>3, <3>2, <3>4, <3>5 DEF ThreadPlace
    <3> QED
      BY <2>1, <3>2, <3>6, PlaceOfOne
  <2> QED
    BY <2>2, <2>3
<1>14. ASSUME NEW t \in Threads, SendNarrow(t) PROVE PlaceInv'
  BY <1>5, <1>14, CallFields DEF SendNarrow
<1>15. ASSUME NEW t \in Threads, Call(t) PROVE PlaceInv'
  BY <1>2, <1>6, <1>7, <1>8, <1>9, <1>10, <1>11, <1>12, <1>13, <1>14, <1>15 DEF Call
<1>16. CASE ClearMouse
  <2> DEFINE t == "command"
  <2>1. t \in Threads /\ pc' = [pc EXCEPT ![t] = "ready"] /\ call' = [call EXCEPT ![t] = NoCall] /\ UNCHANGED detour
    BY <1>16 DEF ClearMouse, Threads
  <2>2. NoCall.code = 0 /\ NoCall.op = "none"
    BY DEF NoCall
  <2> HIDE DEF t
  <2>3. Others(t) /\ pc'[t] = "ready" /\ call'[t] = NoCall
    BY <2>1 DEF ThreadsOK, Others
  <2>4. ThreadPlace(t)'
    BY <2>2, <2>3 DEF ThreadPlace
  <2> QED
    BY <2>1, <2>3, <2>4, PlaceOfOne
<1>17. CASE Gone
  <2> DEFINE t == "unload"
  <2>1. /\ t \in Threads /\ pc' = [pc EXCEPT ![t] = "gone"] /\ UNCHANGED <<call, detour>>
        /\ pc[t] = "ready"
    BY <1>17 DEF Gone, Threads
  <2> HIDE DEF t
  <2>2. Others(t) /\ pc'[t] = "gone"
    BY <2>1 DEF ThreadsOK, Others
  <2>3. ThreadPlace(t)
    BY <2>1, PlaceParts
  <2>4. ThreadPlace(t)'
    BY <2>1, <2>2, <2>3 DEF ThreadPlace
  <2> QED
    BY <2>1, <2>2, <2>4, PlaceOfOne
<1>18. ASSUME NextPoll, ppc \notin {"idle", "shift"}, UNCHANGED threads PROVE PlaceInv'
  <2>1. PollPlace'
    BY <1>18, NextPollEffect DEF PollPlace
  <2> QED
    BY <1>18, <2>1, PlaceOfPoll
<1>19. ASSUME Poll PROVE PlaceInv'
  <2> USE PollFields
  <2>1. PollPlace
    BY PlaceParts
  <2>2. CASE poll_detour
    BY <2>1, <2>2, PlaceOfPoll DEF poll_detour, PollPlace
  <2>3. CASE LoadSlot
    <3> DEFINE c == vk[poll.slot]
    <3>1. ppc = "load" /\ UNCHANGED threads
      BY <2>3 DEF LoadSlot
    <3>2. CASE c = 0
      BY <1>18, <2>3, <3>1, <3>2 DEF LoadSlot
    <3>3. CASE c # 0
      <4>1. ppc' = "held" /\ poll' = [poll EXCEPT !.vk = c]
        BY <2>3, <3>3 DEF LoadSlot
      <4> HIDE DEF c
      <4>2. poll'.vk = c
        BY <4>1 DEF DetourOK, PollType
      <4>3. PollPlace'
        BY <3>3, <4>1, <4>2 DEF PollPlace
      <4> QED
        BY <3>1, <4>3, PlaceOfPoll
    <3> QED
      BY <3>2, <3>3
  <2>4. CASE LoadHeld
    <3>1. ppc = "held" /\ ppc' \in {"assert", "count"} /\ UNCHANGED <<threads, poll>>
      BY <2>4 DEF LoadHeld
    <3>2. PollPlace'
      BY <2>1, <3>1 DEF PollPlace
    <3> QED
      BY <3>1, <3>2, PlaceOfPoll
  <2>5. CASE Assert
    BY <1>18, <2>5 DEF Assert
  <2>6. CASE LoadFrames
    <3>1. /\ ppc = "count" /\ poll' = [poll EXCEPT !.left = frames[poll.slot]] /\ UNCHANGED threads
          /\ ppc' = IF frames[poll.slot] > 0 THEN "press" ELSE "release"
      BY <2>6 DEF LoadFrames
    <3>2. poll'.vk = poll.vk /\ poll'.left = frames[poll.slot]
      BY <3>1 DEF DetourOK, PollType
    <3>3. PollPlace'
      BY <2>1, <3>1, <3>2 DEF PollPlace
    <3> QED
      BY <3>1, <3>3, PlaceOfPoll
  <2>7. CASE Press
    BY <2>1, <2>7, PlaceOfPoll DEF Press, PollPlace
  <2>8. CASE CountDown
    BY <1>18, <2>8 DEF CountDown
  <2>9. CASE Release
    BY <2>1, <2>9, PlaceOfPoll DEF Release, PollPlace
  <2>10. CASE FreeTap
    BY <1>18, <2>10 DEF FreeTap
  <2>11. CASE Shift
    BY <2>1, <2>11, PlaceOfPoll DEF Shift, PollPlace
  <2> QED
    BY <1>19, <2>2, <2>3, <2>4, <2>5, <2>6, <2>7, <2>8, <2>9, <2>10, <2>11 DEF Poll
<1>20. CASE UNCHANGED input_vars
  <2>1. PollPlace' /\ UNCHANGED threads
    BY <1>20, PlaceParts DEF input_vars, detour, PollPlace
  <2> QED
    BY <2>1, PlaceOfPoll
<1> QED
  BY <1>15, <1>16, <1>17, <1>19, <1>20 DEF InputNext

-----------------------------------------------------------------------------
(* Game input: a code keeps its invariant *)

\* A step that has nothing to do with a code: with its slots, its keys, the threads and the poll at work on it.
SameSlots(c) ==
  /\ \A s \in Index : vk'[s] = c <=> vk[s] = c
  /\ \A s \in Index : vk[s] = c => held'[s] = held[s] /\ frames'[s] = frames[s]
SameKeys(c) ==
  /\ incoming'[c] = incoming[c] /\ pressed'[c] = pressed[c]
  /\ asked'[c] = asked[c] /\ before'[c] = before[c]
SameCalls(c) == \A t \in Threads : call[t].code = c \/ call'[t].code = c => call'[t] = call[t] /\ pc'[t] = pc[t]
SamePoll(c) == poll.vk = c \/ poll'.vk = c => poll' = poll /\ ppc' = ppc
PollGoesOn == \A s \in Index : Past(s) => Past(s)'

LEMMA StaysAtRest ==
  ASSUME NEW c, SameSlots(c), SameKeys(c), PollGoesOn, Rests(c)
  PROVE  Rests(c)'
<1>1. Vacant(c)' <=> Vacant(c)
  BY DEF SameSlots, Vacant
<1>2. ASSUME NEW s \in Index, vk[s] = c, Seen(c, s) PROVE Seen(c, s)'
  BY <1>2 DEF SameSlots, SameKeys, PollGoesOn, Seen
<1>3. asked[c] = "down" => (\E s \in Index : vk[s] = c /\ held[s])'
  BY DEF Rests, SameSlots
<1>4. asked[c] = "tap" => \A s \in Index : vk'[s] = c => ~held'[s] /\ Seen(c, s)'
  BY <1>2 DEF Rests, SameSlots
<1> QED
  BY <1>1, <1>3, <1>4 DEF Rests, SameKeys

LEMMA Untouched ==
  ASSUME InputTypeOK, NEW c \in Codes, CodeInv(c), mixed[c] => mixed'[c],
         SameSlots(c), SameKeys(c), SameCalls(c), SamePoll(c), PollGoesOn
  PROVE  CodeInv(c)'
<1> SUFFICES ASSUME ~mixed'[c], ~mixed[c] PROVE CodeInv(c)'
  BY DEF CodeInv
<1>1. ThreadsOK /\ DetourOK
  BY InputTypeParts
<1>2. Alone(c) /\ One(c) /\ (\A t \in Threads : CallInv(t, c)) /\ PollInv(c) /\ RestInv(c)
  BY DEF CodeInv
<1>3. Alone(c)'
  BY <1>2 DEF Alone, SameCalls, SamePoll
<1>4. One(c)'
  BY <1>2 DEF One, SameSlots
<1>5. ASSUME NEW t \in Threads PROVE CallInv(t, c)'
  <2> SUFFICES ASSUME call'[t].code = c PROVE CallInv(t, c)'
    BY DEF CallInv
  <2>1. call'[t] = call[t] /\ pc'[t] = pc[t] /\ call[t].code = c
    BY DEF SameCalls
  <2>2. call[t].slot \in Index
    BY <1>1, CallFields
  <2>3. Vacant(c)' <=> Vacant(c)
    BY DEF SameSlots, Vacant
  <2> QED
    BY <1>2, <2>1, <2>2, <2>3 DEF CallInv, SameSlots, SameKeys
<1>6. PollInv(c)'
  <2> SUFFICES ASSUME poll'.vk = c PROVE PollInv(c)'
    BY DEF PollInv
  <2>1. poll' = poll /\ ppc' = ppc /\ poll.vk = c
    BY DEF SamePoll
  <2>2. poll.slot \in Index
    BY <1>1, PollFields
  <2> QED
    BY <1>2, <2>1, <2>2 DEF PollInv, SameSlots, SameKeys
<1>7. RestInv(c)'
  <2> SUFFICES ASSUME \A t \in Threads : call'[t].code = c => pc'[t] \in {"find", "claim"} /\ ~before'[c]
               PROVE  Rests(c)'
    BY DEF RestInv
  <2>1. \A t \in Threads : call[t].code = c => pc[t] \in {"find", "claim"} /\ ~before[c]
    BY DEF SameCalls, SameKeys
  <2> QED
    BY <1>2, <2>1, StaysAtRest DEF RestInv
<1> QED
  BY <1>3, <1>4, <1>5, <1>6, <1>7 DEF CodeInv

\* The thread at work on a code goes on with its call.
LEMMA CallGoesOn ==
  ASSUME NEW c \in Codes, NEW t \in Threads, call[t].code = c, Alone(c),
         Others(t), call'[t].code = c, UNCHANGED detour, One(c)', CallInv(t, c)',
         pc'[t] \in {"find", "claim"} /\ ~before'[c] => Rests(c)'
  PROVE  CodeInv(c)'
<1>1. \A u \in Threads : u # t => call'[u].code # c
  BY DEF Alone, Others
<1>2. poll'.vk # c
  BY DEF Alone, detour
<1>3. Alone(c)' /\ PollInv(c)' /\ RestInv(c)'
  BY <1>1, <1>2 DEF Alone, PollInv, RestInv
<1>4. \A u \in Threads : CallInv(u, c)'
  BY <1>1 DEF CallInv
<1> QED
  BY <1>3, <1>4 DEF CodeInv

\* It is done with it.
LEMMA CallEnds ==
  ASSUME NEW c \in Codes, NEW t \in Threads, call[t].code = c, Alone(c),
         Others(t), call'[t].code # c, UNCHANGED detour, One(c)', Rests(c)'
  PROVE  CodeInv(c)'
<1>1. \A u \in Threads : call'[u].code # c
  BY DEF Alone, Others
<1>2. poll'.vk # c
  BY DEF Alone, detour
<1>3. Alone(c)' /\ PollInv(c)' /\ RestInv(c)'
  BY <1>1, <1>2 DEF Alone, PollInv, RestInv
<1>4. \A u \in Threads : CallInv(u, c)'
  BY <1>1 DEF CallInv
<1> QED
  BY <1>3, <1>4 DEF CodeInv

\* The poll goes on, with no thread at work on the code.
LEMMA PollKeeps ==
  ASSUME NEW c \in Codes, UNCHANGED threads, \A t \in Threads : call[t].code # c,
         One(c)', PollInv(c)', Rests(c)'
  PROVE  CodeInv(c)'
<1>1. \A t \in Threads : call'[t].code # c
  BY DEF threads
<1>2. Alone(c)' /\ RestInv(c)' /\ \A u \in Threads : CallInv(u, c)'
  BY <1>1 DEF Alone, RestInv, CallInv
<1> QED
  BY <1>2 DEF CodeInv

-----------------------------------------------------------------------------
(* Game input: the steps of a call *)

\* What every step starts from.
LEMMA Known ==
  ASSUME InputInv
  PROVE  /\ TableOK /\ DeviceOK /\ ThreadsOK /\ DetourOK /\ HistoryOK /\ PlaceInv /\ InputTypeOK
         /\ \A c \in Codes : CodeInv(c) /\ c # 0 /\ c \in Inputs
  BY InputTypeParts, InputConstants DEF InputInv

\* A thread that is at work on another code, or on none, leaves this one alone.
LEMMA NotAtWork ==
  ASSUME NEW c \in Codes, NEW t \in Threads, Others(t), call[t].code # c, call'[t].code # c
  PROVE  SameCalls(c)
  BY DEF Others, SameCalls

LEMMA StillPoll ==
  ASSUME UNCHANGED detour
  PROVE  PollGoesOn /\ \A c \in Codes : SamePoll(c)
  BY DEF detour, PollGoesOn, SamePoll, Past

LEMMA EnterCode ==
  ASSUME InputInv, NEW t \in Threads, NEW k \in Codes, NEW entry \in CallType, NEW c \in Codes,
         Enter(t, k, entry), entry.code = k, entry.op # "release", pc[t] = "ready"
  PROVE  CodeInv(c)'
<1> USE Known
<1>1. Others(t) /\ pc'[t] = "find" /\ call'[t] = entry
  BY EnterEffect
<1>2. /\ UNCHANGED <<table, device, detour, asked, pressed>> /\ before' = [before EXCEPT ![k] = mixed[k]]
      /\ mixed' = [mixed EXCEPT ![k] = ~Quiet(k) \/ Cardinality(SlotsOf(k)) > 1]
  BY DEF Enter
<1>3. call[t].code = 0
  BY DEF PlaceInv
<1>4. CASE c = k
  <2> SUFFICES ASSUME ~mixed'[c] PROVE CodeInv(c)'
    BY DEF CodeInv
  <2>1. Quiet(c) /\ One(c)
    BY <1>2, <1>4, AtMostOne DEF HistoryOK
  <2>2. One(c)'
    BY <1>2, <2>1 DEF One, table
  <2>3. poll'.vk # c /\ \A u \in Threads : u # t => call'[u].code # c
    BY <1>1, <1>2, <2>1 DEF Quiet, Calling, Polling, Others, detour
  <2>4. call'[t].code = c /\ call'[t].op # "release"
    BY <1>1, <1>4
  <2>7. ASSUME ~before'[c] PROVE Rests(c)'
    <3>1. ~mixed[c]
      BY <1>2, <1>4, <2>7 DEF HistoryOK
    <3>2. Rests(c)
      BY <2>1, <3>1 DEF CodeInv, RestInv, Quiet, Calling
    <3>3. Vacant(c)' <=> Vacant(c)
      BY <1>2 DEF Vacant, table
    <3> QED
      BY <1>2, <3>2, <3>3 DEF Rests, Seen, Past, table, device, detour
  <2>5. Alone(c)' /\ PollInv(c)' /\ RestInv(c)'
    BY <2>3, <2>4, <2>7 DEF Alone, PollInv, RestInv
  <2>6. \A u \in Threads : CallInv(u, c)'
    BY <1>1, <2>3, <2>4 DEF CallInv
  <2> QED
    BY <2>2, <2>5, <2>6 DEF CodeInv
<1>5. CASE c # k
  <2>1. SameCalls(c)
    BY <1>1, <1>3, <1>5, NotAtWork
  <2>2. SameSlots(c) /\ SameKeys(c)
    BY <1>2, <1>5 DEF SameSlots, SameKeys, table, device, HistoryOK
  <2>3. mixed[c] => mixed'[c]
    BY <1>2, <1>5 DEF HistoryOK
  <2> QED
    BY <1>2, <2>1, <2>2, <2>3, StillPoll, Untouched
<1> QED
  BY <1>4, <1>5

LEMMA TapCode ==
  ASSUME InputInv, NEW t \in Threads, NEW c \in Codes, tap(t)
  PROVE  CodeInv(c)'
<1>1. PICK k \in Codes, n \in 0 .. MaxFrames :
        Enter(t, k, [op |-> "tap", code |-> k, frames |-> AtLeastOne(n), slot |-> 0])
  BY DEF tap
<1>2. AtLeastOne(n) \in 0 .. MaxFrames /\ pc[t] = "ready"
  BY InputConstants DEF AtLeastOne, tap, MayCall
<1>3. [op |-> "tap", code |-> k, frames |-> AtLeastOne(n), slot |-> 0] \in CallType
  BY <1>2, InputConstants DEF CallType
<1> QED
  BY <1>1, <1>2, <1>3, EnterCode

LEMMA HoldCode ==
  ASSUME InputInv, NEW t \in Threads, NEW c \in Codes, hold(t)
  PROVE  CodeInv(c)'
<1>1. PICK k \in Codes, down \in BOOLEAN :
        Enter(t, k, [op |-> IF down THEN "down" ELSE "up", code |-> k, frames |-> 0, slot |-> 0])
  BY DEF hold
<1>2. [op |-> IF down THEN "down" ELSE "up", code |-> k, frames |-> 0, slot |-> 0] \in CallType
  BY InputConstants DEF CallType
<1>3. pc[t] = "ready"
  BY DEF hold, MayCall
<1>4. (IF down THEN "down" ELSE "up") # "release"
  OBVIOUS
<1> QED
  BY <1>1, <1>2, <1>3, <1>4, EnterCode

LEMMA FindCode ==
  ASSUME InputInv, NEW t \in Threads, NEW c \in Codes, find_slot(t)
  PROVE  CodeInv(c)'
<1> USE Known
<1> DEFINE d == call[t].code
<1>1. /\ UNCHANGED <<table, device, detour, pressed, before>> /\ pc[t] = "find" /\ d # 0 /\ call[t].op # "release"
  BY DEF find_slot, PlaceInv
<1>2. \/ SlotsOf(d) # {} /\ GoTo(t, "held", First(d)) /\ mixed' = mixed
      \/ SlotsOf(d) = {} /\ GoTo(t, "claim", 0) /\ mixed' = mixed
      \/ SlotsOf(d) = {} /\ TurnedAway(t)
  BY DEF find_slot
<1>3. SlotsOf(d) # {} => First(d) \in Index /\ vk[First(d)] = d
  BY FirstOf
<1>4. 0 \in Index
  BY InputConstants
<1>7. mixed[c] => mixed'[c]
  BY <1>1, <1>2, TurnedAwayEffect
<1>5. CASE d = c
  <2> SUFFICES ASSUME ~mixed[c], ~mixed'[c] PROVE CodeInv(c)'
    BY <1>7 DEF CodeInv
  <2>1. Alone(c) /\ One(c)
    BY DEF CodeInv
  <2>2. One(c)'
    BY <1>1, <2>1 DEF One, table
  <2>6. ASSUME ~before[c], asked' = asked PROVE Rests(c)'
    <3>1. Rests(c)
      BY <1>1, <1>5, <2>1, <2>6 DEF CodeInv, RestInv, Alone
    <3>2. SameSlots(c) /\ SameKeys(c)
      BY <1>1, <2>6 DEF SameSlots, SameKeys, table, device
    <3> QED
      BY <1>1, <3>1, <3>2, StillPoll, StaysAtRest
  <2>3. CASE SlotsOf(d) # {} /\ GoTo(t, "held", First(d))
    <3>1. /\ Others(t) /\ pc'[t] = "held" /\ call'[t].slot = First(d)
          /\ call'[t].op = call[t].op /\ call'[t].code = c
      BY <1>3, <1>5, <2>3, GoToEffect
    <3>2. CallInv(t, c)'
      BY <1>1, <1>3, <1>5, <2>3, <3>1 DEF CallInv, table
    <3> QED
      BY <1>1, <1>5, <2>1, <2>2, <3>1, <3>2, CallGoesOn
  <2>4. CASE SlotsOf(d) = {} /\ GoTo(t, "claim", 0)
    <3>1. /\ Others(t) /\ pc'[t] = "claim"
          /\ call'[t].op = call[t].op /\ call'[t].code = c
      BY <1>4, <1>5, <2>4, GoToEffect
    <3>2. Vacant(c)'
      BY <1>1, <1>5, <2>4 DEF Vacant, SlotsOf, table
    <3>3. CallInv(t, c)'
      BY <1>1, <3>1, <3>2 DEF CallInv
    <3>4. asked' = asked
      BY <2>4 DEF GoTo
    <3>5. ~before'[c] => Rests(c)'
      BY <1>1, <2>6, <3>4
    <3> QED
      BY <1>1, <1>5, <2>1, <2>2, <3>1, <3>3, <3>5, CallGoesOn
  <2>5. CASE SlotsOf(d) = {} /\ TurnedAway(t)
    <3>2. asked' = asked /\ ~before[c]
      BY <1>1, <1>5, <2>5, TurnedAwayEffect
    <3>1. Others(t) /\ call'[t].code # c
      BY <1>1, <1>5, <2>5, TurnedAwayEffect, LeaveEffect
    <3>3. Rests(c)'
      BY <2>6, <3>2
    <3> QED
      BY <1>1, <1>5, <2>1, <2>2, <3>1, <3>3, CallEnds
  <2> QED
    BY <1>2, <2>3, <2>4, <2>5
<1>6. CASE d # c
  <2>1. Others(t) /\ call'[t].code # c /\ asked'[c] = asked[c]
    <3>1. CASE SlotsOf(d) # {} /\ GoTo(t, "held", First(d))
      BY <1>3, <1>6, <3>1, GoToEffect DEF GoTo
    <3>2. CASE SlotsOf(d) = {} /\ GoTo(t, "claim", 0)
      BY <1>4, <1>6, <3>2, GoToEffect DEF GoTo
    <3>3. CASE SlotsOf(d) = {} /\ TurnedAway(t)
      <4>1. Leave(t, asked[d]) /\ asked' = asked
        BY <1>1, <3>3, TurnedAwayEffect
      <4> QED
        BY <1>6, <4>1, LeaveEffect, Known
    <3> QED
      BY <1>2, <3>1, <3>2, <3>3
  <2>2. SameCalls(c)
    BY <1>6, <2>1, NotAtWork
  <2>3. SameSlots(c) /\ SameKeys(c)
    BY <1>1, <2>1 DEF SameSlots, SameKeys, table, device
  <2> QED
    BY <1>1, <1>7, <2>2, <2>3, StillPoll, Untouched
<1> QED
  BY <1>5, <1>6

LEMMA ClaimCode ==
  ASSUME InputInv, NEW t \in Threads, NEW c \in Codes, claim_slot(t)
  PROVE  CodeInv(c)'
<1> USE Known
<1> DEFINE d == call[t].code
           s == First(0)
<1>1. /\ UNCHANGED <<frames, held, device, detour, pressed, before>>
      /\ pc[t] = "claim" /\ d # 0 /\ call[t].op # "release" /\ call[t].op # "up"
  BY DEF claim_slot, PlaceInv
<1>2. \/ SlotsOf(0) # {} /\ vk' = [vk EXCEPT ![s] = d] /\ GoTo(t, "held", s) /\ mixed' = mixed
      \/ vk' = vk /\ TurnedAway(t)
  BY DEF claim_slot
<1>3. SlotsOf(0) # {} => s \in Index /\ vk[s] = 0
  BY FirstOf
<1> HIDE DEF s
<1>6. mixed[c] => mixed'[c]
  BY <1>1, <1>2, TurnedAwayEffect
<1>4. CASE d = c
  <2> SUFFICES ASSUME ~mixed[c], ~mixed'[c] PROVE CodeInv(c)'
    BY <1>6 DEF CodeInv
  <2>1. Alone(c) /\ One(c) /\ Vacant(c)
    BY <1>1, <1>4 DEF CodeInv, CallInv
  <2>2. CASE SlotsOf(0) # {} /\ vk' = [vk EXCEPT ![s] = d] /\ GoTo(t, "held", s)
    <3>1. /\ Others(t) /\ pc'[t] = "held" /\ call'[t].slot = s
          /\ call'[t].op = call[t].op /\ call'[t].code = c
      BY <1>3, <1>4, <2>2, GoToEffect
    <3>2. vk'[s] = c /\ \A r \in Index : r # s => vk'[r] # c
      BY <1>3, <1>4, <2>1, <2>2 DEF TableOK, Vacant
    <3>3. One(c)'
      BY <3>2 DEF One
    <3>4. CallInv(t, c)'
      BY <1>1, <3>1, <3>2 DEF CallInv
    <3> QED
      BY <1>1, <1>4, <2>1, <3>1, <3>3, <3>4, CallGoesOn
  <2>3. CASE vk' = vk /\ TurnedAway(t)
    <3>4. asked' = asked /\ ~before[c]
      BY <1>1, <1>4, <2>3, TurnedAwayEffect
    <3>1. Others(t) /\ call'[t].code # c
      BY <1>1, <1>4, <2>3, TurnedAwayEffect, LeaveEffect
    <3>2. One(c)'
      BY <2>1, <2>3 DEF One
    <3>5. Rests(c)
      BY <1>1, <1>4, <2>1, <3>4 DEF CodeInv, RestInv, Alone
    <3>6. SameSlots(c) /\ SameKeys(c)
      BY <1>1, <2>3, <3>4 DEF SameSlots, SameKeys, device
    <3>3. Rests(c)'
      BY <1>1, <3>5, <3>6, StillPoll, StaysAtRest
    <3> QED
      BY <1>1, <1>4, <2>1, <3>1, <3>2, <3>3, CallEnds
  <2> QED
    BY <1>2, <2>2, <2>3
<1>5. CASE d # c
  <2>1. Others(t) /\ call'[t].code # c /\ asked'[c] = asked[c] /\ (\A r \in Index : vk'[r] = c <=> vk[r] = c)
    <3>1. CASE SlotsOf(0) # {} /\ vk' = [vk EXCEPT ![s] = d] /\ GoTo(t, "held", s)
      <4>1. Others(t) /\ call'[t].code # c /\ asked'[c] = asked[c]
        BY <1>3, <1>5, <3>1, GoToEffect DEF GoTo
      <4>2. \A r \in Index : vk'[r] = c <=> vk[r] = c
        BY <1>3, <1>5, <3>1 DEF TableOK
      <4> QED
        BY <4>1, <4>2
    <3>2. CASE vk' = vk /\ TurnedAway(t)
      <4>1. Leave(t, asked[d]) /\ asked' = asked
        BY <1>1, <3>2, TurnedAwayEffect
      <4> QED
        BY <1>5, <3>2, <4>1, LeaveEffect, Known
    <3> QED
      BY <1>2, <3>1, <3>2
  <2>2. SameCalls(c)
    BY <1>5, <2>1, NotAtWork
  <2>3. SameSlots(c) /\ SameKeys(c)
    BY <1>1, <2>1 DEF SameSlots, SameKeys, device
  <2> QED
    BY <1>1, <1>6, <2>2, <2>3, StillPoll, Untouched
<1> QED
  BY <1>4, <1>5

\* A store in a slot that has become another code's counts as interference with that one.
LEMMA StrayMixes ==
  ASSUME HistoryOK, NEW s, NEW d, NEW c \in Codes, Mix(Stray(s, d)), c # d
  PROVE  /\ mixed[c] => mixed'[c]
         /\ vk[s] = c => mixed'[c]
<1>1. mixed'[c] = (mixed[c] \/ c \in Stray(s, d))
  BY MixTypes
<1>2. vk[s] = c => c \in Stray(s, d)
  BY SyntheticInputAssumption DEF Stray
<1> QED
  BY <1>1, <1>2

LEMMA StrayKeeps ==
  ASSUME HistoryOK, NEW s, NEW d \in Codes, Mix(Stray(s, d))
  PROVE  mixed'[d] = mixed[d]
<1>1. mixed'[d] = (mixed[d] \/ d \in Stray(s, d))
  BY MixTypes
<1>2. d \notin Stray(s, d)
  BY DEF Stray
<1> QED
  BY <1>1, <1>2 DEF HistoryOK

LEMMA StoreHeldCode ==
  ASSUME InputInv, NEW t \in Threads, NEW c \in Codes, StoreHeld(t)
  PROVE  CodeInv(c)'
<1> USE Known
<1> DEFINE d == call[t].code
           s == call[t].slot
<1>1. /\ held' = [held EXCEPT ![s] = (call[t].op = "down")] /\ Mix(Stray(s, d)) /\ GoTo(t, "frames", s)
      /\ UNCHANGED <<vk, frames, device, detour, pressed, before>> /\ pc[t] = "held"
  BY DEF StoreHeld
<1>2. s \in Index
  BY CallFields
<1>3. /\ Others(t) /\ pc'[t] = "frames" /\ call'[t].slot = s
      /\ call'[t].op = call[t].op /\ call'[t].code = d /\ asked' = asked
  <2>1. asked' = asked
    BY <1>1 DEF GoTo
  <2> HIDE DEF d, s
  <2>2. /\ Others(t) /\ pc'[t] = "frames" /\ call'[t].slot = s
        /\ call'[t].op = call[t].op /\ call'[t].code = call[t].code
    BY <1>1, <1>2, GoToEffect
  <2> QED
    BY <2>1, <2>2 DEF d
<1>4. CASE d = c
  <2> SUFFICES ASSUME ~mixed[c] PROVE CodeInv(c)'
    BY <1>1, <1>4, StrayKeeps DEF CodeInv
  <2>1. Alone(c) /\ One(c) /\ CallInv(t, c)
    BY DEF CodeInv
  <2>2. One(c)'
    BY <1>1, <2>1 DEF One
  <2>3. CASE call[t].op = "release"
    <3>1. Vacant(c)'
      BY <1>1, <1>4, <2>1, <2>3 DEF CallInv, Vacant
    <3>2. CallInv(t, c)'
      BY <1>3, <2>3, <3>1 DEF CallInv
    <3> QED
      BY <1>1, <1>3, <1>4, <2>1, <2>2, <3>2, CallGoesOn
  <2>4. CASE call[t].op # "release"
    <3>1. vk'[s] = c
      BY <1>1, <1>4, <2>1, <2>4 DEF CallInv
    <3>2. held'[s] = (call[t].op = "down")
      BY <1>1, <1>2 DEF TableOK
    <3>3. CallInv(t, c)'
      BY <1>3, <2>4, <3>1, <3>2 DEF CallInv
    <3> QED
      BY <1>1, <1>3, <1>4, <2>1, <2>2, <3>3, CallGoesOn
  <2> QED
    BY <2>3, <2>4
<1>5. CASE d # c
  <2> SUFFICES ASSUME vk[s] # c PROVE CodeInv(c)'
    BY <1>1, <1>5, StrayMixes DEF CodeInv
  <2>1. \A r \in Index : vk[r] = c => held'[r] = held[r]
    BY <1>1 DEF TableOK
  <2>2. SameSlots(c) /\ SameKeys(c)
    BY <1>1, <1>3, <2>1 DEF SameSlots, SameKeys, device
  <2>3. SameCalls(c) /\ (mixed[c] => mixed'[c])
    BY <1>1, <1>3, <1>5, NotAtWork, StrayMixes
  <2> QED
    BY <1>1, <2>2, <2>3, StillPoll, Untouched
<1> QED
  BY <1>4, <1>5

LEMMA StoreFramesCode ==
  ASSUME InputInv, NEW t \in Threads, NEW c \in Codes, StoreFrames(t)
  PROVE  CodeInv(c)'
<1> USE Known
<1> DEFINE d == call[t].code
           s == call[t].slot
<1>1. /\ frames' = [frames EXCEPT ![s] = call[t].frames] /\ Mix(Stray(s, d))
      /\ UNCHANGED <<vk, held, device, detour, before>> /\ pc[t] = "frames"
  BY DEF StoreFrames
<1>2. s \in Index /\ call[t].op \in {"tap", "down", "up", "release"} /\ (call[t].op = "tap" => call[t].frames > 0)
  BY <1>1, CallFields DEF PlaceInv
<1>3. \/ Releases(t) /\ GoTo(t, "up", s) /\ pressed' = pressed
      \/ ~Releases(t) /\ Leave(t, call[t].op) /\ pressed' = [pressed EXCEPT ![d] = FALSE]
  BY DEF StoreFrames
<1>4. CASE d = c
  <2> SUFFICES ASSUME ~mixed[c] PROVE CodeInv(c)'
    BY <1>1, <1>4, StrayKeeps DEF CodeInv
  <2>1. Alone(c) /\ One(c) /\ CallInv(t, c)
    BY DEF CodeInv
  <2>2. One(c)'
    BY <1>1, <2>1 DEF One
  <2>3. CASE Releases(t) /\ GoTo(t, "up", s) /\ pressed' = pressed
    <3>1. /\ Others(t) /\ pc'[t] = "up" /\ call'[t].slot = s
          /\ call'[t].op = call[t].op /\ call'[t].code = c
      BY <1>2, <1>4, <2>3, GoToEffect
    <3>2. call[t].op = "release" => Vacant(c)'
      BY <1>1, <1>4, <2>1 DEF CallInv, Vacant
    <3>3. call[t].op # "release" => vk'[s] = c
      BY <1>1, <1>4, <2>1 DEF CallInv
    <3>4. CallInv(t, c)'
      BY <3>1, <3>2, <3>3 DEF CallInv
    <3> QED
      BY <1>1, <1>4, <2>1, <2>2, <3>1, <3>4, CallGoesOn
  <2>4. CASE ~Releases(t) /\ Leave(t, call[t].op) /\ pressed' = [pressed EXCEPT ![d] = FALSE]
    <3>1. Others(t) /\ call'[t].code # c /\ asked'[c] = call[t].op
      BY <1>4, <2>4, LeaveEffect
    <3>2. call[t].op \in {"tap", "down"}
      BY <1>2, <2>4 DEF Releases
    <3>3. vk'[s] = c /\ held'[s] = (call[t].op = "down")
      BY <1>1, <1>4, <2>1, <3>2 DEF CallInv
    <3>4. ~Vacant(c)'
      BY <1>2, <3>3 DEF Vacant
    <3>5. \A r \in Index : vk'[r] = c => r = s
      BY <1>1, <1>2, <2>1, <3>3 DEF One
    <3>6. frames'[s] = call[t].frames
      BY <1>1, <1>2 DEF TableOK
    <3>7. call[t].op = "tap" => \A r \in Index : vk'[r] = c => ~held'[r] /\ Seen(c, r)'
      BY <1>2, <3>3, <3>5, <3>6 DEF Seen
    <3>8. call[t].op = "down" => \E r \in Index : vk'[r] = c /\ held'[r]
      BY <1>2, <3>3
    <3>9. Rests(c)'
      BY <3>1, <3>2, <3>4, <3>7, <3>8 DEF Rests
    <3> QED
      BY <1>1, <1>4, <2>1, <2>2, <3>1, <3>9, CallEnds
  <2> QED
    BY <1>3, <2>3, <2>4
<1>5. CASE d # c
  <2> SUFFICES ASSUME vk[s] # c PROVE CodeInv(c)'
    BY <1>1, <1>5, StrayMixes DEF CodeInv
  <2>1. \A r \in Index : vk[r] = c => frames'[r] = frames[r]
    BY <1>1 DEF TableOK
  <2>2. Others(t) /\ call'[t].code # c /\ asked'[c] = asked[c] /\ pressed'[c] = pressed[c]
    <3>1. CASE Releases(t) /\ GoTo(t, "up", s) /\ pressed' = pressed
      BY <1>2, <1>5, <3>1, GoToEffect DEF GoTo
    <3>2. CASE ~Releases(t) /\ Leave(t, call[t].op) /\ pressed' = [pressed EXCEPT ![d] = FALSE]
      <4>1. Others(t) /\ call'[t].code = 0 /\ asked'[c] = asked[c]
        BY <1>5, <3>2, LeaveEffect
      <4>2. pressed'[c] = pressed[c]
        BY <1>5, <3>2 DEF HistoryOK
      <4> QED
        BY <4>1, <4>2, InputConstants
    <3> QED
      BY <1>3, <3>1, <3>2
  <2>3. SameSlots(c) /\ SameKeys(c)
    BY <1>1, <2>1, <2>2 DEF SameSlots, SameKeys, device
  <2>4. SameCalls(c) /\ (mixed[c] => mixed'[c])
    BY <1>1, <1>5, <2>2, NotAtWork, StrayMixes
  <2> QED
    BY <1>1, <2>3, <2>4, StillPoll, Untouched
<1> QED
  BY <1>4, <1>5

LEMMA SendUpCode ==
  ASSUME InputInv, NEW t \in Threads, NEW c \in Codes, SendUp(t)
  PROVE  CodeInv(c)'
<1> USE Known
<1> DEFINE d == call[t].code
           s == call[t].slot
<1>1. /\ pc[t] = "up" /\ call[t].op = "up" /\ Send(d, FALSE) /\ GoTo(t, "free", s)
      /\ UNCHANGED <<table, current, detour, pressed, mixed, before>>
  BY DEF SendUp
<1>2. s \in Index /\ d \in Codes
  <2>1. s \in Index /\ d \in Codes \cup {0}
    BY CallFields
  <2>2. d # 0
    BY <1>1 DEF PlaceInv
  <2> QED
    BY <2>1, <2>2
<1>3. /\ Others(t) /\ pc'[t] = "free" /\ call'[t].slot = s
      /\ call'[t].op = call[t].op /\ call'[t].code = d /\ asked' = asked
  <2>1. asked' = asked
    BY <1>1 DEF GoTo
  <2> HIDE DEF d, s
  <2>2. /\ Others(t) /\ pc'[t] = "free" /\ call'[t].slot = s
        /\ call'[t].op = call[t].op /\ call'[t].code = call[t].code
    BY <1>1, <1>2, GoToEffect
  <2> QED
    BY <2>1, <2>2 DEF d
<1>4. incoming'[d] = FALSE /\ (c # d => incoming'[c] = incoming[c])
  BY <1>1, <1>2, SendTypes
<1>5. CASE d = c
  <2> SUFFICES ASSUME ~mixed[c] PROVE CodeInv(c)'
    BY <1>1 DEF CodeInv
  <2>1. Alone(c) /\ One(c) /\ CallInv(t, c)
    BY DEF CodeInv
  <2>2. One(c)' /\ vk'[s] = c
    BY <1>1, <1>5, <2>1 DEF One, CallInv, table
  <2>3. CallInv(t, c)'
    BY <1>1, <1>3, <1>4, <1>5, <2>2 DEF CallInv
  <2> QED
    BY <1>1, <1>3, <1>5, <2>1, <2>2, <2>3, CallGoesOn
<1>6. CASE d # c
  <2>1. SameCalls(c)
    BY <1>3, <1>6, NotAtWork
  <2>2. SameSlots(c) /\ SameKeys(c)
    BY <1>1, <1>3, <1>4, <1>6 DEF SameSlots, SameKeys, table
  <2> QED
    BY <1>1, <2>1, <2>2, StillPoll, Untouched
<1> QED
  BY <1>5, <1>6

LEMMA FreeSlotCode ==
  ASSUME InputInv, NEW t \in Threads, NEW c \in Codes, FreeSlot(t)
  PROVE  CodeInv(c)'
<1> USE Known
<1> DEFINE d == call[t].code
           s == call[t].slot
<1>1. /\ vk' = [vk EXCEPT ![s] = 0] /\ Mix(Stray(s, d)) /\ Leave(t, "up")
      /\ UNCHANGED <<frames, held, device, detour, pressed, before>> /\ pc[t] = "free"
  BY DEF FreeSlot
<1>2. s \in Index /\ call[t].op = "up"
  BY <1>1, CallFields DEF PlaceInv
<1>3. Others(t) /\ call'[t].code = 0 /\ asked'[c] = IF c = d THEN "up" ELSE asked[c]
  BY <1>1, LeaveEffect
<1>4. \A r \in Index : vk'[r] = IF r = s THEN 0 ELSE vk[r]
  BY <1>1 DEF TableOK
<1>5. CASE d = c
  <2> SUFFICES ASSUME ~mixed[c] PROVE CodeInv(c)'
    BY <1>1, <1>5, StrayKeeps DEF CodeInv
  <2>1. Alone(c) /\ One(c) /\ vk[s] = c /\ ~incoming[c]
    BY <1>1, <1>2, <1>5 DEF CodeInv, CallInv
  <2>2. Vacant(c)'
    BY <1>2, <1>4, <2>1 DEF Vacant, One
  <2>3. One(c)'
    BY <2>2 DEF Vacant, One
  <2>4. Rests(c)'
    BY <1>1, <1>3, <1>5, <2>1, <2>2 DEF Rests, device
  <2> QED
    BY <1>1, <1>3, <1>5, <2>1, <2>3, <2>4, CallEnds
<1>6. CASE d # c
  <2> SUFFICES ASSUME vk[s] # c PROVE CodeInv(c)'
    BY <1>1, <1>6, StrayMixes DEF CodeInv
  <2>1. SameSlots(c) /\ SameKeys(c)
    BY <1>1, <1>3, <1>4, <1>6 DEF SameSlots, SameKeys, device
  <2>2. SameCalls(c) /\ (mixed[c] => mixed'[c])
    BY <1>1, <1>3, <1>6, NotAtWork, StrayMixes
  <2> QED
    BY <1>1, <2>1, <2>2, StillPoll, Untouched
<1> QED
  BY <1>5, <1>6

LEMMA ReleaseAllCode ==
  ASSUME InputInv, NEW t \in Threads, NEW c \in Codes, release_all(t)
  PROVE  CodeInv(c)'
<1> USE Known
<1> DEFINE entry == [NoCall EXCEPT !.op = "release"]
<1>1. /\ pc[t] = "ready" /\ pc' = [pc EXCEPT ![t] = "swap"] /\ call' = [call EXCEPT ![t] = entry]
      /\ UNCHANGED <<table, device, detour, history>>
  BY DEF release_all
<1>2. entry.code = 0
  BY DEF NoCall
<1> HIDE DEF entry
<1>3. Others(t) /\ call'[t].code = 0 /\ call[t].code = 0
  BY <1>1, <1>2 DEF ThreadsOK, Others, PlaceInv
<1>4. SameCalls(c)
  BY <1>3, NotAtWork
<1>5. SameSlots(c) /\ SameKeys(c) /\ (mixed[c] => mixed'[c])
  BY <1>1 DEF SameSlots, SameKeys, table, device, history
<1> QED
  BY <1>1, <1>4, <1>5, StillPoll, Untouched

LEMMA SwapCode ==
  ASSUME InputInv, NEW t \in Threads, NEW c \in Codes, Swap(t)
  PROVE  CodeInv(c)'
<1> USE Known
<1> DEFINE s == call[t].slot
           k == vk[s]
<1>1. pc[t] = "swap" /\ UNCHANGED <<frames, held, device, detour, asked, pressed, before>>
  BY DEF Swap
<1>2. s \in Index /\ k \in Codes \cup {0} /\ call[t].code = 0 /\ call[t].op = "release"
  BY <1>1, CallFields DEF TableOK, PlaceInv
<1>3. CASE k = 0
  <2>1. NextSwap(t, s) /\ vk' = vk /\ mixed' = mixed
    BY <1>3 DEF Swap
  <2>2. Others(t) /\ call'[t].code = 0
    BY <1>2, <2>1, NextSwapEffect
  <2>3. SameCalls(c)
    BY <1>2, <2>2, NotAtWork
  <2>4. SameSlots(c) /\ SameKeys(c)
    BY <1>1, <2>1 DEF SameSlots, SameKeys, device
  <2> QED
    BY <1>1, <2>1, <2>3, <2>4, StillPoll, Untouched
<1>4. CASE k # 0
  <2>1. /\ vk' = [vk EXCEPT ![s] = 0] /\ pc' = [pc EXCEPT ![t] = "held"] /\ call' = [call EXCEPT ![t].code = k]
        /\ mixed' = [mixed EXCEPT ![k] = mixed[k] \/ ~Quiet(k) \/ Cardinality(SlotsOf(k)) > 1]
    BY <1>4 DEF Swap
  <2>2. \A r \in Index : vk'[r] = IF r = s THEN 0 ELSE vk[r]
    BY <2>1 DEF TableOK
  <2>3. vk[s] = k
    OBVIOUS
  <2> HIDE DEF k
  <2>4. Others(t) /\ call'[t] = [call[t] EXCEPT !.code = k] /\ pc'[t] = "held"
    BY <2>1 DEF ThreadsOK, Others
  <2>5. call'[t].code = k /\ call'[t].op = "release"
    BY <1>2, <2>4, CallFields DEF CallType
  <2>6. CASE c = k
    <3> SUFFICES ASSUME ~mixed'[c] PROVE CodeInv(c)'
      BY DEF CodeInv
    <3>1. Quiet(c) /\ One(c)
      BY <2>1, <2>6, AtMostOne DEF HistoryOK
    <3>2. Vacant(c)'
      BY <1>2, <2>2, <2>3, <2>6, <3>1 DEF Vacant, One
    <3>3. One(c)'
      BY <3>2 DEF Vacant, One
    <3>4. poll'.vk # c /\ \A u \in Threads : u # t => call'[u].code # c
      BY <1>1, <2>4, <3>1 DEF Quiet, Calling, Polling, Others, detour
    <3>5. Alone(c)' /\ PollInv(c)' /\ RestInv(c)'
      BY <2>4, <2>5, <2>6, <3>4 DEF Alone, PollInv, RestInv
    <3>6. \A u \in Threads : CallInv(u, c)'
      BY <2>5, <3>2, <3>4 DEF CallInv
    <3> QED
      BY <3>3, <3>5, <3>6 DEF CodeInv
  <2>7. CASE c # k
    <3>1. SameCalls(c)
      BY <1>2, <2>4, <2>5, <2>7, NotAtWork
    <3>2. SameSlots(c) /\ SameKeys(c)
      BY <1>1, <2>2, <2>3, <2>7 DEF SameSlots, SameKeys, device
    <3>3. mixed[c] => mixed'[c]
      BY <2>1, <2>7 DEF HistoryOK
    <3> QED
      BY <1>1, <3>1, <3>2, <3>3, StillPoll, Untouched
  <2> QED
    BY <2>6, <2>7
<1> QED
  BY <1>3, <1>4

LEMMA SendNarrowCode ==
  ASSUME InputInv, NEW t \in Threads, NEW c \in Codes, SendNarrow(t)
  PROVE  CodeInv(c)'
<1> USE Known
<1> DEFINE d == call[t].code
<1>1. /\ pc[t] = "up" /\ call[t].op = "release" /\ Send(Narrow(d), FALSE) /\ NextSwap(t, call[t].slot)
      /\ asked' = [asked EXCEPT ![d] = IF Narrow(d) = d THEN "dropped" ELSE "narrowed"] /\ Mix({Narrow(d)} \ {d})
      /\ UNCHANGED <<table, current, detour, pressed, before>>
  BY DEF SendNarrow
<1>2. call[t].slot \in Index /\ d \in Codes
  <2>1. call[t].slot \in Index /\ d \in Codes \cup {0}
    BY CallFields
  <2>2. d # 0
    BY <1>1 DEF PlaceInv
  <2> QED
    BY <2>1, <2>2
<1>3. Others(t) /\ call'[t].code = 0
  BY <1>1, <1>2, NextSwapEffect
<1>4. Narrow(d) \in Inputs
  BY <1>2, InputConstants
<1>5. incoming'[Narrow(d)] = FALSE /\ (c # Narrow(d) => incoming'[c] = incoming[c])
  BY <1>1, <1>4, SendTypes
<1>6. mixed'[c] = (mixed[c] \/ c \in {Narrow(d)} \ {d})
  BY <1>1, MixTypes
<1>7. CASE d = c
  <2> SUFFICES ASSUME ~mixed[c] PROVE CodeInv(c)'
    BY <1>6, <1>7 DEF CodeInv
  <2>1. Alone(c) /\ One(c) /\ Vacant(c)
    BY <1>1, <1>7 DEF CodeInv, CallInv
  <2>2. Vacant(c)' /\ One(c)'
    BY <1>1, <2>1 DEF Vacant, One, table
  <2>3. asked'[c] = IF Narrow(c) = c THEN "dropped" ELSE "narrowed"
    BY <1>1, <1>7 DEF HistoryOK
  <2>4. Narrow(c) = c => ~incoming'[c]
    BY <1>5, <1>7
  <2>6. Narrow(c) # c => c \in Mouse
    BY InputConstants, SyntheticInputAssumption DEF Narrow, Mouse
  <2>5. Rests(c)'
    BY <2>2, <2>3, <2>4, <2>6 DEF Rests
  <2> QED
    BY <1>1, <1>3, <1>7, <2>1, <2>2, <2>5, CallEnds
<1>8. CASE d # c
  <2> SUFFICES ASSUME c # Narrow(d) PROVE CodeInv(c)'
    BY <1>6, <1>8 DEF CodeInv
  <2>1. SameCalls(c)
    BY <1>3, <1>8, NotAtWork
  <2>2. asked'[c] = asked[c]
    BY <1>1, <1>8 DEF HistoryOK
  <2>3. SameSlots(c) /\ SameKeys(c)
    BY <1>1, <1>5, <2>2 DEF SameSlots, SameKeys, table
  <2>4. mixed[c] => mixed'[c]
    BY <1>6
  <2> QED
    BY <1>1, <2>1, <2>3, <2>4, StillPoll, Untouched
<1> QED
  BY <1>7, <1>8

LEMMA ClearMouseCode ==
  ASSUME InputInv, NEW c \in Codes, ClearMouse
  PROVE  CodeInv(c)'
<1> USE Known
<1> DEFINE t == "command"
<1>1. /\ pc[t] = "mouse" /\ pc' = [pc EXCEPT ![t] = "ready"] /\ call' = [call EXCEPT ![t] = NoCall]
      /\ incoming' = [i \in Inputs |-> incoming[i] /\ i \notin Mouse]
      /\ Mix({k \in Mouse : SlotsOf(k) # {} \/ ~Quiet(k)})
      /\ asked' = [k \in Codes |-> IF k \in Mouse /\ asked[k] = "narrowed" THEN "dropped" ELSE asked[k]]
      /\ UNCHANGED <<table, detour, calls, pressed, before>>
  BY DEF ClearMouse
<1>2. t \in Threads /\ NoCall.code = 0
  BY DEF Threads, NoCall
<1> HIDE DEF t
<1>3. Others(t) /\ call'[t].code = 0 /\ call[t].code = 0
  BY <1>1, <1>2 DEF ThreadsOK, Others, PlaceInv
<1>4. mixed'[c] = (mixed[c] \/ c \in {k \in Mouse : SlotsOf(k) # {} \/ ~Quiet(k)})
  BY <1>1, MixTypes
<1>5. SameCalls(c)
  BY <1>2, <1>3, NotAtWork
<1>6. CASE c \in Mouse
  <2> SUFFICES ASSUME ~mixed[c], SlotsOf(c) = {}, Quiet(c) PROVE CodeInv(c)'
    BY <1>4, <1>6 DEF CodeInv
  <2>1. Vacant(c)
    BY DEF Vacant, SlotsOf
  <2>2. poll.vk # c /\ \A u \in Threads : call[u].code # c
    BY DEF Quiet, Calling, Polling
  <2>3. Rests(c)
    BY <2>2 DEF CodeInv, RestInv
  <2>4. ~incoming'[c]
    BY <1>1, <1>6
  <2>5. poll'.vk # c /\ \A u \in Threads : call'[u].code # c
    BY <1>1, <1>5, <2>2 DEF SameCalls, detour
  <2>6. Vacant(c)' /\ One(c)'
    BY <1>1, <2>1 DEF Vacant, One, table
  <2>7. asked'[c] = (IF asked[c] = "narrowed" THEN "dropped" ELSE asked[c]) /\ pressed'[c] = pressed[c]
    BY <1>1, <1>6
  <2>8. Rests(c)'
    BY <2>1, <2>3, <2>4, <2>6, <2>7 DEF Rests, Vacant
  <2> QED
    BY <2>5, <2>6, <2>8 DEF CodeInv, Alone, CallInv, PollInv, RestInv
<1>7. CASE c \notin Mouse
  <2>1. incoming'[c] = incoming[c]
    BY <1>1, <1>7 DEF DeviceOK
  <2>3. asked'[c] = asked[c]
    BY <1>1, <1>7
  <2>2. SameSlots(c) /\ SameKeys(c)
    BY <1>1, <2>1, <2>3 DEF SameSlots, SameKeys, table
  <2> QED
    BY <1>1, <1>4, <1>5, <2>2, StillPoll, Untouched
<1> QED
  BY <1>6, <1>7

LEMMA GoneCode ==
  ASSUME InputInv, NEW c \in Codes, Gone
  PROVE  CodeInv(c)'
<1> USE Known
<1> DEFINE t == "unload"
<1>1. /\ pc[t] = "ready" /\ pc' = [pc EXCEPT ![t] = "gone"]
      /\ UNCHANGED <<table, device, call, calls, detour, history>>
  BY DEF Gone
<1>2. t \in Threads
  BY DEF Threads
<1> HIDE DEF t
<1>3. Others(t) /\ call'[t].code = 0 /\ call[t].code = 0
  BY <1>1, <1>2 DEF ThreadsOK, Others, PlaceInv
<1>4. SameCalls(c)
  BY <1>2, <1>3, NotAtWork
<1>5. SameSlots(c) /\ SameKeys(c) /\ (mixed[c] => mixed'[c])
  BY <1>1 DEF SameSlots, SameKeys, table, device, history
<1> QED
  BY <1>1, <1>4, <1>5, StillPoll, Untouched

-----------------------------------------------------------------------------
(* Game input: the steps of the poll *)

\* A step of the poll leaves every code alone that it is not at.
LEMMA OtherPoll ==
  ASSUME InputInv, NEW c \in Codes, UNCHANGED threads, poll.vk # c, poll'.vk # c, PollGoesOn,
         mixed[c] => mixed'[c], SameSlots(c), SameKeys(c)
  PROVE  CodeInv(c)'
<1>1. SameCalls(c) /\ SamePoll(c)
  BY DEF threads, SameCalls, SamePoll
<1> QED
  BY <1>1, Known, Untouched

\* What holds of the code that the poll is at.
LEMMA AtThePoll ==
  ASSUME InputInv, poll.vk \in Codes, ~mixed[poll.vk]
  PROVE  /\ \A t \in Threads : call[t].code # poll.vk
         /\ One(poll.vk) /\ PollInv(poll.vk) /\ Rests(poll.vk) /\ vk[poll.slot] = poll.vk
<1>1. CodeInv(poll.vk)
  BY Known
<1>2. One(poll.vk) /\ PollInv(poll.vk) /\ RestInv(poll.vk) /\ \A t \in Threads : call[t].code # poll.vk
  BY <1>1 DEF CodeInv, Alone
<1> QED
  BY <1>2 DEF PollInv, RestInv

\* A slot that is not held is a tap's.
LEMMA IsTap ==
  ASSUME InputInv, poll.vk \in Codes, ~mixed[poll.vk], ppc \in {"count", "press", "left", "release", "free"}
  PROVE  /\ asked[poll.vk] = "tap" /\ poll.slot \in Index /\ ~held[poll.slot]
         /\ \A r \in Index : vk[r] = poll.vk => r = poll.slot
<1> DEFINE c == poll.vk
<1>1. One(c) /\ PollInv(c) /\ Rests(c) /\ vk[poll.slot] = c
  BY AtThePoll
<1>2. poll.slot \in Index
  BY Known, PollFields
<1>3. ~held[poll.slot]
  BY <1>1 DEF PollInv
<1>4. \A r \in Index : vk[r] = c => r = poll.slot
  BY <1>1, <1>2 DEF One
<1>5. ~Vacant(c)
  BY <1>1, <1>2 DEF Vacant
<1>6. asked[c] # "down"
  BY <1>1, <1>3, <1>4 DEF Rests
<1>7. asked[c] \in {"nothing", "tap", "down", "up", "dropped", "narrowed"}
  BY Known DEF HistoryOK
<1> HIDE DEF c
<1>8. asked[c] = "tap"
  BY <1>1, <1>5, <1>6, <1>7 DEF Rests
<1> QED
  BY <1>2, <1>3, <1>4, <1>8 DEF c

LEMMA PollDetourCode ==
  ASSUME InputInv, NEW c \in Codes, poll_detour
  PROVE  CodeInv(c)'
<1> USE Known
<1>1. ppc = "idle" /\ ppc' = "load" /\ UNCHANGED <<table, device, threads, poll, history>>
  BY DEF poll_detour
<1>2. poll.vk = 0 /\ poll'.vk = 0
  BY <1>1 DEF PlaceInv
<1>3. PollGoesOn
  BY <1>1 DEF PollGoesOn, Past
<1>4. SameSlots(c) /\ SameKeys(c) /\ (mixed[c] => mixed'[c])
  BY <1>1 DEF SameSlots, SameKeys, table, device, history
<1> QED
  BY <1>1, <1>2, <1>3, <1>4, OtherPoll

LEMMA LoadSlotCode ==
  ASSUME InputInv, NEW c \in Codes, LoadSlot
  PROVE  CodeInv(c)'
<1> USE Known
<1> DEFINE k == vk[poll.slot]
<1>1. ppc = "load" /\ poll.vk = 0 /\ UNCHANGED <<table, device, threads, asked, pressed, before>>
  BY DEF LoadSlot, PlaceInv
<1>2. SameSlots(c) /\ SameKeys(c)
  BY <1>1 DEF SameSlots, SameKeys, table, device
<1>3. CASE k = 0
  <2>1. NextPoll /\ mixed' = mixed
    BY <1>3 DEF LoadSlot
  <2>2. poll'.vk = 0 /\ PollGoesOn
    BY <1>1, <2>1, NextPollEffect DEF PollGoesOn
  <2> QED
    BY <1>1, <1>2, <2>1, <2>2, OtherPoll
<1>4. CASE k # 0
  <2>1. ppc' = "held" /\ poll' = [poll EXCEPT !.vk = k] /\ Mix({d \in {k} : ~Quiet(k)})
    BY <1>4 DEF LoadSlot
  <2>2. vk[poll.slot] = k
    OBVIOUS
  <2> HIDE DEF k
  <2>3. poll'.vk = k /\ poll'.slot = poll.slot
    BY <2>1 DEF DetourOK, PollType
  <2>4. PollGoesOn
    BY <1>1, <2>1, <2>3 DEF PollGoesOn, Past
  <2>5. mixed'[c] = (mixed[c] \/ c \in {d \in {k} : ~Quiet(k)})
    BY <2>1, MixTypes
  <2>6. CASE c = k
    <3> SUFFICES ASSUME ~mixed[c], Quiet(c) PROVE CodeInv(c)'
      BY <2>5, <2>6 DEF CodeInv
    <3>1. \A t \in Threads : call[t].code # c
      BY DEF Quiet, Calling
    <3>2. One(c) /\ Rests(c)
      BY <3>1 DEF CodeInv, RestInv
    <3>3. One(c)'
      BY <1>1, <3>2 DEF One, table
    <3>4. Rests(c)'
      BY <1>2, <2>4, <3>2, StaysAtRest
    <3>5. PollInv(c)'
      BY <1>1, <2>1, <2>2, <2>3, <2>6 DEF PollInv, table
    <3> QED
      BY <1>1, <3>1, <3>3, <3>4, <3>5, PollKeeps
  <2>7. CASE c # k
    BY <1>1, <1>2, <2>3, <2>4, <2>5, <2>7, OtherPoll
  <2> QED
    BY <2>6, <2>7
<1> QED
  BY <1>3, <1>4

LEMMA LoadHeldCode ==
  ASSUME InputInv, NEW c \in Codes, LoadHeld
  PROVE  CodeInv(c)'
<1> USE Known
<1>1. /\ ppc = "held" /\ ppc' = IF held[poll.slot] THEN "assert" ELSE "count"
      /\ UNCHANGED <<table, device, threads, poll, history>>
  BY DEF LoadHeld
<1>2. PollGoesOn
  BY <1>1 DEF PollGoesOn, Past
<1>3. SameSlots(c) /\ SameKeys(c) /\ mixed' = mixed
  BY <1>1 DEF SameSlots, SameKeys, table, device, history
<1>4. CASE poll.vk = c
  <2> SUFFICES ASSUME ~mixed[c] PROVE CodeInv(c)'
    BY <1>3 DEF CodeInv
  <2>1. /\ \A t \in Threads : call[t].code # c
        /\ One(c) /\ Rests(c) /\ vk[poll.slot] = c
    BY <1>4, AtThePoll
  <2>2. One(c)'
    BY <1>1, <2>1 DEF One, table
  <2>3. Rests(c)'
    BY <1>2, <1>3, <2>1, StaysAtRest
  <2>4. held[poll.slot] \in BOOLEAN
    BY PollFields DEF TableOK
  <2>5. PollInv(c)'
    BY <1>1, <2>1, <2>4 DEF PollInv, table
  <2> QED
    BY <1>1, <2>1, <2>2, <2>3, <2>5, PollKeeps
<1>5. CASE poll.vk # c
  BY <1>1, <1>2, <1>3, <1>5, OtherPoll
<1> QED
  BY <1>4, <1>5

LEMMA AssertCode ==
  ASSUME InputInv, NEW c \in Codes, Assert
  PROVE  CodeInv(c)'
<1> USE Known
<1>1. ppc = "assert" /\ Send(poll.vk, TRUE) /\ NextPoll /\ UNCHANGED <<table, current, threads, history>>
  BY DEF Assert
<1>2. poll'.vk = 0 /\ PollGoesOn
  BY <1>1, NextPollEffect DEF PollGoesOn
<1>3. poll.vk \in Codes /\ poll.slot \in Index
  BY <1>1, PollFields DEF PlaceInv
<1>4. incoming'[poll.vk] = TRUE /\ (c # poll.vk => incoming'[c] = incoming[c])
  BY <1>1, <1>3, SendTypes
<1>5. SameSlots(c) /\ mixed' = mixed
  BY <1>1 DEF SameSlots, table, history
<1>6. CASE poll.vk = c
  <2> SUFFICES ASSUME ~mixed[c] PROVE CodeInv(c)'
    BY <1>5 DEF CodeInv
  <2>1. /\ \A t \in Threads : call[t].code # c
        /\ One(c) /\ Rests(c) /\ vk[poll.slot] = c /\ PollInv(c)
    BY <1>6, AtThePoll
  <2>2. One(c)'
    BY <1>1, <2>1 DEF One, table
  <2>3. held[poll.slot]
    BY <1>1, <1>6, <2>1 DEF PollInv
  <2>4. asked[c] \in {"nothing", "tap", "down", "up", "dropped", "narrowed"}
    BY DEF HistoryOK
  <2>5. asked[c] = "down"
    BY <1>3, <2>1, <2>3, <2>4 DEF Rests, Vacant
  <2>6. Rests(c)'
    BY <1>1, <1>3, <2>1, <2>3, <2>5 DEF Rests, table, history
  <2>7. PollInv(c)'
    BY <1>2 DEF PollInv
  <2> QED
    BY <1>1, <2>1, <2>2, <2>6, <2>7, PollKeeps
<1>7. CASE poll.vk # c
  <2>1. SameKeys(c)
    BY <1>1, <1>4, <1>7 DEF SameKeys, history
  <2> QED
    BY <1>1, <1>2, <1>5, <1>7, <2>1, OtherPoll
<1> QED
  BY <1>6, <1>7

LEMMA LoadFramesCode ==
  ASSUME InputInv, NEW c \in Codes, LoadFrames
  PROVE  CodeInv(c)'
<1> USE Known
<1>1. /\ ppc = "count" /\ poll' = [poll EXCEPT !.left = frames[poll.slot]] /\ UNCHANGED <<table, device, threads, history>>
      /\ ppc' = IF frames[poll.slot] > 0 THEN "press" ELSE "release"
  BY DEF LoadFrames
<1>2. poll'.vk = poll.vk /\ poll'.slot = poll.slot
  BY <1>1 DEF DetourOK, PollType
<1>3. PollGoesOn
  BY <1>1, <1>2 DEF PollGoesOn, Past
<1>4. SameSlots(c) /\ SameKeys(c) /\ mixed' = mixed
  BY <1>1 DEF SameSlots, SameKeys, table, device, history
<1>5. CASE poll.vk = c
  <2> SUFFICES ASSUME ~mixed[c] PROVE CodeInv(c)'
    BY <1>4 DEF CodeInv
  <2>1. /\ \A t \in Threads : call[t].code # c
        /\ One(c) /\ Rests(c) /\ vk[poll.slot] = c
    BY <1>5, AtThePoll
  <2>2. asked[c] = "tap" /\ poll.slot \in Index /\ ~held[poll.slot]
    BY <1>1, <1>5, IsTap
  <2>3. One(c)'
    BY <1>1, <2>1 DEF One, table
  <2>4. Rests(c)'
    BY <1>3, <1>4, <2>1, StaysAtRest
  <2>5. Seen(c, poll.slot)
    BY <2>1, <2>2 DEF Rests
  <2>6. poll.slot \in Nat
    BY <2>2, InputConstants
  <2>7. ~Past(poll.slot)
    BY <1>1, <2>6 DEF Past
  <2>8. ppc' = "release" => pressed[c]
    BY <1>1, <2>5, <2>7 DEF Seen
  <2>9. PollInv(c)'
    <3>1. /\ vk'[poll'.slot] = c /\ ~held'[poll'.slot] /\ ppc' \in {"press", "release"}
          /\ pressed'[c] = pressed[c]
      BY <1>1, <1>2, <2>1, <2>2 DEF table, history
    <3>2. held'[poll'.slot] \in BOOLEAN
      BY <1>1, <1>2, <2>2 DEF table, TableOK
    <3> QED
      BY <2>8, <3>1, <3>2 DEF PollInv
  <2> QED
    BY <1>1, <2>1, <2>3, <2>4, <2>9, PollKeeps
<1>6. CASE poll.vk # c
  BY <1>1, <1>2, <1>3, <1>4, <1>6, OtherPoll
<1> QED
  BY <1>5, <1>6

LEMMA PressCode ==
  ASSUME InputInv, NEW c \in Codes, Press
  PROVE  CodeInv(c)'
<1> USE Known
<1>1. ppc = "press" /\ ppc' = "left" /\ Send(poll.vk, TRUE) /\ UNCHANGED <<table, current, threads, poll, history>>
  BY DEF Press
<1>2. poll.vk \in Codes /\ poll.slot \in Index
  BY <1>1, PollFields DEF PlaceInv
<1>3. incoming'[poll.vk] = TRUE /\ (c # poll.vk => incoming'[c] = incoming[c])
  BY <1>1, <1>2, SendTypes
<1>4. PollGoesOn
  BY <1>1 DEF PollGoesOn, Past
<1>5. SameSlots(c) /\ mixed' = mixed
  BY <1>1 DEF SameSlots, table, history
<1>6. CASE poll.vk = c
  <2> SUFFICES ASSUME ~mixed[c] PROVE CodeInv(c)'
    BY <1>5 DEF CodeInv
  <2>1. /\ \A t \in Threads : call[t].code # c
        /\ One(c) /\ Rests(c) /\ vk[poll.slot] = c
    BY <1>6, AtThePoll
  <2>2. asked[c] = "tap" /\ ~held[poll.slot] /\ \A r \in Index : vk[r] = c => r = poll.slot
    BY <1>1, <1>6, IsTap
  <2>3. One(c)'
    BY <1>1, <2>1 DEF One, table
  <2>4. Seen(c, poll.slot)
    BY <1>2, <2>1, <2>2 DEF Rests
  <2>5. pressed'[c] \/ frames'[poll.slot] > 0 \/ (incoming'[c] /\ Past(poll.slot)')
    BY <1>1, <1>2, <1>3, <1>4, <1>6, <2>4 DEF Seen, PollGoesOn, table, history
  <2>6. Rests(c)'
    BY <1>1, <1>2, <2>1, <2>2, <2>5 DEF Rests, Seen, Vacant, table, history
  <2>7. held[poll.slot] \in BOOLEAN
    BY <1>2 DEF TableOK
  <2>8. PollInv(c)'
    BY <1>1, <1>3, <1>6, <2>1, <2>2, <2>7 DEF PollInv, table
  <2> QED
    BY <1>1, <2>1, <2>3, <2>6, <2>8, PollKeeps
<1>7. CASE poll.vk # c
  <2>1. SameKeys(c)
    BY <1>1, <1>3, <1>7 DEF SameKeys, history
  <2> QED
    BY <1>1, <1>4, <1>5, <1>7, <2>1, OtherPoll
<1> QED
  BY <1>6, <1>7

LEMMA CountDownCode ==
  ASSUME InputInv, NEW c \in Codes, CountDown
  PROVE  CodeInv(c)'
<1> USE Known
<1>1. /\ ppc = "left" /\ frames' = [frames EXCEPT ![poll.slot] = poll.left - 1] /\ NextPoll
      /\ Mix(Stray(poll.slot, poll.vk)) /\ UNCHANGED <<vk, held, device, threads, asked, pressed, before>>
  BY DEF CountDown
<1>2. poll.vk \in Codes /\ poll.slot \in Index
  BY <1>1, PollFields DEF PlaceInv
<1>3. poll'.vk = 0 /\ \A s \in Index : Past(s) \/ s = poll.slot => Past(s)'
  BY <1>1, NextPollEffect
<1>4. CASE poll.vk = c
  <2> SUFFICES ASSUME ~mixed[c] PROVE CodeInv(c)'
    BY <1>1, <1>4, StrayKeeps DEF CodeInv
  <2>1. /\ \A t \in Threads : call[t].code # c
        /\ One(c) /\ PollInv(c) /\ vk[poll.slot] = c
    BY <1>4, AtThePoll
  <2>2. asked[c] = "tap" /\ ~held[poll.slot] /\ \A r \in Index : vk[r] = c => r = poll.slot
    BY <1>1, <1>4, IsTap
  <2>3. One(c)'
    BY <1>1, <2>1 DEF One
  <2>4. incoming'[c] /\ asked'[c] = "tap"
    BY <1>1, <1>4, <2>1, <2>2 DEF PollInv, device
  <2>5. vk'[poll.slot] = c /\ ~held'[poll.slot] /\ \A r \in Index : vk'[r] = c => r = poll.slot
    BY <1>1, <2>1, <2>2
  <2>6. Rests(c)'
    BY <1>2, <1>3, <2>4, <2>5 DEF Rests, Seen, Vacant
  <2>7. PollInv(c)'
    BY <1>2, <1>3 DEF PollInv
  <2> QED
    BY <1>1, <2>1, <2>3, <2>6, <2>7, PollKeeps
<1>5. CASE poll.vk # c
  <2> SUFFICES ASSUME vk[poll.slot] # c PROVE CodeInv(c)'
    BY <1>1, <1>5, StrayMixes DEF CodeInv
  <2>1. \A r \in Index : vk[r] = c => frames'[r] = frames[r]
    BY <1>1 DEF TableOK
  <2>2. SameSlots(c) /\ SameKeys(c)
    BY <1>1, <2>1 DEF SameSlots, SameKeys, device
  <2>3. poll'.vk # c /\ PollGoesOn /\ (mixed[c] => mixed'[c])
    BY <1>1, <1>3, <1>5, StrayMixes DEF PollGoesOn
  <2> QED
    BY <1>1, <1>5, <2>2, <2>3, OtherPoll
<1> QED
  BY <1>4, <1>5

LEMMA ReleaseCode ==
  ASSUME InputInv, NEW c \in Codes, Release
  PROVE  CodeInv(c)'
<1> USE Known
<1>1. ppc = "release" /\ ppc' = "free" /\ Send(poll.vk, FALSE) /\ UNCHANGED <<table, current, threads, poll, history>>
  BY DEF Release
<1>2. poll.vk \in Codes /\ poll.slot \in Index
  BY <1>1, PollFields DEF PlaceInv
<1>3. incoming'[poll.vk] = FALSE /\ (c # poll.vk => incoming'[c] = incoming[c])
  BY <1>1, <1>2, SendTypes
<1>4. PollGoesOn
  BY <1>1 DEF PollGoesOn, Past
<1>5. SameSlots(c) /\ mixed' = mixed
  BY <1>1 DEF SameSlots, table, history
<1>6. CASE poll.vk = c
  <2> SUFFICES ASSUME ~mixed[c] PROVE CodeInv(c)'
    BY <1>5 DEF CodeInv
  <2>1. /\ \A t \in Threads : call[t].code # c
        /\ One(c) /\ PollInv(c) /\ vk[poll.slot] = c
    BY <1>6, AtThePoll
  <2>2. asked[c] = "tap" /\ ~held[poll.slot] /\ \A r \in Index : vk[r] = c => r = poll.slot
    BY <1>1, <1>6, IsTap
  <2>3. One(c)'
    BY <1>1, <2>1 DEF One, table
  <2>4. pressed'[c] /\ asked'[c] = "tap"
    BY <1>1, <1>6, <2>1, <2>2 DEF PollInv, history
  <2>5. vk'[poll.slot] = c /\ ~held'[poll.slot] /\ \A r \in Index : vk'[r] = c => r = poll.slot
    BY <1>1, <2>1, <2>2 DEF table
  <2>6. Rests(c)'
    BY <1>2, <2>4, <2>5 DEF Rests, Seen, Vacant
  <2>7. held[poll.slot] \in BOOLEAN
    BY <1>2 DEF TableOK
  <2>8. PollInv(c)'
    BY <1>1, <1>3, <1>6, <2>1, <2>2, <2>4, <2>7 DEF PollInv, table
  <2> QED
    BY <1>1, <2>1, <2>3, <2>6, <2>8, PollKeeps
<1>7. CASE poll.vk # c
  <2>1. SameKeys(c)
    BY <1>1, <1>3, <1>7 DEF SameKeys, history
  <2> QED
    BY <1>1, <1>4, <1>5, <1>7, <2>1, OtherPoll
<1> QED
  BY <1>6, <1>7

LEMMA FreeTapCode ==
  ASSUME InputInv, NEW c \in Codes, FreeTap
  PROVE  CodeInv(c)'
<1> USE Known
<1>1. /\ ppc = "free" /\ vk' = [vk EXCEPT ![poll.slot] = 0] /\ NextPoll
      /\ Mix(Stray(poll.slot, poll.vk)) /\ UNCHANGED <<frames, held, device, threads, asked, pressed, before>>
  BY DEF FreeTap
<1>2. poll.vk \in Codes /\ poll.slot \in Index
  BY <1>1, PollFields DEF PlaceInv
<1>3. poll'.vk = 0 /\ PollGoesOn
  BY <1>1, NextPollEffect DEF PollGoesOn
<1>4. \A r \in Index : vk'[r] = IF r = poll.slot THEN 0 ELSE vk[r]
  BY <1>1 DEF TableOK
<1>5. CASE poll.vk = c
  <2> SUFFICES ASSUME ~mixed[c] PROVE CodeInv(c)'
    BY <1>1, <1>5, StrayKeeps DEF CodeInv
  <2>1. /\ \A t \in Threads : call[t].code # c
        /\ One(c) /\ PollInv(c) /\ vk[poll.slot] = c
    BY <1>5, AtThePoll
  <2>2. asked[c] = "tap" /\ \A r \in Index : vk[r] = c => r = poll.slot
    BY <1>1, <1>5, IsTap
  <2>3. Vacant(c)'
    BY <1>2, <1>4, <2>2 DEF Vacant
  <2>4. One(c)'
    BY <2>3 DEF Vacant, One
  <2>5. pressed'[c] /\ ~incoming'[c] /\ asked'[c] = "tap"
    BY <1>1, <1>5, <2>1, <2>2 DEF PollInv, device
  <2>6. Rests(c)'
    BY <2>3, <2>5 DEF Rests, Vacant
  <2>7. PollInv(c)'
    BY <1>2, <1>3 DEF PollInv
  <2> QED
    BY <1>1, <2>1, <2>4, <2>6, <2>7, PollKeeps
<1>6. CASE poll.vk # c
  <2> SUFFICES ASSUME vk[poll.slot] # c PROVE CodeInv(c)'
    BY <1>1, <1>6, StrayMixes DEF CodeInv
  <2>1. SameSlots(c) /\ SameKeys(c)
    BY <1>1, <1>4 DEF SameSlots, SameKeys, device
  <2>2. poll'.vk # c /\ (mixed[c] => mixed'[c])
    BY <1>1, <1>3, <1>6, StrayMixes
  <2> QED
    BY <1>1, <1>3, <1>6, <2>1, <2>2, OtherPoll
<1> QED
  BY <1>5, <1>6

\* The engine has now seen what the device has, which is what a tap whose frames are over counted on.
LEMMA ShiftCode ==
  ASSUME InputInv, NEW c \in Codes, Shift
  PROVE  CodeInv(c)'
<1> USE Known
<1>1. /\ ppc = "shift" /\ ppc' = "idle" /\ poll.vk = 0 /\ pressed' = [k \in Codes |-> pressed[k] \/ incoming[k]]
      /\ UNCHANGED <<table, incoming, threads, poll, asked, mixed, before>>
  BY DEF Shift, PlaceInv
<1> SUFFICES ASSUME ~mixed[c] PROVE CodeInv(c)'
  BY <1>1 DEF CodeInv
<1>2. Alone(c) /\ One(c) /\ (\A t \in Threads : CallInv(t, c)) /\ RestInv(c)
  BY DEF CodeInv
<1>3. Alone(c)' /\ One(c)' /\ PollInv(c)'
  BY <1>1, <1>2 DEF Alone, One, PollInv, table, threads
<1>4. \A t \in Threads : CallInv(t, c)'
  BY <1>1, <1>2 DEF CallInv, Vacant, table, threads
<1>5. pressed'[c] = (pressed[c] \/ incoming[c])
  BY <1>1
<1>6. ASSUME Rests(c) PROVE Rests(c)'
  <2>1. \A s \in Index : Seen(c, s) => Seen(c, s)'
    BY <1>1, <1>5 DEF Seen, table
  <2>2. asked[c] = "tap" => \A s \in Index : vk[s] = c => ~held[s] /\ Seen(c, s)'
    BY <1>6, <2>1 DEF Rests
  <2> QED
    BY <1>1, <1>5, <1>6, <2>2 DEF Rests, Vacant, table
<1>7. RestInv(c)'
  BY <1>1, <1>2, <1>6 DEF RestInv, threads
<1> QED
  BY <1>3, <1>4, <1>7 DEF CodeInv

-----------------------------------------------------------------------------
(* Game input: the theorems *)

LEMMA CodeInit == InputInit => PlaceInv /\ AllCodes
<1> SUFFICES ASSUME InputInit PROVE PlaceInv /\ AllCodes
  OBVIOUS
<1>1. \A t \in Threads : call[t] = NoCall /\ pc[t] = "ready"
  BY DEF InputInit
<1>2. NoCall.code = 0 /\ NoCall.op = "none" /\ NoPoll.vk = 0
  BY DEF NoCall, NoPoll
<1>3. poll.vk = 0 /\ ppc = "idle"
  BY <1>2 DEF InputInit
<1>4. PlaceInv
  BY <1>1, <1>2, <1>3 DEF PlaceInv
<1>5. ASSUME NEW c \in Codes PROVE CodeInv(c)
  <2>1. c # 0
    BY InputConstants
  <2>2. Vacant(c) /\ One(c)
    BY <2>1 DEF InputInit, Vacant, One
  <2>3. Alone(c) /\ PollInv(c) /\ \A t \in Threads : CallInv(t, c)
    BY <1>1, <1>2, <1>3, <2>1 DEF Alone, PollInv, CallInv
  <2>4. asked[c] = "nothing"
    BY DEF InputInit
  <2>6. ~incoming[c]
    BY InputConstants DEF InputInit
  <2>5. RestInv(c)
    BY <2>2, <2>4, <2>6 DEF RestInv, Rests
  <2> QED
    BY <2>2, <2>3, <2>5 DEF CodeInv
<1> QED
  BY <1>4, <1>5 DEF AllCodes

LEMMA CodeStep ==
  ASSUME InputInv, [InputNext]_input_vars
  PROVE  AllCodes'
<1> SUFFICES ASSUME NEW c \in Codes PROVE CodeInv(c)'
  BY DEF AllCodes
<1>1. ASSUME NEW t \in Threads, Call(t) PROVE CodeInv(c)'
  BY <1>1, TapCode, HoldCode, FindCode, ClaimCode, StoreHeldCode, StoreFramesCode, SendUpCode, FreeSlotCode,
     ReleaseAllCode, SwapCode, SendNarrowCode DEF Call
<1>2. ASSUME Poll PROVE CodeInv(c)'
  BY <1>2, PollDetourCode, LoadSlotCode, LoadHeldCode, AssertCode, LoadFramesCode, PressCode, CountDownCode,
     ReleaseCode, FreeTapCode, ShiftCode DEF Poll
<1>3. CASE UNCHANGED input_vars
  <2>1. UNCHANGED <<table, device, threads, detour, history>>
    BY <1>3 DEF input_vars
  <2>2. SameSlots(c) /\ SameKeys(c) /\ SameCalls(c) /\ mixed' = mixed
    BY <2>1 DEF SameSlots, SameKeys, SameCalls, table, device, threads, history
  <2> QED
    BY <2>1, <2>2, Known, StillPoll, Untouched
<1> QED
  BY <1>1, <1>2, <1>3, ClearMouseCode, GoneCode DEF InputNext

\* The inductive invariant of the game input.
THEOREM InputInvariance == InputSpec => []InputInv
<1>1. InputInit => InputInv
  BY InputTypeInit, CodeInit DEF InputInv, AllCodes
<1>2. InputInv /\ [InputNext]_input_vars => InputInv'
  <2> SUFFICES ASSUME InputInv, [InputNext]_input_vars PROVE InputInv'
    OBVIOUS
  <2>1. InputTypeOK' /\ PlaceInv' /\ AllCodes'
    BY InputTypeStep, PlaceStep, CodeStep
  <2> QED
    BY <2>1 DEF InputInv, AllCodes
<1> QED
  BY <1>1, <1>2, PTL DEF InputSpec

\* The table, the device's banks, the calls and the poll have their types.
THEOREM InputTypeCorrect == InputSpec => []InputTypeOK
<1>1. InputInv => InputTypeOK
  BY DEF InputInv
<1> QED
  BY <1>1, InputInvariance, PTL

\* A code that nobody interferes with has one slot at most, and is held, tapped or let go as the last call asked
\* that was not turned away; a mouse button that release_all let go may be down until the route clears the buttons.
THEOREM TableAsAsked == InputSpec => []TableAgrees
<1>1. InputInv => TableAgrees
  <2> SUFFICES ASSUME InputInv, NEW c \in Codes, Quiet(c), ~mixed[c]
               PROVE  Cardinality(SlotsOf(c)) <= 1 /\ AsAsked(c)
    BY DEF TableAgrees
  <2>1. One(c) /\ Rests(c)
    BY Known DEF CodeInv, RestInv, Quiet, Calling
  <2>2. IsFiniteSet(SlotsOf(c))
    <3>1. IsFiniteSet(Index)
      BY InputConstants, FS_Interval DEF Index
    <3> QED
      BY <3>1, FS_Subset DEF SlotsOf
  <2>3. Cardinality(SlotsOf(c)) <= 1
    BY <2>1, <2>2, FS_CardinalityType, AtMostOne
  <2>4. SlotsOf(c) = {} <=> Vacant(c)
    BY DEF SlotsOf, Vacant
  <2>5. \A s : s \in SlotsOf(c) <=> s \in Index /\ vk[s] = c
    BY DEF SlotsOf
  <2>6. asked[c] \in {"nothing", "tap", "down", "up", "dropped", "narrowed"}
    BY Known DEF HistoryOK
  <2>7. asked[c] = "down" => \E s \in SlotsOf(c) : held[s]
    BY <2>1, <2>5 DEF Rests
  <2>8. asked[c] = "tap" => IF SlotsOf(c) # {} THEN \A s \in SlotsOf(c) : ~held[s] ELSE pressed[c] /\ ~incoming[c]
    BY <2>1, <2>4, <2>5 DEF Rests
  <2>9. AsAsked(c)
    BY <2>1, <2>4, <2>6, <2>7, <2>8 DEF AsAsked, Rests
  <2> QED
    BY <2>3, <2>9
<1> QED
  BY <1>1, InputInvariance, PTL

=============================================================================
