-------------------------------- MODULE Bones --------------------------------
(***************************************************************************)
(* BoneControl: callbacks that the engine holds for nodes of the player's  *)
(* skeleton, one per slot, and their removal before the image goes.        *)
(*                                                                         *)
(* The game's thread links and unlinks in on_frame; VR, later in the same  *)
(* frame, asks for the hands; the command thread asks for anything; the    *)
(* thread that unloads takes out what is left. The engine's list of the    *)
(* player's object is a set of cells; another object may come at the same  *)
(* address, with an empty list. What the callback does to a transform is   *)
(* not here.                                                               *)
(***************************************************************************)
EXTENDS Integers, FiniteSets

CONSTANTS
  kSlots,           \* slots; a hand has the slot of its number
  Nodes, Addresses,
  MaxRequests,      \* bound: requests of the command thread
  MaxPlayers        \* bound: times the player's object is replaced

ASSUME BonesAssumption ==
  /\ kSlots \in Nat \ {0}
  /\ Nodes \cap {"none"} = {} /\ Addresses \cap {"none"} = {}
  /\ MaxRequests \in Nat /\ MaxPlayers \in Nat

VARIABLES
  player, players,  \* the address of the player's object, or "none"
  cells,            \* the engine's list
  want_attached, attached, node, pending_node, model,
  gpc, gslot, seen, \* on_frame: where, for which slot, and what it has read
  hands, hand_attached, driving,
  request, requests,\* the command thread's call, and how many it has made
  phase, sslot,     \* the unload, and the slot that is being shut down
  lost,             \* slots whose cell went with the object or with slot 0's
  raced             \* slots wanted again, or still, past their withdrawal

slots == <<want_attached, attached, node, pending_node, model>>
engine == <<player, players, cells, lost>>
frame == <<gpc, gslot, seen>>
vr == <<hands, hand_attached, driving>>
command == <<request, requests>>
unload == <<phase, sslot, raced>>
vars == <<slots, engine, frame, vr, command, unload>>

Slots == 0..kSlots - 1
Hands == Slots \cap {0, 1}
Models == Addresses \cup {"none"}
Unseen == [want |-> FALSE, have |-> FALSE, want_node |-> "none", have_node |-> "none"]
NoRequest == [slot |-> 0, node |-> "none"]

TypeOK ==
  /\ player \in Models /\ players \in 0..MaxPlayers
  /\ cells \subseteq [node : Nodes, slot : Slots] /\ (player = "none" => cells = {})
  /\ want_attached \in [Slots -> BOOLEAN] /\ attached \in [Slots -> BOOLEAN]
  /\ node \in [Slots -> Nodes \cup {"none"}] /\ pending_node \in [Slots -> Nodes \cup {"none"}]
  /\ model \in [Slots -> Models]
  /\ gpc \in {"engine", "read", "unlink", "clear", "wish", "link", "commit", "vr", "drive"}
  /\ gslot \in Slots
  /\ seen.want \in BOOLEAN /\ seen.have \in BOOLEAN
  /\ hands \in BOOLEAN /\ driving \in BOOLEAN /\ hand_attached \subseteq Hands
  /\ request \in [slot : Slots, node : Nodes \cup {"none"}] /\ requests \in 0..MaxRequests
  /\ phase \in {"live", "withdraw", "remove", "forget", "others", "retire", "retired", "unmapped"}
  /\ sslot \in Slots
  /\ lost \subseteq Slots /\ raced \subseteq Slots

Init ==
  /\ player \in Models /\ players = 0 /\ cells = {} /\ lost = {}
  /\ want_attached = [s \in Slots |-> FALSE] /\ attached = [s \in Slots |-> FALSE]
  /\ node = [s \in Slots |-> "none"] /\ pending_node = [s \in Slots |-> "none"]
  /\ model = [s \in Slots |-> "none"]
  /\ gpc = "engine" /\ gslot = 0 /\ seen = Unseen
  /\ hands = FALSE /\ hand_attached = {} /\ driving = FALSE
  /\ request = NoRequest /\ requests = 0
  /\ phase = "live" /\ sslot = 0 /\ raced = {}

-----------------------------------------------------------------------------
(* The engine's list *)

Cell(n, s) == [node |-> n, slot |-> s]

\* The slot's number is the tag of its cell, and a tag of zero matches every cell of the callback.
Matching(n, s) == {c \in cells : c.node = n /\ (s = 0 \/ c.slot = s)}

\* An object that is not the player's any more cannot be read, or its list is not there: nothing is removed.
remove(object, n, s) ==
  LET gone == IF object = player /\ object # "none" THEN Matching(n, s) ELSE {} IN
  /\ cells' = cells \ gone
  /\ lost' = lost \cup {c.slot : c \in {d \in gone : d.slot # s}}
  /\ UNCHANGED <<player, players>>

add(n, s) ==
  /\ cells' = cells \cup {Cell(n, s)} /\ lost' = lost \ {s}
  /\ UNCHANGED <<player, players>>

\* Between frames: another level, a death, a load.
NewPlayer ==
  /\ gpc = "engine" /\ phase # "unmapped"
  /\ players < MaxPlayers /\ players' = players + 1
  /\ player' \in Models
  /\ cells' = {} /\ lost' = lost \cup {c.slot : c \in cells}
  /\ UNCHANGED <<slots, frame, vr, command, unload>>

-----------------------------------------------------------------------------
(* on_frame, for each slot *)

GStep(from, to) == gpc = from /\ gpc' = to

BeginFrame ==
  /\ phase \notin {"retired", "unmapped"}
  /\ GStep("engine", "read") /\ gslot' = 0
  /\ UNCHANGED <<slots, engine, seen, vr, command, unload>>

ReadSlot ==
  LET now == [want |-> want_attached[gslot], have |-> attached[gslot],
              want_node |-> pending_node[gslot], have_node |-> node[gslot]]
      leave == now.have /\ (~now.want \/ now.want_node # now.have_node) IN
  /\ GStep("read", IF leave THEN "unlink" ELSE "wish")
  /\ seen' = now
  /\ UNCHANGED <<slots, engine, gslot, vr, command, unload>>

\* Fault: the callback is taken off the node that is wanted, not off the one that has it.
Unlink_TheWantedNode ==
  /\ GStep("unlink", "clear")
  /\ remove(model[gslot], seen.want_node, gslot)
  /\ UNCHANGED <<slots, gslot, seen, vr, command, unload>>

Unlink ==
  /\ GStep("unlink", "clear")
  /\ remove(model[gslot], seen.have_node, gslot)
  /\ UNCHANGED <<slots, gslot, seen, vr, command, unload>>

Clear ==
  /\ GStep("clear", "wish")
  /\ attached' = [attached EXCEPT ![gslot] = FALSE]
  /\ model' = [model EXCEPT ![gslot] = "none"]
  /\ UNCHANGED <<want_attached, node, pending_node, engine, gslot, seen, vr, command, unload>>

\* Fault: one slot too many.
NextSlot_OnePast ==
  /\ IF gslot + 1 <= kSlots THEN gpc' = "read" /\ gslot' = gslot + 1 ELSE gpc' = "vr" /\ gslot' = 0
  /\ seen' = Unseen

NextSlot ==
  /\ IF gslot + 1 \in Slots THEN gpc' = "read" /\ gslot' = gslot + 1 ELSE gpc' = "vr" /\ gslot' = 0
  /\ seen' = Unseen

Wish ==
  /\ gpc = "wish"
  /\ IF seen.want /\ ~attached[gslot] /\ player # "none"
     THEN gpc' = "link" /\ model' = [model EXCEPT ![gslot] = player] /\ UNCHANGED <<gslot, seen>>
     ELSE NextSlot /\ UNCHANGED model
  /\ UNCHANGED <<want_attached, attached, node, pending_node, engine, vr, command, unload>>

\* The engine refuses: no such node, or no memory.
LinkFails ==
  /\ gpc = "link" /\ NextSlot
  /\ model' = [model EXCEPT ![gslot] = "none"]
  /\ UNCHANGED <<want_attached, attached, node, pending_node, engine, vr, command, unload>>

Link ==
  /\ GStep("link", "commit")
  /\ add(seen.want_node, gslot)
  /\ UNCHANGED <<slots, gslot, seen, vr, command, unload>>

Commit ==
  /\ gpc = "commit" /\ NextSlot
  /\ node' = [node EXCEPT ![gslot] = seen.want_node]
  /\ attached' = [attached EXCEPT ![gslot] = TRUE]
  /\ UNCHANGED <<want_attached, pending_node, model, engine, vr, command, unload>>

-----------------------------------------------------------------------------
(* VR::on_frame *)

ReadHands ==
  /\ GStep("vr", "drive")
  /\ driving' = hands
  /\ UNCHANGED <<slots, engine, gslot, seen, hands, hand_attached, command, unload>>

Withdrawn == {s \in Slots : phase # "live" /\ (s < sslot \/ (s = sslot /\ phase # "withdraw"))}

\* The hands that are tracked and not yet attached are asked for; the next frame links them.
drive_hand ==
  /\ GStep("drive", "engine")
  /\ \E active \in SUBSET Hands :
       LET asked == IF driving /\ player # "none" THEN active \ hand_attached ELSE {} IN
       \E n \in Nodes :
         /\ pending_node' = [s \in Slots |-> IF s \in asked THEN n ELSE pending_node[s]]
         /\ want_attached' = [s \in Slots |-> s \in asked \/ want_attached[s]]
         /\ hand_attached' = hand_attached \cup asked
         /\ raced' = raced \cup (asked \cap Withdrawn)
  /\ driving' = FALSE
  /\ UNCHANGED <<attached, node, model, engine, gslot, seen, hands, command, phase, sslot>>

Game ==
  \/ NewPlayer \/ BeginFrame \/ ReadSlot \/ Unlink \/ Clear \/ Wish \/ LinkFails \/ Link \/ Commit
  \/ ReadHands \/ drive_hand

-----------------------------------------------------------------------------
(* The command thread *)

MakeRequest ==
  /\ phase = "live" /\ request = NoRequest
  /\ requests < MaxRequests /\ requests' = requests + 1

attach_to_player_node ==
  /\ MakeRequest
  /\ \E s \in Slots, n \in Nodes :
       /\ pending_node' = [pending_node EXCEPT ![s] = n]
       /\ request' = [slot |-> s, node |-> n]
  /\ UNCHANGED <<want_attached, attached, node, model, engine, frame, vr, unload>>

AttachWanted ==
  /\ request # NoRequest /\ request' = NoRequest
  /\ want_attached' = [want_attached EXCEPT ![request.slot] = TRUE]
  /\ UNCHANGED <<attached, node, pending_node, model, engine, frame, vr, requests, unload>>

detach ==
  /\ MakeRequest
  /\ \E s \in Slots : want_attached' = [want_attached EXCEPT ![s] = FALSE]
  /\ UNCHANGED <<attached, node, pending_node, model, engine, frame, vr, request, unload>>

HandsOff ==
  /\ hands' = FALSE /\ hand_attached' = {}
  /\ want_attached' = [s \in Slots |-> want_attached[s] /\ s \notin Hands]

set_hands_enabled ==
  /\ MakeRequest
  /\ HandsOff \/ (hands' = TRUE /\ UNCHANGED <<hand_attached, want_attached>>)
  /\ UNCHANGED <<attached, node, pending_node, model, engine, frame, driving, request, unload>>

Command == attach_to_player_node \/ AttachWanted \/ detach \/ set_hands_enabled

-----------------------------------------------------------------------------
(* The unload: the command server, BoneControl's slots, the other mods, the hooks, the image *)

To(from, to) == phase = from /\ phase' = to

BeginShutdown ==
  /\ To("live", "withdraw") /\ request = NoRequest
  /\ UNCHANGED <<slots, engine, frame, vr, command, sslot, raced>>

NextShutdown ==
  IF sslot + 1 \in Slots THEN phase' = "withdraw" /\ sslot' = sslot + 1 ELSE phase' = "others" /\ sslot' = sslot

\* on_frame has read the wish of this slot and not yet left it.
StillWanted == gpc \in {"unlink", "clear", "wish", "link", "commit"} /\ gslot = sslot /\ seen.want

WithdrawTo(wanted) ==
  /\ phase = "withdraw"
  /\ want_attached' = [want_attached EXCEPT ![sslot] = wanted]
  /\ IF attached[sslot] THEN phase' = "remove" /\ sslot' = sslot ELSE NextShutdown
  /\ raced' = IF StillWanted THEN raced \cup {sslot} ELSE raced
  /\ UNCHANGED <<attached, node, pending_node, model, engine, frame, vr, command>>

\* Fault: what is attached is taken out, and goes on being wanted.
Withdraw_KeepsTheWish == WithdrawTo(want_attached[sslot])

Withdraw == WithdrawTo(FALSE)

TakeOut ==
  /\ To("remove", "forget")
  /\ remove(model[sslot], node[sslot], sslot)
  /\ UNCHANGED <<slots, frame, vr, command, sslot, raced>>

Forget ==
  /\ phase = "forget" /\ NextShutdown
  /\ attached' = [attached EXCEPT ![sslot] = FALSE]
  /\ model' = [model EXCEPT ![sslot] = "none"]
  /\ UNCHANGED <<want_attached, node, pending_node, engine, frame, vr, command, raced>>

VRShutdown ==
  /\ To("others", "retire") /\ HandsOff
  /\ UNCHANGED <<attached, node, pending_node, model, engine, frame, driving, command, sslot, raced>>

RetireHooks ==
  /\ To("retire", "retired")
  /\ UNCHANGED <<slots, engine, frame, vr, command, sslot, raced>>

Unmap ==
  /\ To("retired", "unmapped") /\ gpc = "engine"
  /\ UNCHANGED <<slots, engine, frame, vr, command, sslot, raced>>

Shutdown == BeginShutdown \/ Withdraw \/ TakeOut \/ Forget \/ VRShutdown \/ RetireHooks \/ Unmap

Next == Game \/ Command \/ Shutdown
Spec == Init /\ [][Next]_vars

-----------------------------------------------------------------------------
LinkedTo(s) == {c.node : c \in {d \in cells : d.slot = s}}
Busy(s) == gpc \in {"clear", "commit"} /\ gslot = s

(* The engine's list and the slots agree, but for the slot on_frame is at: *)
(* a slot that is attached has one cell, on the node it remembers, and one *)
(* that is not has none. Requests in between, another player's object and  *)
(* the cells slot 0 takes with its own do not leave a cell no slot knows.  *)
ListAgrees ==
  phase = "live" =>
    \A s \in Slots : ~Busy(s) =>
      LinkedTo(s) = IF attached[s] /\ s \notin lost THEN {node[s]} ELSE {}

(* When the image is unmapped the engine holds no callback into it, unless *)
(* the slot was wanted by a frame, or asked for by VR, after its shutdown. *)
GoneBeforeTheImage ==
  phase = "unmapped" => \A c \in cells : c.slot \in raced
=============================================================================
