---------------------------- MODULE SyntheticInput ----------------------------
(***************************************************************************)
(* SyntheticInput: the table of keys the mod holds down or taps. The       *)
(* game's thread (VR, WeaponWheel, MenuInput), the command server and the  *)
(* thread that unloads change it without a lock; the detour of the         *)
(* engine's device poll, on the game's thread, carries it into the input   *)
(* device. The look delta and the wheel, which are only added to and       *)
(* drained, are not here, nor is a device that is missing.                 *)
(***************************************************************************)
EXTENDS Integers, FiniteSets

CONSTANTS
  kMaxKeys,         \* slots of the table
  kMouseButtonBase, \* the codes from here on are mouse buttons
  Codes,            \* keys and buttons
  MaxFrames,        \* bound: frames a tap may ask for
  MaxCalls          \* bound: calls

ASSUME SyntheticInputAssumption ==
  /\ kMaxKeys \in Nat \ {0} /\ kMouseButtonBase \in Nat \ {0}
  /\ Codes \subseteq Nat \ {0} /\ IsFiniteSet(Codes)
  /\ MaxFrames \in Nat \ {0} /\ MaxCalls \in Nat

VARIABLES
  vk, frames, held,        \* g_slots
  incoming, current,       \* the device's two banks: what is down
  pc, call,                \* each thread, and the call it is in
  ppc, poll,               \* apply_pending on the game's thread
  calls,
  asked, pressed,          \* history, for each code: the last call that did something, that a tap was seen,
  mixed, before            \* interference, and the interference before the call under way

table == <<vk, frames, held>>
device == <<incoming, current>>
threads == <<pc, call, calls>>
detour == <<ppc, poll>>
history == <<asked, pressed, mixed, before>>
input_vars == <<table, device, threads, detour, history>>

Threads == {"game", "command", "unload"}
Index == 0 .. kMaxKeys - 1
Mouse == {c \in Codes : c >= kMouseButtonBase}

\* release_all's static_cast<uint8_t>.
Narrow(c) == c % kMouseButtonBase
Inputs == Codes \cup {Narrow(c) : c \in Codes}

NoCall == [op |-> "none", code |-> 0, frames |-> 0, slot |-> 0]
NoPoll == [slot |-> 0, vk |-> 0, left |-> 0]

InputTypeOK ==
  /\ vk \in [Index -> Codes \cup {0}] /\ frames \in [Index -> 0 .. MaxFrames] /\ held \in [Index -> BOOLEAN]
  /\ {incoming, current} \subseteq [Inputs -> BOOLEAN]
  /\ pc \in [Threads -> {"ready", "find", "claim", "held", "frames", "up", "free", "swap", "mouse", "gone"}]
  /\ call \in [Threads -> [op : {"none", "tap", "down", "up", "release"}, code : Codes \cup {0},
                           frames : 0 .. MaxFrames, slot : Index]]
  /\ ppc \in {"idle", "load", "held", "assert", "count", "press", "left", "release", "free", "shift"}
  /\ poll \in [slot : Index, vk : Codes \cup {0}, left : 0 .. MaxFrames]
  /\ calls \in 0 .. MaxCalls
  /\ asked \in [Codes -> {"nothing", "tap", "down", "up", "dropped", "narrowed"}]
  /\ {pressed, mixed, before} \subseteq [Codes -> BOOLEAN]

InputInit ==
  /\ vk = [s \in Index |-> 0] /\ frames = [s \in Index |-> 0] /\ held = [s \in Index |-> FALSE]
  /\ incoming = [i \in Inputs |-> FALSE] /\ current = [i \in Inputs |-> FALSE]
  /\ pc = [t \in Threads |-> "ready"] /\ call = [t \in Threads |-> NoCall] /\ calls = 0
  /\ ppc = "idle" /\ poll = NoPoll
  /\ asked = [c \in Codes |-> "nothing"] /\ pressed = [c \in Codes |-> FALSE]
  /\ mixed = [c \in Codes |-> FALSE] /\ before = [c \in Codes |-> FALSE]

-----------------------------------------------------------------------------
(* Who is at work on a code, and what counts as interference *)

SlotsOf(c) == {s \in Index : vk[s] = c}
Calling(c) == {t \in Threads : call[t].code = c}
Polling(c) == poll.vk = c
Quiet(c) == Calling(c) = {} /\ ~Polling(c)

Mix(cs) == mixed' = [c \in Codes |-> mixed[c] \/ c \in cs]

\* A store of a thread at work on c, in slot s: the slot may be another code's by now.
Stray(s, c) == {vk[s]} \ {0, c}

Send(i, down) == incoming' = [incoming EXCEPT ![i] = down]

-----------------------------------------------------------------------------
(* tap and hold *)

Unloading == call["unload"].op # "none" \/ pc["unload"] = "gone"

\* Who may call: on_frame between two polls, the command server until it is stopped, VR's shutdown.
MayCall(t) ==
  /\ pc[t] = "ready" /\ calls < MaxCalls
  /\ CASE t = "game" -> ppc = "idle" /\ pc["unload"] # "gone"
       [] t = "command" -> ~Unloading
       [] t = "unload" -> call["unload"].op # "none"

Enter(t, c, request) ==
  /\ pc' = [pc EXCEPT ![t] = "find"] /\ call' = [call EXCEPT ![t] = request] /\ calls' = calls + 1
  /\ mixed' = [mixed EXCEPT ![c] = ~Quiet(c) \/ Cardinality(SlotsOf(c)) > 1]
  /\ before' = [before EXCEPT ![c] = mixed[c]]
  /\ UNCHANGED <<table, device, detour, asked, pressed>>

\* Fault: a tap for no frames stays one for none.
AtLeastOne_Not(n) == n

AtLeastOne(n) == IF n = 0 THEN 1 ELSE n

tap(t) ==
  /\ MayCall(t) /\ t # "unload"
  /\ \E c \in Codes, n \in 0 .. MaxFrames :
       Enter(t, c, [op |-> "tap", code |-> c, frames |-> AtLeastOne(n), slot |-> 0])

hold(t) ==
  /\ MayCall(t)
  /\ \E c \in Codes, down \in BOOLEAN :
       /\ t = "unload" => ~down
       /\ Enter(t, c, [op |-> IF down THEN "down" ELSE "up", code |-> c, frames |-> 0, slot |-> 0])

\* The thread's call is over, and has asked for what.
Leave(t, what) ==
  /\ pc' = [pc EXCEPT ![t] = "ready"]
  /\ call' = [call EXCEPT ![t] = [NoCall EXCEPT !.op = IF t = "unload" THEN "up" ELSE "none"]]
  /\ asked' = [asked EXCEPT ![call[t].code] = what]
  /\ UNCHANGED calls

\* The call was turned away: its code is as the last call before it left it.
TurnedAway(t) ==
  LET c == call[t].code IN Leave(t, asked[c]) /\ Mix({d \in {c} : before[d]})

GoTo(t, next, s) ==
  /\ pc' = [pc EXCEPT ![t] = next] /\ call' = [call EXCEPT ![t].slot = s]
  /\ UNCHANGED <<calls, asked>>

\* The first slot in the scan that has c.
First(c) == CHOOSE s \in SlotsOf(c) : \A r \in SlotsOf(c) : s <= r

\* Letting go of a code that has no slot does nothing.
find_slot(t) ==
  /\ pc[t] = "find"
  /\ LET c == call[t].code IN
     CASE SlotsOf(c) # {} -> GoTo(t, "held", First(c)) /\ UNCHANGED mixed
       [] SlotsOf(c) = {} /\ call[t].op # "up" -> GoTo(t, "claim", 0) /\ UNCHANGED mixed
       [] SlotsOf(c) = {} /\ call[t].op = "up" -> TurnedAway(t)
  /\ UNCHANGED <<table, device, detour, pressed, before>>

\* A table without a free slot refuses a tap, and drops a hold without a word.
claim_slot(t) ==
  /\ pc[t] = "claim"
  /\ IF SlotsOf(0) # {}
     THEN vk' = [vk EXCEPT ![First(0)] = call[t].code] /\ GoTo(t, "held", First(0)) /\ UNCHANGED mixed
     ELSE TurnedAway(t) /\ UNCHANGED vk
  /\ UNCHANGED <<frames, held, device, detour, pressed, before>>

StoreHeld(t) ==
  /\ pc[t] = "held"
  /\ LET s == call[t].slot IN
     /\ held' = [held EXCEPT ![s] = (call[t].op = "down")]
     /\ Mix(Stray(s, call[t].code)) /\ GoTo(t, "frames", s)
  /\ UNCHANGED <<vk, frames, device, detour, pressed, before>>

Releases(t) == call[t].op \in {"up", "release"}

StoreFrames(t) ==
  /\ pc[t] = "frames"
  /\ LET s == call[t].slot IN
     /\ frames' = [frames EXCEPT ![s] = call[t].frames]
     /\ Mix(Stray(s, call[t].code))
     /\ IF Releases(t)
        THEN GoTo(t, "up", s) /\ UNCHANGED pressed
        ELSE Leave(t, call[t].op) /\ pressed' = [pressed EXCEPT ![call[t].code] = FALSE]
  /\ UNCHANGED <<vk, held, device, detour, before>>

SendUp(t) ==
  /\ pc[t] = "up" /\ call[t].op = "up"
  /\ Send(call[t].code, FALSE) /\ GoTo(t, "free", call[t].slot)
  /\ UNCHANGED <<table, current, detour, pressed, mixed, before>>

FreeSlot(t) ==
  /\ pc[t] = "free"
  /\ vk' = [vk EXCEPT ![call[t].slot] = 0]
  /\ Mix(Stray(call[t].slot, call[t].code)) /\ Leave(t, "up")
  /\ UNCHANGED <<frames, held, device, detour, pressed, before>>

-----------------------------------------------------------------------------
(* release_all *)

release_all(t) ==
  /\ pc[t] = "ready"
  /\ \/ t = "command" /\ ~Unloading /\ calls < MaxCalls /\ calls' = calls + 1
     \/ t = "unload" /\ ~Unloading /\ pc["command"] = "ready" /\ UNCHANGED calls
  /\ pc' = [pc EXCEPT ![t] = "swap"] /\ call' = [call EXCEPT ![t] = [NoCall EXCEPT !.op = "release"]]
  /\ UNCHANGED <<table, device, detour, history>>

\* On to the next slot, or out; the route of the command server then lets the buttons go.
NextSwap(t, s) ==
  /\ call' = [call EXCEPT ![t] =
       IF s + 1 < kMaxKeys THEN [NoCall EXCEPT !.op = "release", !.slot = s + 1]
       ELSE [NoCall EXCEPT !.op = IF t = "command" THEN "release" ELSE "up"]]
  /\ pc' = [pc EXCEPT ![t] = CASE s + 1 < kMaxKeys -> "swap"
                               [] s + 1 = kMaxKeys -> IF t = "command" THEN "mouse" ELSE "ready"]
  /\ UNCHANGED calls

Swap(t) ==
  /\ pc[t] = "swap"
  /\ LET s == call[t].slot
         c == vk[s] IN
     IF c = 0
     THEN NextSwap(t, s) /\ UNCHANGED <<vk, mixed>>
     ELSE /\ vk' = [vk EXCEPT ![s] = 0]
          /\ pc' = [pc EXCEPT ![t] = "held"] /\ call' = [call EXCEPT ![t].code = c]
          /\ mixed' = [mixed EXCEPT ![c] = @ \/ ~Quiet(c) \/ Cardinality(SlotsOf(c)) > 1]
          /\ UNCHANGED calls
  /\ UNCHANGED <<frames, held, device, detour, asked, pressed, before>>

SendNarrow(t) ==
  /\ pc[t] = "up" /\ call[t].op = "release"
  /\ LET c == call[t].code IN
     /\ Send(Narrow(c), FALSE) /\ NextSwap(t, call[t].slot)
     /\ asked' = [asked EXCEPT ![c] = IF Narrow(c) = c THEN "dropped" ELSE "narrowed"]
     /\ Mix({Narrow(c)} \ {c})
  /\ UNCHANGED <<table, current, detour, pressed, before>>

ClearMouse ==
  /\ pc["command"] = "mouse" /\ pc' = [pc EXCEPT !["command"] = "ready"] /\ call' = [call EXCEPT !["command"] = NoCall]
  /\ incoming' = [i \in Inputs |-> incoming[i] /\ i \notin Mouse]
  /\ current' = [i \in Inputs |-> current[i] /\ i \notin Mouse]
  /\ Mix({c \in Mouse : SlotsOf(c) # {} \/ ~Quiet(c)})
  /\ asked' = [c \in Codes |-> IF c \in Mouse /\ asked[c] = "narrowed" THEN "dropped" ELSE asked[c]]
  /\ UNCHANGED <<table, detour, calls, pressed, before>>

\* The hooks are retired, between two polls.
Gone ==
  /\ pc["unload"] = "ready" /\ call["unload"].op # "none" /\ ppc = "idle" /\ pc["game"] = "ready"
  /\ pc' = [pc EXCEPT !["unload"] = "gone"]
  /\ UNCHANGED <<table, device, call, calls, detour, history>>

-----------------------------------------------------------------------------
(* The poll *)

poll_detour ==
  /\ ppc = "idle" /\ pc["game"] = "ready" /\ pc["unload"] # "gone"
  /\ ppc' = "load" /\ UNCHANGED <<table, device, threads, poll, history>>

\* Fault: the walk goes one slot too far.
Last_OnePast(s) == s = kMaxKeys

Last(s) == s + 1 = kMaxKeys

NextPoll ==
  /\ ppc' = IF Last(poll.slot) THEN "shift" ELSE "load"
  /\ poll' = IF Last(poll.slot) THEN NoPoll ELSE [NoPoll EXCEPT !.slot = poll.slot + 1]

LoadSlot ==
  /\ ppc = "load"
  /\ LET c == vk[poll.slot] IN
     IF c = 0
     THEN NextPoll /\ UNCHANGED mixed
     ELSE ppc' = "held" /\ poll' = [poll EXCEPT !.vk = c] /\ Mix({d \in {c} : ~Quiet(c)})
  /\ UNCHANGED <<table, device, threads, asked, pressed, before>>

LoadHeld ==
  /\ ppc = "held" /\ ppc' = IF held[poll.slot] THEN "assert" ELSE "count"
  /\ UNCHANGED <<table, device, threads, poll, history>>

Assert ==
  /\ ppc = "assert" /\ Send(poll.vk, TRUE) /\ NextPoll
  /\ UNCHANGED <<table, current, threads, history>>

LoadFrames ==
  /\ ppc = "count" /\ poll' = [poll EXCEPT !.left = frames[poll.slot]]
  /\ ppc' = IF frames[poll.slot] > 0 THEN "press" ELSE "release"
  /\ UNCHANGED <<table, device, threads, history>>

Press ==
  /\ ppc = "press" /\ ppc' = "left" /\ Send(poll.vk, TRUE)
  /\ UNCHANGED <<table, current, threads, poll, history>>

CountDown ==
  /\ ppc = "left" /\ frames' = [frames EXCEPT ![poll.slot] = poll.left - 1] /\ NextPoll
  /\ Mix(Stray(poll.slot, poll.vk))
  /\ UNCHANGED <<vk, held, device, threads, asked, pressed, before>>

Release ==
  /\ ppc = "release" /\ ppc' = "free" /\ Send(poll.vk, FALSE)
  /\ UNCHANGED <<table, current, threads, poll, history>>

FreeTap ==
  /\ ppc = "free" /\ vk' = [vk EXCEPT ![poll.slot] = 0] /\ NextPoll
  /\ Mix(Stray(poll.slot, poll.vk))
  /\ UNCHANGED <<frames, held, device, threads, asked, pressed, before>>

\* The engine's own poll: what came in is current from now on, and stays in.
Shift ==
  /\ ppc = "shift" /\ ppc' = "idle"
  /\ current' = incoming
  /\ pressed' = [c \in Codes |-> pressed[c] \/ incoming[c]]
  /\ UNCHANGED <<table, incoming, threads, poll, asked, mixed, before>>

Poll ==
  \/ poll_detour \/ LoadSlot \/ LoadHeld \/ Assert \/ LoadFrames \/ Press \/ CountDown \/ Release \/ FreeTap \/ Shift

Call(t) ==
  \/ tap(t) \/ hold(t) \/ find_slot(t) \/ claim_slot(t) \/ StoreHeld(t) \/ StoreFrames(t) \/ SendUp(t) \/ FreeSlot(t)
  \/ release_all(t) \/ Swap(t) \/ SendNarrow(t)

InputNext == (\E t \in Threads : Call(t)) \/ ClearMouse \/ Gone \/ Poll
InputSpec == InputInit /\ [][InputNext]_input_vars

-----------------------------------------------------------------------------
(* A code is held down, tapped or let go as the last call asked that was   *)
(* not turned away: a tap or a hold that finds the table full, or a        *)
(* release of a code without a slot, leaves the code as it was. Before the *)
(* first call it is up. There are two exceptions. A mouse button that      *)
(* release_all lets go may stay down without a slot ("narrowed": what it   *)
(* sends goes to another code) until the route /input/release clears the   *)
(* buttons, which after the release of an unload nothing does. And when    *)
(* another thread was at work on the code or on its slot at the time, a    *)
(* tap may never be seen, a key may have two slots, and one that was let   *)
(* go may stay down with no slot left to release it.                       *)
AsAsked(c) ==
  CASE asked[c] = "down" -> \E s \in SlotsOf(c) : held[s]
    [] asked[c] = "tap" -> IF SlotsOf(c) # {} THEN \A s \in SlotsOf(c) : ~held[s] ELSE pressed[c] /\ ~incoming[c]
    [] asked[c] \in {"nothing", "up", "dropped"} -> SlotsOf(c) = {} /\ ~incoming[c]
    [] asked[c] = "narrowed" -> c \in Mouse /\ SlotsOf(c) = {}

TableAgrees ==
  \A c \in Codes : Quiet(c) /\ ~mixed[c] => Cardinality(SlotsOf(c)) <= 1 /\ AsAsked(c)
=============================================================================
