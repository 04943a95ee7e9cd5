------------------------------ MODULE HapticRing ------------------------------
(***************************************************************************)
(* The haptic ring of the shared section: the game queues discrete pulses, *)
(* the 64-bit host fires them (shared/xr/SharedFrame.hpp,                  *)
(* FramePublisher::queue_haptic, the drain in xr64's frame loop).          *)
(*                                                                         *)
(* The payload of a pulse is a set of fields that are stored and copied    *)
(* one at a time, each holding the number of the call that produced it;    *)
(* the tickets are unsigned integers of Modulus values and do wrap.        *)
(***************************************************************************)
EXTENDS Integers

CONSTANTS
  Producers,  \* game-side threads calling queue_haptic (game thread, IPC thread)
  Slots,      \* kHapticSlots
  Modulus,    \* 2^32 in the code: the values of a uint32_t
  Fields,     \* the separately stored parts of a HapticPulse
  MaxCalls,   \* bound: calls of queue_haptic in one behaviour
  NoOne       \* nobody holds m_haptic_lock

ASSUME RingAssumption ==
  /\ Slots \in Nat \ {0}
  /\ Modulus \in Nat \ {0}
  /\ \E half \in 1 .. Slots : Slots = 2 * half           \* 16 is even
  /\ \E laps \in 2 .. Modulus : Modulus = laps * Slots    \* and divides 2^32
  /\ MaxCalls \in Nat
  /\ MaxCalls + Slots <= Modulus
  /\ NoOne \notin Producers

VARIABLES
  start,       \* write_index before the first modelled call (history)
  write_index, \* HapticsState::write_index
  commit,      \* HapticPulse::commit of every slot
  payload,     \* the fields of every slot: the number of the call that stored each
  lock,        \* holder of m_haptic_lock
  pc,          \* per producer: where it is in queue_haptic
  ticket,      \* per producer: its local `ticket`
  unwritten,   \* per producer: fields not stored yet
  pulse,       \* per producer: the number of its current call
  calls,       \* calls that claimed a ticket (history)
  returned     \* calls that returned true (history)

ring     == <<write_index, commit, payload>>
producer == <<lock, pc, ticket, unwritten, pulse, calls, returned>>

Index == 0 .. Modulus - 1
SlotIndex == 0 .. Slots - 1

\* Fault: the ticket kept in a wider integer
Successor_Wide(t) == t + 1

\* ticket + 1 in 32 bits
Successor(t) == (t + 1) % Modulus

\* slot[(ticket - 1u) % kHapticSlots]
SlotOf(t) == ((t + Modulus - 1) % Modulus) % Slots

\* Fault: zero as the in-progress stamp, what the comment on commit warns of
InProgress_Zero(t) == 0

\* ~ticket: the stamp of a slot that is being rewritten
InProgress(t) == Modulus - 1 - t

\* write_index - read_index, an unsigned difference
Distance(from, to) == (to - from + Modulus) % Modulus

\* the ticket of the n-th modelled call
TicketOf(n) == (start + n) % Modulus

(***************************************************************************)
(* A section that has been in use: write_index is anything, and each slot  *)
(* carries the stamp of the last ticket that fell in it, or zero when the  *)
(* section is fresh and none has.                                          *)
(***************************************************************************)
RingInit ==
  /\ start \in Index
  /\ write_index = start
  /\ commit \in [SlotIndex -> Index]
  /\ \A i \in SlotIndex :
       \/ SlotOf(commit[i]) = i /\ Distance(commit[i], start) < Slots
       \/ i >= start /\ commit[i] = 0
  /\ payload = [i \in SlotIndex |-> [f \in Fields |-> 0]]

ProducerInit ==
  /\ lock = NoOne
  /\ pc = [p \in Producers |-> "outside"]
  /\ ticket = [p \in Producers |-> 0]
  /\ unwritten = [p \in Producers |-> {}]
  /\ pulse = [p \in Producers |-> 0]
  /\ calls = 0
  /\ returned = 0

-----------------------------------------------------------------------------
(* queue_haptic *)

\* Fault: the two producers are not serialised
Enter_Unlocked(p) ==
  /\ pc[p] = "outside"
  /\ calls < MaxCalls
  /\ lock' = p
  /\ pc' = [pc EXCEPT ![p] = "claim"]
  /\ UNCHANGED <<ticket, unwritten, pulse, calls, returned>>
  /\ UNCHANGED <<start, ring>>

Enter(p) ==
  /\ pc[p] = "outside"
  /\ calls < MaxCalls
  /\ lock = NoOne
  /\ lock' = p
  /\ pc' = [pc EXCEPT ![p] = "claim"]
  /\ UNCHANGED <<ticket, unwritten, pulse, calls, returned>>
  /\ UNCHANGED <<start, ring>>

\* ticket = write_index + 1; no compare-exchange, the lock makes it exclusive
Claim(p) ==
  /\ pc[p] = "claim"
  /\ calls' = calls + 1
  /\ pulse' = [pulse EXCEPT ![p] = calls + 1]
  /\ ticket' = [ticket EXCEPT ![p] = Successor(write_index)]
  /\ pc' = [pc EXCEPT ![p] = "invalidate"]
  /\ UNCHANGED <<lock, unwritten, returned>>
  /\ UNCHANGED <<start, ring>>

\* Fault: the index is published before the slot it names is committed
Invalidate_Published(p) ==
  /\ pc[p] = "invalidate"
  /\ write_index' = ticket[p]
  /\ commit' = [commit EXCEPT ![SlotOf(ticket[p])] = InProgress(ticket[p])]
  /\ unwritten' = [unwritten EXCEPT ![p] = Fields]
  /\ pc' = [pc EXCEPT ![p] = "fill"]
  /\ UNCHANGED <<lock, ticket, pulse, calls, returned>>
  /\ UNCHANGED <<start, payload>>

Invalidate(p) ==
  /\ pc[p] = "invalidate"
  /\ commit' = [commit EXCEPT ![SlotOf(ticket[p])] = InProgress(ticket[p])]
  /\ unwritten' = [unwritten EXCEPT ![p] = Fields]
  /\ pc' = [pc EXCEPT ![p] = "fill"]
  /\ UNCHANGED <<lock, ticket, pulse, calls, returned>>
  /\ UNCHANGED <<start, write_index, payload>>

\* the stores between the two barriers, in any order
Fill(p) ==
  /\ pc[p] = "fill"
  /\ \E f \in unwritten[p] :
       /\ payload' = [payload EXCEPT ![SlotOf(ticket[p])][f] = pulse[p]]
       /\ unwritten' = [unwritten EXCEPT ![p] = @ \ {f}]
  /\ UNCHANGED <<lock, pc, ticket, pulse, calls, returned>>
  /\ UNCHANGED <<start, write_index, commit>>

Commit(p) ==
  /\ pc[p] = "fill"
  /\ unwritten[p] = {}
  /\ commit' = [commit EXCEPT ![SlotOf(ticket[p])] = ticket[p]]
  /\ pc' = [pc EXCEPT ![p] = "publish"]
  /\ UNCHANGED <<lock, ticket, unwritten, pulse, calls, returned>>
  /\ UNCHANGED <<start, write_index, payload>>

\* InterlockedExchange, then the guard releases the lock
Publish(p) ==
  /\ pc[p] = "publish"
  /\ write_index' = ticket[p]
  /\ returned' = returned + 1
  /\ lock' = NoOne
  /\ pc' = [pc EXCEPT ![p] = "outside"]
  /\ UNCHANGED <<ticket, unwritten, pulse, calls>>
  /\ UNCHANGED <<start, commit, payload>>

Queue(p) ==
  Enter(p) \/ Claim(p) \/ Invalidate(p) \/ Fill(p) \/ Commit(p) \/ Publish(p)

=============================================================================
