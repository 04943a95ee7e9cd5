------------------------------ MODULE HapticDrain ------------------------------
(***************************************************************************)
(* The host's drain of the haptic ring (xr64's frame loop), composed with  *)
(* the producers of HapticRing.  Once a frame the host snapshots           *)
(* write_index and walks every ticket between its own cursor and it.       *)
(***************************************************************************)
EXTENDS HapticRing

VARIABLES
  seed,       \* the index the cursor was seeded from, -1 before (haptics_seeded)
  read,       \* haptic_read
  snapshot,   \* the local copy of write_index for this pass
  t,          \* loop variable: the ticket expected next
  hpc,        \* where the host is in its pass
  copy,       \* the local HapticPulse
  uncopied,   \* fields of it not copied yet
  focused,    \* session_focused
  fired,      \* the last pulse passed to the runtime, and its ticket
  firedCount, \* haptics_fired (a runtime failure counts too here)
  torn,       \* haptic_torn
  overruns,   \* haptic_overruns
  muted       \* entries drained while the session was not focused (history)

host == <<seed, read, snapshot, t, hpc, copy, uncopied, fired, firedCount, torn, overruns, muted>>
vars == <<start, ring, producer, host, focused>>

Blank == [f \in Fields |-> 0]

Init ==
  /\ RingInit
  /\ ProducerInit
  /\ seed = -1
  /\ read = 0
  /\ snapshot = 0
  /\ t = 0
  /\ hpc = "elsewhere"
  /\ copy = Blank
  /\ uncopied = {}
  /\ focused \in BOOLEAN
  /\ fired = [ticket |-> -1, copy |-> Blank]
  /\ firedCount = 0 /\ torn = 0 /\ overruns = 0 /\ muted = 0

\* the unsigned comparison of the for loop, (int32_t)(write_index - t) >= 0
InWindow(tk) == Distance(tk, snapshot) < Modulus \div 2

\* Fault: one entry of every overrun is hidden
Overrun_Short(avail) == IF avail > Slots THEN avail - Slots - 1 ELSE 0

\* the entries that are already overwritten when the pass begins
Overrun(avail) == IF avail > Slots THEN avail - Slots ELSE 0

Snapshot ==
  /\ hpc = "elsewhere"
  /\ LET cursor == IF seed = -1 THEN write_index ELSE read
         avail  == Distance(cursor, write_index)
         base   == IF avail > Slots THEN (write_index - Slots + Modulus) % Modulus ELSE cursor
     IN  /\ seed' = IF seed = -1 THEN write_index ELSE seed
         /\ overruns' = overruns + Overrun(avail)
         /\ read' = base
         /\ t' = Successor(base)
  /\ snapshot' = write_index
  /\ hpc' = "scan"
  /\ UNCHANGED <<copy, uncopied, fired, firedCount, torn, muted>>
  /\ UNCHANGED <<start, ring, producer, focused>>

\* past the newest ticket of the snapshot: haptic_read = write_index
Finish ==
  /\ hpc = "scan"
  /\ ~InWindow(t)
  /\ read' = snapshot
  /\ hpc' = "elsewhere"
  /\ UNCHANGED <<seed, snapshot, t, copy, uncopied, fired, firedCount, torn, overruns, muted>>
  /\ UNCHANGED <<start, ring, producer, focused>>

\* Fault: an entry whose stamp does not match is waited for instead of dropped
ReadBefore_Wait ==
  /\ hpc = "scan"
  /\ InWindow(t)
  /\ commit[SlotOf(t)] = t
  /\ hpc' = "copy"
  /\ uncopied' = Fields
  /\ UNCHANGED <<seed, read, snapshot, t, copy, fired, firedCount, torn, overruns, muted>>
  /\ UNCHANGED <<start, ring, producer, focused>>

\* commit_before; a mismatch is found out after the copy, which then does not matter
ReadBefore ==
  /\ hpc = "scan"
  /\ InWindow(t)
  /\ IF commit[SlotOf(t)] = t
     THEN /\ hpc' = "copy"
          /\ uncopied' = Fields
          /\ UNCHANGED <<t, torn>>
     ELSE /\ torn' = torn + 1
          /\ t' = Successor(t)
          /\ UNCHANGED <<hpc, uncopied>>
  /\ UNCHANGED <<seed, read, snapshot, copy, fired, firedCount, overruns, muted>>
  /\ UNCHANGED <<start, ring, producer, focused>>

Copy ==
  /\ hpc = "copy"
  /\ \E f \in uncopied :
       /\ copy' = [copy EXCEPT ![f] = payload[SlotOf(t)][f]]
       /\ uncopied' = uncopied \ {f}
  /\ UNCHANGED <<seed, read, snapshot, t, hpc, fired, firedCount, torn, overruns, muted>>
  /\ UNCHANGED <<start, ring, producer, focused>>

\* commit_after, and what it decides
ReadAfter ==
  /\ hpc = "copy"
  /\ uncopied = {}
  /\ \/ /\ commit[SlotOf(t)] # t
        /\ torn' = torn + 1
        /\ UNCHANGED <<fired, firedCount, muted>>
     \/ /\ commit[SlotOf(t)] = t
        /\ ~focused
        /\ muted' = muted + 1
        /\ UNCHANGED <<fired, firedCount, torn>>
     \/ /\ commit[SlotOf(t)] = t
        /\ focused
        /\ fired' = [ticket |-> t, copy |-> copy]
        /\ firedCount' = firedCount + 1
        /\ UNCHANGED <<torn, muted>>
  /\ t' = Successor(t)
  /\ hpc' = "scan"
  /\ UNCHANGED <<seed, read, snapshot, copy, uncopied, overruns>>
  /\ UNCHANGED <<start, ring, producer, focused>>

Drain == Snapshot \/ Finish \/ ReadBefore \/ Copy \/ ReadAfter

\* pump_events: the session gains or loses input focus, between two frames
FocusChange ==
  /\ hpc = "elsewhere"
  /\ focused' = ~focused
  /\ UNCHANGED <<start, ring, producer, host>>

Next ==
  \/ \E p \in Producers : Queue(p) /\ UNCHANGED <<host, focused>>
  \/ Drain
  \/ FocusChange

Spec == Init /\ [][Next]_vars

(***************************************************************************)
(* The host's loop runs on its own thread and never waits here; a producer *)
(* inside queue_haptic runs straight-line code.                            *)
(***************************************************************************)
FairSpec ==
  /\ Spec
  /\ WF_vars(Drain)
  /\ \A p \in Producers : WF_vars(pc[p] # "outside" /\ Queue(p) /\ UNCHANGED <<host, focused>>)

-----------------------------------------------------------------------------
TypeOK ==
  /\ start \in Index /\ write_index \in Index
  /\ commit \in [SlotIndex -> Index]
  /\ payload \in [SlotIndex -> [Fields -> 0 .. MaxCalls]]
  /\ lock \in Producers \cup {NoOne}
  /\ pc \in [Producers -> {"outside", "claim", "invalidate", "fill", "publish"}]
  /\ ticket \in [Producers -> Index]
  /\ unwritten \in [Producers -> SUBSET Fields]
  /\ pulse \in [Producers -> 0 .. MaxCalls]
  /\ calls \in 0 .. MaxCalls
  /\ returned \in 0 .. MaxCalls
  /\ seed \in Index \cup {-1}
  /\ read \in Index /\ snapshot \in Index /\ t \in Index
  /\ hpc \in {"elsewhere", "scan", "copy"}
  /\ copy \in [Fields -> 0 .. MaxCalls]
  /\ uncopied \in SUBSET Fields
  /\ focused \in BOOLEAN
  /\ fired \in [ticket : Index \cup {-1}, copy : [Fields -> 0 .. MaxCalls]]
  /\ firedCount \in Nat /\ torn \in Nat /\ overruns \in Nat /\ muted \in Nat

(***************************************************************************)
(* A pulse the runtime is given is whole, and is the pulse queued under    *)
(* the ticket it was taken for: never half of one and half of another,     *)
(* however far the producers lap the host during the copy.                 *)
(***************************************************************************)
NoTornPulse ==
  fired.ticket # -1 =>
    \E n \in 1 .. MaxCalls :
      /\ fired.ticket = TicketOf(n)
      /\ \A f \in Fields : fired.copy[f] = n

(***************************************************************************)
(* Every call that returned true has a ticket of its own: the game thread  *)
(* and the IPC thread never claim the same one.                            *)
(***************************************************************************)
EveryCallHasATicket == Distance(start, write_index) = returned

(***************************************************************************)
(* "OVERRUN IS COUNTED, NOT HIDDEN": between two passes, every ticket the  *)
(* cursor went over was fired, muted, or is in one of the drop counters.   *)
(***************************************************************************)
NothingUncounted ==
  hpc = "elsewhere" /\ seed # -1 =>
    Distance(seed, read) = firedCount + muted + torn + overruns

(***************************************************************************)
(* Pulses fire in the order they were queued and none twice, and a drop is *)
(* never spurious: the host discards a ticket as torn only once the        *)
(* producers have claimed the ticket one whole ring later.                 *)
(***************************************************************************)
InOrderUnlessLapped ==
  [][/\ torn' # torn => calls - Distance(start, t) >= Slots
     /\ fired' # fired => \A f \in Fields : fired'.copy[f] > fired.copy[f]]_vars

(***************************************************************************)
(* The inductive strengthening of NoTornPulse and NothingUncounted.        *)
(* Position is the inverse of TicketOf: how many modelled calls a ticket   *)
(* is past start.                                                          *)
(***************************************************************************)
Position(i) == Distance(start, i)

InCall(p) == pc[p] \in {"invalidate", "fill", "publish"}

\* one caller at a time, and which call it is making
ProducerInv ==
  /\ write_index = TicketOf(returned)
  /\ lock = NoOne => returned = calls
  /\ \A p \in Producers :
       /\ pc[p] # "outside" <=> lock = p
       /\ pc[p] = "claim" => returned = calls /\ calls < MaxCalls
       /\ InCall(p) =>
            /\ calls = returned + 1
            /\ pulse[p] = calls
            /\ ticket[p] = TicketOf(calls)
       /\ pc[p] = "fill" =>
            /\ commit[SlotOf(ticket[p])] = InProgress(ticket[p])
            /\ \A f \in Fields \ unwritten[p] : payload[SlotOf(ticket[p])][f] = pulse[p]
       /\ pc[p] = "publish" =>
            \A f \in Fields : payload[SlotOf(ticket[p])][f] = pulse[p]

\* a slot stamped with a published ticket holds that ticket's pulse, whole
SlotInv ==
  \A n \in 1 .. returned :
    commit[SlotOf(TicketOf(n))] = TicketOf(n) =>
      \A f \in Fields : payload[SlotOf(TicketOf(n))][f] = n

\* where the cursor, the snapshot and the loop variable are, and what was counted
CursorInv ==
  /\ seed = -1 => hpc = "elsewhere" /\ firedCount + muted + torn + overruns = 0
  /\ seed # -1 =>
       /\ Position(seed) <= Position(read)
       /\ Position(read) <= Position(snapshot)
       /\ Position(snapshot) <= returned
       /\ hpc = "elsewhere" =>
            Position(read) - Position(seed) = firedCount + muted + torn + overruns
       /\ hpc # "elsewhere" =>
            /\ 1 <= Position(t)
            /\ Position(t) <= Position(snapshot) + 1
            /\ Position(snapshot) - Position(t) < Slots
            /\ Position(t) - 1 - Position(seed) = firedCount + muted + torn + overruns
       /\ hpc = "copy" => Position(t) <= Position(snapshot)

\* while the stamp still is the expected ticket, what was copied is that ticket's pulse
CopyInv ==
  hpc = "copy" /\ commit[SlotOf(t)] = t =>
    \A f \in Fields \ uncopied : copy[f] = Position(t)

IInv == TypeOK /\ ProducerInv /\ SlotInv /\ CursorInv /\ CopyInv /\ NoTornPulse

(***************************************************************************)
(* Every pulse published after the host began watching is accounted for:   *)
(* the host catches up with any index it has been shown.                   *)
(***************************************************************************)
CatchesUp ==
  \A w \in 1 .. MaxCalls :
    (seed # -1 /\ returned >= w) ~> (Distance(start, read) >= w)

=============================================================================
