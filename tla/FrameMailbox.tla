----------------------------- MODULE FrameMailbox -----------------------------
(***************************************************************************)
(* What the frame section promises its reader: a mailbox that holds the    *)
(* newest complete frame. A frame may be replaced unread, the reader only  *)
(* moves forward, and what it holds was complete when it took it.          *)
(***************************************************************************)
EXTENDS Naturals

VARIABLES latest, \* the newest complete frame, 0 before the first
          held    \* the frame the reader took last

Init == latest = 0 /\ held = 0

Publish == latest' \in Nat /\ latest' > latest /\ UNCHANGED held

Take == held' = latest /\ held < latest /\ UNCHANGED latest

Spec == Init /\ [][Publish \/ Take]_<<latest, held>>

=============================================================================
