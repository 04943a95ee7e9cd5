------------------------------ MODULE FrameCalls ------------------------------
(***************************************************************************)
(* What the frame protocol promises (FRAME_LOOP.md, "The rules it must     *)
(* follow"): the runtime sees frames that are begun and ended strictly in  *)
(* turn, a frame belongs to at most one request of the game, and an END is *)
(* accepted only for the frame that was just ended, and refused only while *)
(* some other frame is open.                                               *)
(***************************************************************************)
CONSTANTS Ids,      \* the ids a request can carry
          NoRequest \* xr::kNoRequest

VARIABLES
  open,   \* xrBeginFrame succeeded and xrEndFrame has not followed
  owner,  \* the request the open frame was begun for, or NoRequest
  ended,  \* the owner of the last frame that was ended
  verdict \* the last answer to an END request

vars == <<open, owner, ended, verdict>>

NoVerdict == [id |-> NoRequest, accepted |-> FALSE]

Init ==
  /\ open = FALSE
  /\ owner = NoRequest
  /\ ended = NoRequest
  /\ verdict = NoVerdict

Begin(id) ==
  /\ ~open
  /\ open' = TRUE
  /\ owner' = id
  /\ UNCHANGED <<ended, verdict>>

End ==
  /\ open
  /\ open' = FALSE
  /\ ended' = owner
  /\ owner' = NoRequest
  /\ UNCHANGED verdict

Accept(id) ==
  /\ ~open
  /\ id = ended
  /\ verdict' = [id |-> id, accepted |-> TRUE]
  /\ UNCHANGED <<open, owner, ended>>

Refuse(id) ==
  /\ open
  /\ id # owner
  /\ verdict' = [id |-> id, accepted |-> FALSE]
  /\ UNCHANGED <<open, owner, ended>>

\* the session is destroyed, and the open frame with it
Lose ==
  /\ open' = FALSE
  /\ owner' = NoRequest
  /\ ended' = NoRequest
  /\ UNCHANGED verdict

Next ==
  \/ \E id \in Ids \cup {NoRequest} : Begin(id)
  \/ End
  \/ \E id \in Ids : Accept(id) \/ Refuse(id)
  \/ Lose

Spec == Init /\ [][Next]_vars

=============================================================================
