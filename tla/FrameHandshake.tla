---------------------------- MODULE FrameHandshake ----------------------------
(***************************************************************************)
(* The frame handshake: the game asks for xrWaitFrame, xrBeginFrame and    *)
(* xrEndFrame through a block of shared memory, the 64-bit host performs   *)
(* them on its frame thread (VR::on_frame, FrameCapture::end_xr_frame,     *)
(* FramePublisher::xr_wait/xr_begin/xr_end, and xr64's frame loop).        *)
(*                                                                         *)
(* Request ids and the sequence are 32-bit counters. Neither comes round   *)
(* within a bounded wait, so the bound on requests stands for the width.   *)
(***************************************************************************)
EXTENDS Integers

CONSTANTS
  MaxRequests, \* bound: frames asked for in one life of the mod
  MaxReloads,  \* bound: reloads of the mod (or restarts of the game)
  MaxCrashes   \* bound: exits and crashes of the host

ASSUME HandshakeAssumption ==
  /\ MaxRequests \in Nat \ {0}
  /\ MaxReloads \in Nat /\ MaxCrashes \in Nat

Ids == 0 .. MaxRequests
NoRequest == MaxRequests + 1   \* xr::kNoRequest, no id of a request
Stages == {"wait", "begin", "end"}

VARIABLES
  \* the shared block
  req,        \* req_id, per stage
  ack,        \* ack_slot, per stage
  reply,      \* ack_phase, ack_id and the sign of ack_status
  seq,        \* sequence
  posted,     \* phase # kPhaseIdle
  servicing,  \* host_servicing
  \* the game
  gpc,        \* where its frame is
  request_id, \* m_request_id
  begun,      \* VR::m_frame_begun
  look,       \* what the poll of post_and_wait has read so far
  reloads,
  \* the host
  hpc,        \* what its frame thread does next ...
  stage,      \* ... for which of the three frame calls
  running,    \* the session is running
  drives,     \* s_game_drives
  asked,      \* hsk_*_id: the id matched for this stage, or NoRequest
  result,     \* the XrResult of the last frame call
  ownerReq,   \* s_begun_request
  crashes,
  \* the runtime, and what the properties look back at
  open,       \* xrBeginFrame succeeded and xrEndFrame has not followed
  beganReq,   \* the request of the last xrBeginFrame that succeeded for one
  endedReq,   \* s_begun_request of the last frame that was ended
  verdict,    \* the last answer to an END request
  expired     \* some bounded await has run out

block   == <<req, ack, reply, seq, posted, servicing>>
game    == <<gpc, request_id, begun, look, reloads>>
hostvar == <<hpc, stage, running, drives, asked, result, ownerReq, crashes,
             open, beganReq, endedReq, verdict>>
vars    == <<block, game, hostvar, expired>>

NoLook == [s0 |-> -1, reply |-> [stage |-> "unread", id |-> NoRequest, ok |-> FALSE]]

\* A fresh section, zeroed: nothing posted, nothing acknowledged.
Init ==
  /\ req = [s \in Stages |-> 0]
  /\ ack = [s \in Stages |-> 0]
  /\ reply = [stage |-> "none", id |-> 0, ok |-> TRUE]
  /\ seq = 0
  /\ posted = FALSE
  /\ servicing = FALSE
  /\ gpc = "update"
  /\ request_id = 0
  /\ begun = FALSE
  /\ look = NoLook
  /\ reloads = 0
  /\ hpc = "top"
  /\ stage = "wait"
  /\ running = FALSE
  /\ drives = FALSE
  /\ asked = NoRequest
  /\ result = "ok"
  /\ ownerReq = NoRequest
  /\ crashes = 0
  /\ open = FALSE
  /\ beganReq = NoRequest
  /\ endedReq = NoRequest
  /\ verdict = [id |-> NoRequest, accepted |-> FALSE]
  /\ expired = FALSE

-----------------------------------------------------------------------------
(* The game: VR::on_frame, then whatever it renders, then Present *)

\* post_and_wait up to its loop, and xr_end: the id becomes visible last
Post(s, id) ==
  /\ req' = [req EXCEPT ![s] = id]
  /\ posted' = TRUE

\* no handshake, or nobody servicing it: the frame is paced by the tick instead
UpdateAlone ==
  /\ gpc = "update"
  /\ ~servicing
  /\ gpc' = "frame"
  /\ UNCHANGED <<request_id, begun, look, reloads>>
  /\ UNCHANGED <<block, hostvar, expired>>

\* close what the render path left open, before asking for another frame
CloseFrame ==
  /\ gpc = "update"
  /\ servicing
  /\ request_id < MaxRequests
  /\ IF begun THEN Post("end", request_id) ELSE UNCHANGED <<req, posted>>
  /\ begun' = FALSE
  /\ gpc' = "ask"
  /\ UNCHANGED <<request_id, look, reloads>>
  /\ UNCHANGED <<ack, reply, seq, servicing, hostvar, expired>>

PostWait ==
  /\ gpc = "ask"
  /\ request_id' = request_id + 1
  /\ Post("wait", request_id')
  /\ gpc' = "wait"
  /\ UNCHANGED <<begun, look, reloads>>
  /\ UNCHANGED <<ack, reply, seq, servicing, hostvar, expired>>

\* one turn of the poll: s0, then the reply, then ack_slot and the sequence again
LookSequence ==
  /\ gpc \in {"wait", "begin"}
  /\ look = NoLook
  /\ look' = [NoLook EXCEPT !.s0 = seq]
  /\ UNCHANGED <<gpc, request_id, begun, reloads>>
  /\ UNCHANGED <<block, hostvar, expired>>

LookReply ==
  /\ look.s0 # -1
  /\ look.reply.stage = "unread"
  /\ look' = [look EXCEPT !.reply = reply]
  /\ UNCHANGED <<gpc, request_id, begun, reloads>>
  /\ UNCHANGED <<block, hostvar, expired>>

Looked == gpc \in {"wait", "begin"} /\ look.s0 # -1 /\ look.reply.stage # "unread"

\* Fault: the id is enough, whatever the sequence says of the status.
Served_Unguarded(s) == ack[s] = request_id

Served(s) ==
  /\ ack[s] = request_id
  /\ look.s0 % 2 = 0
  /\ seq = look.s0

WaitServed ==
  /\ gpc = "wait" /\ Looked /\ Served("wait")
  /\ IF look.reply.ok
     THEN Post("begin", request_id) /\ gpc' = "begin"
     ELSE gpc' = "frame" /\ UNCHANGED <<req, posted>>
  /\ look' = NoLook
  /\ UNCHANGED <<request_id, begun, reloads>>
  /\ UNCHANGED <<ack, reply, seq, servicing, hostvar, expired>>

\* Fault: served is taken for begun.
BeginServed_Unchecked ==
  /\ gpc = "begin" /\ Looked /\ Served("begin")
  /\ begun' = TRUE
  /\ gpc' = "frame"
  /\ look' = NoLook
  /\ UNCHANGED <<request_id, reloads, block, hostvar, expired>>

BeginServed ==
  /\ gpc = "begin" /\ Looked /\ Served("begin")
  /\ begun' = look.reply.ok
  /\ gpc' = "frame"
  /\ look' = NoLook
  /\ UNCHANGED <<request_id, reloads>>
  /\ UNCHANGED <<block, hostvar, expired>>

LookAgain ==
  /\ Looked
  /\ ~Served(gpc)
  /\ look' = NoLook
  /\ UNCHANGED <<gpc, request_id, begun, reloads>>
  /\ UNCHANGED <<block, hostvar, expired>>

\* Fault: a host that says it is servicing is waited for.
Deadline_Trusting ==
  /\ Looked /\ ~Served(gpc) /\ ~servicing
  /\ gpc' = "frame"
  /\ begun' = FALSE
  /\ look' = NoLook
  /\ expired' = TRUE
  /\ UNCHANGED <<request_id, reloads, block, hostvar>>

\* not served, and 100 ms have passed: no frame this time
Deadline ==
  /\ Looked
  /\ ~Served(gpc)
  /\ gpc' = "frame"
  /\ begun' = FALSE
  /\ look' = NoLook
  /\ expired' = TRUE
  /\ UNCHANGED <<request_id, reloads>>
  /\ UNCHANGED <<block, hostvar>>

\* FrameCapture::on_present ends the frame on every path out of it
Present ==
  /\ gpc = "frame"
  /\ IF servicing /\ begun
     THEN Post("end", request_id) /\ begun' = FALSE
     ELSE UNCHANGED <<req, posted, begun>>
  /\ gpc' = "update"
  /\ UNCHANGED <<request_id, look, reloads>>
  /\ UNCHANGED <<ack, reply, seq, servicing, hostvar, expired>>

\* the main menu: no scene is drawn and on_present does not run
NoPresent ==
  /\ gpc = "frame"
  /\ gpc' = "update"
  /\ UNCHANGED <<request_id, begun, look, reloads>>
  /\ UNCHANGED <<block, hostvar, expired>>

\* The mod is unloaded and injected again, or the game restarts: its statics start
\* over, the section the host keeps mapped does not.
Reload ==
  /\ reloads < MaxReloads
  /\ reloads' = reloads + 1
  /\ gpc' = "update"
  /\ request_id' = 0
  /\ begun' = FALSE
  /\ look' = NoLook
  /\ UNCHANGED <<block, hostvar, expired>>

Game ==
  \/ UpdateAlone \/ CloseFrame \/ PostWait
  \/ LookSequence \/ LookReply \/ WaitServed \/ BeginServed \/ LookAgain \/ Deadline
  \/ Present \/ NoPresent

-----------------------------------------------------------------------------
(* The host: one iteration of xr64's frame loop *)

\* pump_events decides whether the session runs; only a running one is serviced
Pump ==
  /\ hpc = "top"
  /\ running' \in BOOLEAN
  /\ servicing' = running'
  /\ IF running'
     THEN /\ hpc' = "await" /\ stage' = "wait"
          /\ drives' = (drives \/ posted)
     ELSE UNCHANGED <<hpc, stage, drives>>
  /\ UNCHANGED <<asked, result, ownerReq, crashes, open, beganReq, endedReq, verdict>>
  /\ UNCHANGED <<req, ack, reply, seq, posted, game, expired>>

\* a request outstanding for this stage, whichever frame it names
Outstanding == drives /\ req[stage] # ack[stage]

\* handshake_await, found
Await ==
  /\ hpc = "await"
  /\ Outstanding
  /\ asked' = req[stage]
  /\ hpc' = IF stage = "end" /\ asked' # ownerReq THEN "ack" ELSE "call"
  /\ UNCHANGED <<stage, running, drives, result, ownerReq, crashes, open, beganReq, endedReq, verdict>>
  /\ UNCHANGED <<block, game, expired>>

\* Fault: once the game drives, its request is waited for without a bound.
AwaitExpires_Unbounded ==
  /\ hpc = "await" /\ ~drives
  /\ asked' = NoRequest
  /\ hpc' = "call"
  /\ UNCHANGED <<stage, running, drives, result, ownerReq, crashes, open, beganReq, endedReq, verdict>>
  /\ UNCHANGED <<block, game, expired>>

\* handshake_await, run out; a game that never asked is not waited for
AwaitExpires ==
  /\ hpc = "await"
  /\ ~Outstanding
  /\ asked' = NoRequest
  /\ hpc' = "call"
  /\ expired' = (expired \/ drives)
  /\ UNCHANGED <<stage, running, drives, result, ownerReq, crashes, open, beganReq, endedReq, verdict>>
  /\ UNCHANGED <<block, game>>

\* Fault: a failed xrWaitFrame or xrBeginFrame does not skip the frame.
Proceed_Unchecked(s, r) ==
  IF s = "end"
  THEN hpc' = "top" /\ stage' = "wait"
  ELSE hpc' = "await" /\ stage' = IF s = "wait" THEN "begin" ELSE "end"

\* the stage that follows a frame call and its acknowledgement; a failed wait or
\* begin is not a frame
Proceed(s, r) ==
  IF s = "end" \/ r # "ok"
  THEN hpc' = "top" /\ stage' = "wait"
  ELSE hpc' = "await" /\ stage' = IF s = "wait" THEN "begin" ELSE "end"

\* Fault: every stage is acknowledged, requested or not.
Called_AlwaysAck(r) == result' = r /\ hpc' = "ack" /\ UNCHANGED stage

Called(r) ==
  /\ result' = r
  /\ IF asked # NoRequest THEN hpc' = "ack" /\ UNCHANGED stage ELSE Proceed(stage, r)

\* xrWaitFrame; it can also succeed without a predicted display time
WaitFrame ==
  /\ hpc = "call" /\ stage = "wait"
  /\ \E r \in {"ok", "bad", "notime"} : Called(r)
  /\ UNCHANGED <<running, drives, asked, ownerReq, crashes, open, beganReq, endedReq, verdict>>
  /\ UNCHANGED <<block, game, expired>>

\* The ack is assembled before s_begun_request is assigned; no one else reads that.
BeginFrame ==
  /\ hpc = "call" /\ stage = "begin"
  /\ \E r \in {"ok", "bad"} :
       /\ Called(r)
       /\ open' = (r = "ok")
       /\ ownerReq' = IF asked = NoRequest THEN ownerReq
                      ELSE IF r = "ok" THEN asked ELSE NoRequest
       /\ beganReq' = IF r = "ok" /\ asked # NoRequest THEN asked ELSE beganReq
  /\ UNCHANGED <<running, drives, asked, crashes, endedReq, verdict>>
  /\ UNCHANGED <<block, game, expired>>

\* xrEndFrame runs whatever was asked; the END of another frame has been refused
EndFrame ==
  /\ hpc = "call" /\ stage = "end"
  /\ \E r \in {"ok", "bad"} :
       /\ result' = r
       /\ IF asked # NoRequest /\ asked = ownerReq
          THEN hpc' = "ack" /\ UNCHANGED stage
          ELSE Proceed(stage, r)
  /\ open' = FALSE
  /\ endedReq' = ownerReq
  /\ ownerReq' = NoRequest
  /\ UNCHANGED <<running, drives, asked, crashes, beganReq, verdict>>
  /\ UNCHANGED <<block, game, expired>>

\* an END answered while its frame is still open is a refusal
Refusing == stage = "end" /\ open

\* handshake_ack: the sequence turns odd, the payload is written ...
AckOpen ==
  /\ hpc = "ack"
  /\ seq' = IF seq % 2 = 0 THEN seq + 1 ELSE seq
  /\ reply' = [stage |-> stage, id |-> asked, ok |-> ~Refusing /\ result # "bad"]
  /\ hpc' = "release"
  /\ UNCHANGED <<stage, running, drives, asked, result, ownerReq, crashes, open, beganReq, endedReq, verdict>>
  /\ UNCHANGED <<req, ack, posted, servicing, game, expired>>

\* Fault: an END is answered but not marked served.
AckClose_EndUnmarked ==
  /\ hpc = "release"
  /\ ack' = IF stage = "end" THEN ack ELSE [ack EXCEPT ![stage] = asked]
  /\ seq' = seq + 1
  /\ verdict' = IF stage = "end" THEN [id |-> asked, accepted |-> ~Refusing] ELSE verdict
  /\ IF Refusing THEN hpc' = "call" /\ UNCHANGED stage ELSE Proceed(stage, result)
  /\ UNCHANGED <<running, drives, asked, result, ownerReq, crashes, open, beganReq, endedReq>>
  /\ UNCHANGED <<req, reply, posted, servicing, game, expired>>

\* ... and the id in the stage's own slot releases the waiter
AckClose ==
  /\ hpc = "release"
  /\ ack' = [ack EXCEPT ![stage] = asked]
  /\ seq' = seq + 1
  /\ verdict' = IF stage = "end" THEN [id |-> asked, accepted |-> ~Refusing] ELSE verdict
  /\ IF Refusing THEN hpc' = "call" /\ UNCHANGED stage ELSE Proceed(stage, result)
  /\ UNCHANGED <<running, drives, asked, result, ownerReq, crashes, open, beganReq, endedReq>>
  /\ UNCHANGED <<req, reply, posted, servicing, game, expired>>

\* g_stop, or --seconds over: out of the loop, and the spaces and swapchains go first
LeaveLoop ==
  /\ hpc = "top"
  /\ crashes < MaxCrashes
  /\ hpc' = "teardown"
  /\ UNCHANGED <<stage, running, drives, asked, result, ownerReq, crashes, open, beganReq, endedReq, verdict>>
  /\ UNCHANGED <<block, game, expired>>

\* the process is gone, and what it knew with it; an open frame is the runtime's to drop
HostGone ==
  /\ crashes' = crashes + 1
  /\ hpc' = "down"
  /\ stage' = "wait"
  /\ running' = FALSE /\ drives' = FALSE
  /\ asked' = NoRequest /\ ownerReq' = NoRequest
  /\ open' = FALSE /\ endedReq' = NoRequest
  /\ UNCHANGED <<result, beganReq, verdict, expired>>

Exit ==
  /\ hpc = "teardown"
  /\ servicing' = FALSE
  /\ HostGone
  /\ UNCHANGED <<req, ack, reply, seq, posted, game>>

\* killed between any two steps: servicing and an odd sequence stay behind
Crash ==
  /\ hpc # "down"
  /\ crashes < MaxCrashes
  /\ HostGone
  /\ UNCHANGED <<block, game>>

Restart ==
  /\ hpc = "down"
  /\ hpc' = "top"
  /\ UNCHANGED <<stage, running, drives, asked, result, ownerReq, crashes, open, beganReq, endedReq, verdict>>
  /\ UNCHANGED <<block, game, expired>>

Host ==
  \/ Pump \/ Await \/ AwaitExpires \/ WaitFrame \/ BeginFrame \/ EndFrame
  \/ AckOpen \/ AckClose \/ Exit

Next == Game \/ Reload \/ Host \/ LeaveLoop \/ Crash \/ Restart

Spec == Init /\ [][Next]_vars

\* The game's thread keeps running, a poll of post_and_wait ends at its deadline, and
\* the host's thread keeps running while its process lives. No fairness on Restart.
FairSpec ==
  /\ Spec
  /\ WF_vars(Game)
  /\ WF_vars(Host)
  /\ SF_vars(Deadline)

-----------------------------------------------------------------------------
(* What must hold *)

\* Every variable has its type: the block's ids and flags, the position and the locals
\* of both loops (SharedFrame.hpp, FrameHandshake).
TypeOK ==
  /\ req \in [Stages -> Ids] /\ ack \in [Stages -> Ids]
  /\ reply \in [stage : Stages \cup {"none"}, id : Ids, ok : BOOLEAN]
  /\ seq \in Nat
  /\ posted \in BOOLEAN /\ servicing \in BOOLEAN
  /\ gpc \in {"update", "ask", "wait", "begin", "frame"}
  /\ request_id \in Ids /\ begun \in BOOLEAN
  /\ look \in [s0 : Nat \cup {-1}, reply : [stage : Stages \cup {"none", "unread"}, id : Ids \cup {NoRequest}, ok : BOOLEAN]]
  /\ reloads \in 0 .. MaxReloads
  /\ hpc \in {"top", "await", "call", "ack", "release", "teardown", "down"}
  /\ stage \in Stages
  /\ running \in BOOLEAN /\ drives \in BOOLEAN
  /\ asked \in Ids \cup {NoRequest} /\ ownerReq \in Ids \cup {NoRequest}
  /\ result \in {"ok", "bad", "notime"}
  /\ crashes \in 0 .. MaxCrashes
  /\ open \in BOOLEAN /\ beganReq \in Ids \cup {NoRequest} /\ endedReq \in Ids \cup {NoRequest}
  /\ verdict \in [id : Ids \cup {NoRequest}, accepted : BOOLEAN]
  /\ expired \in BOOLEAN

Undisturbed == ~expired /\ reloads = 0 /\ crashes = 0

\* The game ends a frame only if the runtime has begun one for that very request, and none
\* for another since: the answer it took the status from, under the sequence of the block,
\* was not an answer to something else, whatever awaits have run out and however often the
\* host has been restarted. It holds of one life of the mod (VR::on_frame,
\* FrameCapture::end_xr_frame against xr64's BEGIN stage).
EndsOnlyWhatBegan ==
  reloads = 0 /\ begun => beganReq = request_id

\* While no await has run out and neither side restarted, an END names the frame the
\* host has begun, so none is refused.
InLockstepUntilDisturbed ==
  Undisturbed => verdict.accepted \/ verdict.id = NoRequest

\* The game is in its frame for a request the runtime has open, or it is on its own.
InsideThePair ==
  Undisturbed /\ begun /\ servicing => open /\ ownerReq = request_id

(* What the documents say, and the program does otherwise *)

\* FramePublisher.cpp, post_and_wait: accepting an old ack would let the game run a frame
\* ahead of the runtime. Ids start over with the mod, the acks in the block do not.
NeverAFrameAhead ==
  ~expired /\ crashes = 0 /\ begun /\ servicing => open /\ ownerReq = request_id

-----------------------------------------------------------------------------
FC == INSTANCE FrameCalls WITH
        open <- open, owner <- ownerReq, ended <- endedReq, verdict <- verdict

\* xr64's loop implements the frame calls the runtime demands: begun and ended in
\* turn, one owner each, an END accepted only for the frame just ended.
ImplementsFrameCalls == FC!Spec

\* A game blocked on the host comes back, even from a host that died with its
\* servicing flag up.
GameComesBack == gpc # "update" ~> gpc = "update"

\* The compositor's loop comes back to its top with a game that stopped answering.
HostComesBack == hpc # "top" ~> hpc \in {"top", "down"}

=============================================================================
