-------------------------- MODULE FrameLoop_proofs --------------------------
(***************************************************************************)
(* Proofs about the game's frame loop: the handshake with the host, for    *)
(* any number of requests, reloads of the mod and crashes of the host, and *)
(* the pacing by the host's ticks, for any divisor, any time limit and any *)
(* number of frames.                                                       *)
(***************************************************************************)
EXTENDS FrameHandshake, Pacing, TLAPS

-----------------------------------------------------------------------------
(* The inductive invariant *)

Serving == hpc \in {"await", "call", "ack", "release"}
Answering == hpc \in {"ack", "release"}

\* The host's loop: where a frame is open, whose it is, and what is being answered.
HostInv ==
  /\ IF Serving THEN servicing ELSE stage = "wait"
  /\ hpc = "teardown" => crashes < MaxCrashes
  /\ hpc = "down" => crashes > 0
  /\ Answering => asked # NoRequest
  /\ ~open => ownerReq = NoRequest
  /\ stage = "wait" => ~open
  /\ stage = "begin" =>
       /\ open <=> Answering /\ result = "ok"
       /\ open => ownerReq = asked
       /\ Answering => result # "notime"
  /\ stage = "end" =>
       /\ ~Answering => open
       /\ Answering => IF open THEN asked # ownerReq ELSE asked = endedReq
  /\ hpc = "release" => seq % 2 = 1 /\ reply.ok = (~Refusing /\ result # "bad")

\* Another frame is asked for only while there are ids left.
AskInv == gpc = "ask" => request_id < MaxRequests

\* A poll under an even, unchanged sequence has the reply that still stands.
LookInv ==
  /\ look.s0 <= seq
  /\ look.s0 = seq /\ seq % 2 = 0 /\ look.reply.stage # "unread" => look.reply = reply

\* In its first life the mod counts up, and no answer is ahead of its request.
FirstLife ==
  reloads = 0 =>
    /\ req["wait"] = request_id
    /\ \A s \in Stages : ack[s] <= req[s] /\ req[s] <= request_id
    /\ gpc = "wait" => req["begin"] < request_id
    /\ gpc = "begin" \/ begun => req["begin"] = request_id
    /\ gpc \in {"wait", "begin"} \/ begun => req["end"] < request_id
    /\ begun => gpc \in {"update", "frame"} /\ ack["begin"] = request_id
    /\ hpc \in {"call", "ack", "release"} /\ asked # NoRequest =>
         asked <= req[stage] /\ (stage # "end" => ack[stage] < asked)

\* In that life a BEGIN is answered once, and what may be said after that answer, while the
\* game has not taken it, is no success: an END can only be refused.
BegunInv ==
  /\ stage = "begin" /\ open => beganReq = asked
  /\ reloads = 0 =>
       /\ begun => beganReq = request_id
       /\ gpc = "begin" => ack["wait"] = request_id
       /\ gpc = "begin" /\ ack["begin"] = request_id =>
            /\ reply.ok => beganReq = request_id
            /\ ownerReq \in {request_id, NoRequest}
            /\ ~(stage = "end" /\ Answering /\ ~open)

\* A host the game has not been seen by answers nothing.
Alone ==
  /\ ack = [s \in Stages |-> 0] /\ req["begin"] = 0 /\ req["end"] = 0
  /\ asked = NoRequest /\ ownerReq = NoRequest /\ ~Answering
  /\ gpc # "begin" /\ ~begun

\* The game and a host it drives, each at a place that fits the other's.
InStep ==
  /\ ack["begin"] # req["begin"] => gpc = "begin"
  /\ ack["end"] # req["end"] =>
       /\ stage = "end" /\ ~begun
       /\ gpc \in {"update", "ask"} \/ (gpc = "wait" /\ ack["wait"] # request_id)
  /\ hpc \in {"call", "ack", "release"} => asked = req[stage]
  /\ stage = "wait" => ~begun /\ (gpc = "begin" /\ ack["begin"] = request_id => ~reply.ok)
  /\ stage = "wait" /\ hpc \in {"call", "ack", "release"} => ack["wait"] # req["wait"]
  /\ stage = "begin" /\ hpc = "await" =>
       /\ ack["wait"] = request_id
       /\ \/ gpc = "wait" /\ reply.ok
          \/ gpc = "begin" /\ ack["begin"] # req["begin"]
  /\ stage = "begin" /\ hpc # "await" => ack["begin"] # req["begin"]
  /\ stage = "end" /\ open => ownerReq = req["begin"] /\ ack["begin"] = req["begin"]
  /\ stage = "end" /\ ack["end"] = req["end"] =>
       hpc = "await" /\ ((gpc = "begin" /\ reply.ok) \/ begun)
  /\ stage = "end" /\ ack["end"] # req["end"] =>
       IF Answering THEN ~open ELSE req["end"] = ownerReq

Lockstep ==
  Undisturbed =>
    /\ verdict.accepted \/ verdict.id = NoRequest
    /\ ack["wait"] # request_id => gpc = "wait"
    /\ IF drives THEN InStep ELSE Alone

IInv ==
  /\ TypeOK
  /\ HostInv
  /\ AskInv
  /\ LookInv
  /\ FirstLife
  /\ BegunInv
  /\ Lockstep

-----------------------------------------------------------------------------
(* What groups of steps leave alone *)

\* A step of the game or a reload.
GameSide == Game \/ Reload

\* The game posts requests and moves its own state; the host's is not its to write.
LEMMA GameFrame ==
  ASSUME GameSide
  PROVE  UNCHANGED <<ack, reply, seq, servicing, hostvar>>
  BY DEF GameSide, Game, Reload, UpdateAlone, CloseFrame, PostWait, LookSequence, LookReply, WaitServed,
     BeginServed, LookAgain, Deadline, Present, NoPresent, block, Post

\* The host answers requests and moves its own state; the game's is not its to write.
HostSide == Host \/ LeaveLoop \/ Crash \/ Restart

LEMMA HostFrame ==
  ASSUME HostSide
  PROVE  UNCHANGED <<req, posted, game>>
  BY DEF HostSide, Host, LeaveLoop, Crash, Restart, Pump, Await, AwaitExpires, WaitFrame, BeginFrame,
     EndFrame, AckOpen, AckClose, Exit, HostGone, block

-----------------------------------------------------------------------------
(* Types *)

LEMMA IdTypes ==
  /\ 0 \in Ids /\ NoRequest \notin Ids /\ NoRequest \in Nat
  /\ \A i \in Ids : i \in Nat /\ (i < MaxRequests => i + 1 \in Ids)
  BY HandshakeAssumption DEF Ids, NoRequest

\* The sequence turns odd before the payload is written and even after it.
LEMMA Parity ==
  ASSUME NEW n \in Nat
  PROVE  /\ n % 2 \in {0, 1}
         /\ n % 2 = 0 => (n + 1) % 2 = 1
         /\ n % 2 = 1 => (n + 1) % 2 = 0
  OBVIOUS

Answers == [stage : Stages \cup {"none", "unread"}, id : Ids \cup {NoRequest}, ok : BOOLEAN]
Looks == [s0 : Nat \cup {-1}, reply : Answers]

LEMMA LookTypes ==
  ASSUME TypeOK
  PROVE  /\ NoLook \in Looks
         /\ [NoLook EXCEPT !.s0 = seq] \in Looks
         /\ [look EXCEPT !.reply = reply] \in Looks
<1>1. seq \in Nat /\ look \in Looks /\ reply \in Answers
  BY DEF TypeOK, Looks, Answers
<1>2. [stage |-> "unread", id |-> NoRequest, ok |-> FALSE] \in Answers
  BY DEF Answers
<1>3. NoLook \in Looks
  BY <1>2 DEF NoLook, Looks
<1>4. \A l \in Looks : [l EXCEPT !.s0 = seq] \in Looks
  BY <1>1 DEF Looks
<1>5. [look EXCEPT !.reply = reply] \in Looks
  BY <1>1 DEF Looks
<1>6. QED
  BY <1>3, <1>4, <1>5

LEMMA GameTypes ==
  ASSUME TypeOK, AskInv, GameSide
  PROVE  TypeOK'
<1>0. PostWait => request_id + 1 \in Ids
  BY IdTypes DEF PostWait, AskInv, TypeOK
<1>1. req' \in [Stages -> Ids] /\ posted' \in BOOLEAN
  <2>0. req \in [Stages -> Ids] /\ posted \in BOOLEAN /\ request_id \in Ids
    BY DEF TypeOK
  <2>1. CASE PostWait
    BY <2>0, <2>1, <1>0 DEF PostWait, Post
  <2>2. CASE CloseFrame \/ Present
    BY <2>0, <2>2 DEF CloseFrame, Present, Post
  <2>3. CASE WaitServed
    BY <2>0, <2>3 DEF WaitServed, Post
  <2>4. CASE UNCHANGED <<req, posted>>
    BY <2>0, <2>4
  <2>5. QED
    BY <2>1, <2>2, <2>3, <2>4
       DEF GameSide, Game, Reload, UpdateAlone, LookSequence, LookReply, BeginServed, LookAgain, Deadline,
           NoPresent, block
<1>2. /\ gpc' \in {"update", "ask", "wait", "begin", "frame"}
      /\ begun' \in BOOLEAN /\ expired' \in BOOLEAN
  BY DEF GameSide, Game, Reload, UpdateAlone, CloseFrame, PostWait, LookSequence, LookReply, WaitServed,
     BeginServed, LookAgain, Deadline, Present, NoPresent, TypeOK
<1>3. request_id' \in Ids /\ reloads' \in 0 .. MaxReloads
  BY <1>0, IdTypes, HandshakeAssumption
     DEF GameSide, Game, Reload, UpdateAlone, CloseFrame, PostWait, LookSequence, LookReply, WaitServed,
     BeginServed, LookAgain, Deadline, Present, NoPresent, TypeOK
<1>4. look' \in Looks
  <2>1. look' \in {look, NoLook, [NoLook EXCEPT !.s0 = seq], [look EXCEPT !.reply = reply]}
    BY DEF GameSide, Game, Reload, UpdateAlone, CloseFrame, PostWait, LookSequence, LookReply, WaitServed,
       BeginServed, LookAgain, Deadline, Present, NoPresent
  <2>2. look \in Looks
    BY DEF TypeOK, Looks, Answers
  <2>3. QED
    BY <2>1, <2>2, LookTypes
<1>5. QED
  BY <1>1, <1>2, <1>3, <1>4, GameFrame DEF TypeOK, Looks, Answers, hostvar

LEMMA HostTypes ==
  ASSUME TypeOK, HostInv, HostSide
  PROVE  TypeOK'
<1>1. ASSUME Pump \/ Await \/ AwaitExpires \/ LeaveLoop \/ Restart
      PROVE TypeOK'
  BY <1>1 DEF Pump, Await, AwaitExpires, LeaveLoop, Restart, TypeOK, Stages, block, game
<1>2. ASSUME WaitFrame \/ BeginFrame \/ EndFrame
      PROVE TypeOK'
  <2>1. /\ hpc' \in {"top", "await", "ack"} /\ stage' \in Stages /\ result' \in {"ok", "bad", "notime"}
        /\ open' \in BOOLEAN
    BY <1>2 DEF WaitFrame, BeginFrame, EndFrame, Called, Proceed, TypeOK, Stages
  <2>2. /\ ownerReq' \in Ids \cup {NoRequest} /\ endedReq' \in Ids \cup {NoRequest}
        /\ beganReq' \in Ids \cup {NoRequest}
    BY <1>2 DEF WaitFrame, BeginFrame, EndFrame, TypeOK
  <2>3. UNCHANGED <<running, drives, asked, crashes, verdict, block, game, expired>>
    BY <1>2 DEF WaitFrame, BeginFrame, EndFrame
  <2>4. QED
    BY <2>1, <2>2, <2>3 DEF TypeOK, block, game
<1>3. ASSUME AckOpen
      PROVE TypeOK'
  BY <1>3 DEF AckOpen, HostInv, Answering, Refusing, TypeOK, game
<1>4. ASSUME AckClose
      PROVE TypeOK'
  BY <1>4 DEF AckClose, HostInv, Answering, Refusing, Proceed, TypeOK, Stages, game
<1>5. ASSUME Exit \/ Crash
      PROVE TypeOK'
  <2>1. crashes' \in 0 .. MaxCrashes
    BY <1>5, HandshakeAssumption DEF Exit, Crash, HostGone, HostInv, TypeOK
  <2>2. QED
    BY <1>5, <2>1 DEF Exit, Crash, HostGone, TypeOK, Stages, block, game
<1>6. QED
  BY <1>1, <1>2, <1>3, <1>4, <1>5 DEF HostSide, Host

-----------------------------------------------------------------------------
(* The host's loop *)

LEMMA HostStep ==
  ASSUME TypeOK, HostInv, [Next]_vars
  PROVE  HostInv'
<1> USE DEF Serving, Answering, Refusing
<1>1. ASSUME GameSide
      PROVE HostInv'
  BY <1>1, GameFrame DEF HostInv, hostvar
<1>2. ASSUME Pump \/ LeaveLoop \/ Restart
      PROVE HostInv'
  BY <1>2 DEF Pump, LeaveLoop, Restart, HostInv, TypeOK, block
<1>3. ASSUME Await \/ AwaitExpires
      PROVE HostInv'
  BY <1>3, IdTypes DEF Await, AwaitExpires, HostInv, TypeOK, block, Stages
<1>4. ASSUME WaitFrame
      PROVE HostInv'
  BY <1>4 DEF WaitFrame, Called, Proceed, HostInv, block
<1>5. ASSUME BeginFrame
      PROVE HostInv'
  BY <1>5 DEF BeginFrame, Called, Proceed, HostInv, block
<1>6. ASSUME EndFrame
      PROVE HostInv'
  BY <1>6 DEF EndFrame, Proceed, HostInv, block
<1>7. ASSUME AckOpen
      PROVE HostInv'
  <2>1. seq' % 2 = 1
    BY <1>7, Parity DEF AckOpen, TypeOK
  <2>2. QED
    BY <1>7, <2>1 DEF AckOpen, HostInv
<1>8. ASSUME AckClose
      PROVE HostInv'
  BY <1>8 DEF AckClose, Proceed, HostInv, TypeOK, Stages
<1>9. ASSUME Exit \/ Crash
      PROVE HostInv'
  BY <1>9 DEF Exit, Crash, HostGone, HostInv, TypeOK
<1>10. ASSUME UNCHANGED vars
       PROVE HostInv'
  BY <1>10 DEF vars, block, hostvar, HostInv
<1>11. QED
  BY <1>1, <1>2, <1>3, <1>4, <1>5, <1>6, <1>7, <1>8, <1>9, <1>10 DEF Next, GameSide, Host

-----------------------------------------------------------------------------
(* The game's poll *)

LEMMA AskStep ==
  ASSUME TypeOK, AskInv, [Next]_vars
  PROVE  AskInv'
<1>1. CASE HostSide \/ UNCHANGED vars
  BY <1>1, HostFrame DEF AskInv, vars, game
<1>2. CASE GameSide
  BY <1>2 DEF AskInv, GameSide, Game, Reload, UpdateAlone, CloseFrame, PostWait, LookSequence, LookReply,
     WaitServed, BeginServed, LookAgain, Deadline, Present, NoPresent
<1>3. QED
  BY <1>1, <1>2 DEF Next, GameSide, HostSide

LEMMA LookStep ==
  ASSUME TypeOK, HostInv, LookInv, [Next]_vars
  PROVE  LookInv'
<1>1. ASSUME GameSide
      PROVE  LookInv'
  <2>1. UNCHANGED <<seq, reply>> /\ seq \in Nat
    BY <1>1, GameFrame DEF TypeOK
  <2>2. \/ look' \in {look, NoLook}
        \/ look' = [NoLook EXCEPT !.s0 = seq]
        \/ look' = [look EXCEPT !.reply = reply]
    BY <1>1 DEF GameSide, Game, Reload, UpdateAlone, CloseFrame, PostWait, LookSequence, LookReply, WaitServed,
       BeginServed, LookAgain, Deadline, Present, NoPresent
  <2>3. look \in Looks
    BY DEF TypeOK, Looks, Answers
  <2>4. QED
    BY <2>1, <2>2, <2>3 DEF LookInv, NoLook, Looks
<1>2. ASSUME AckOpen
      PROVE  LookInv'
  <2>1. look' = look /\ seq' >= seq /\ ~(seq' % 2 = 0)
    BY <1>2, Parity DEF AckOpen, TypeOK, game
  <2>2. seq \in Int /\ seq' \in Int /\ look.s0 \in Int /\ look.s0 <= seq
    BY <1>2 DEF TypeOK, AckOpen, LookInv
  <2>3. look.s0 <= seq'
    BY <2>1, <2>2
  <2>4. QED
    BY <2>1, <2>3 DEF LookInv
<1>3. ASSUME AckClose
      PROVE  LookInv'
  <2>1. look' = look /\ seq' = seq + 1 /\ seq \in Nat /\ look.s0 \in Int
    BY <1>3 DEF AckClose, TypeOK, game
  <2>2. QED
    BY <2>1 DEF LookInv
<1>4. ASSUME UNCHANGED <<look, seq, reply>>
      PROVE  LookInv'
  BY <1>4 DEF LookInv
<1>5. HostSide => AckOpen \/ AckClose \/ UNCHANGED <<look, seq, reply>>
  BY DEF HostSide, Host, LeaveLoop, Crash, Restart, Pump, Await, AwaitExpires, WaitFrame, BeginFrame, EndFrame,
     Exit, HostGone, block, game
<1>6. QED
  BY <1>1, <1>2, <1>3, <1>4, <1>5 DEF Next, GameSide, HostSide, vars, block, game

\* What a poll takes for served is what the host has said last.
LEMMA ServedReply ==
  ASSUME TypeOK, LookInv, NEW s \in Stages, Looked, Served(s)
  PROVE  look.reply = reply /\ ack[s] = request_id
  BY DEF Looked, Served, LookInv

-----------------------------------------------------------------------------
(* The first life of the mod *)

LEMMA FirstLifeStep ==
  ASSUME TypeOK, HostInv, LookInv, FirstLife, [Next]_vars
  PROVE  FirstLife'
<1> SUFFICES ASSUME reloads' = 0 PROVE FirstLife'
  BY DEF FirstLife
<1>0. reloads = 0 /\ ~Reload
  BY HostFrame, HandshakeAssumption
     DEF TypeOK, Next, HostSide, Game, Reload, UpdateAlone, CloseFrame, PostWait, LookSequence, LookReply,
     WaitServed, BeginServed, LookAgain, Deadline, Present, NoPresent, vars, game
<1>1. /\ request_id \in Nat /\ \A s \in Stages : req[s] \in Nat /\ ack[s] \in Nat
      /\ asked # NoRequest => asked \in Nat
      /\ {"wait", "begin", "end"} = Stages /\ stage \in Stages
  BY IdTypes DEF TypeOK, Stages
<1>2. ASSUME GameSide
      PROVE FirstLife'
  <2>1. UNCHANGED <<ack, hpc, asked, stage>>
    BY <1>2, GameFrame DEF hostvar
  <2>2. CASE PostWait
    BY <2>1, <2>2, <1>0, <1>1 DEF PostWait, Post, FirstLife, TypeOK
  <2>3. CASE CloseFrame \/ Present
    BY <2>1, <2>3, <1>0, <1>1 DEF CloseFrame, Present, Post, FirstLife, TypeOK
  <2>4. CASE WaitServed
    BY <2>1, <2>4, <1>0, <1>1 DEF WaitServed, Post, FirstLife, TypeOK
  <2>5. CASE BeginServed
    BY <2>1, <2>5, <1>0, <1>1 DEF BeginServed, Served, FirstLife, TypeOK, block
  <2>6. CASE UpdateAlone \/ NoPresent \/ LookSequence \/ LookReply \/ LookAgain \/ Deadline
    BY <2>1, <2>6, <1>0 DEF UpdateAlone, NoPresent, LookSequence, LookReply, LookAgain, Deadline, FirstLife, block
  <2>7. QED
    BY <1>0, <1>2, <2>2, <2>3, <2>4, <2>5, <2>6 DEF GameSide, Game
<1>3. ASSUME HostSide
      PROVE FirstLife'
  <2>1. UNCHANGED <<req, request_id, gpc, begun>>
    BY <1>3, HostFrame DEF game
  <2>2. CASE Await
    BY <2>1, <2>2, <1>0, <1>1 DEF Await, Outstanding, FirstLife, block
  <2>3. CASE WaitFrame \/ BeginFrame \/ EndFrame
    BY <2>1, <2>3, <1>0, <1>1 DEF WaitFrame, BeginFrame, EndFrame, Called, Proceed, FirstLife, block
  <2>4. CASE AckOpen
    BY <2>1, <2>4, <1>0, <1>1 DEF AckOpen, FirstLife
  <2>5. CASE AckClose
    BY <2>1, <2>5, <1>0, <1>1 DEF AckClose, Proceed, Refusing, HostInv, Answering, FirstLife, TypeOK
  <2>6. CASE Pump \/ AwaitExpires \/ Exit \/ LeaveLoop \/ Crash \/ Restart
    BY <2>1, <2>6, <1>0 DEF Pump, AwaitExpires, Exit, LeaveLoop, Crash, Restart, HostGone, FirstLife, block
  <2>7. QED
    BY <1>3, <2>2, <2>3, <2>4, <2>5, <2>6 DEF HostSide, Host
<1>4. ASSUME UNCHANGED vars
      PROVE FirstLife'
  BY <1>4, <1>0 DEF FirstLife, vars, block, game, hostvar
<1>5. QED
  BY <1>2, <1>3, <1>4 DEF Next, GameSide, HostSide

-----------------------------------------------------------------------------
(* What the runtime has begun *)

\* A frame that is open in the host's BEGIN stage is the one it was asked for there.
LEMMA OpenIsAsked ==
  ASSUME TypeOK, HostInv, BegunInv, [Next]_vars
  PROVE  (stage = "begin" /\ open => beganReq = asked)'
<1> USE DEF BegunInv
<1>1. CASE GameSide \/ UNCHANGED vars
  BY <1>1, GameFrame DEF vars, hostvar
<1>2. CASE BeginFrame
  BY <1>2 DEF BeginFrame, Called, Proceed
<1>3. CASE WaitFrame \/ EndFrame
  BY <1>3 DEF WaitFrame, EndFrame, Called, Proceed, HostInv
<1>4. CASE Pump \/ Await \/ AwaitExpires \/ LeaveLoop \/ Restart
  BY <1>4 DEF Pump, Await, AwaitExpires, LeaveLoop, Restart, HostInv, Answering
<1>5. CASE AckOpen \/ AckClose
  BY <1>5 DEF AckOpen, AckClose, Proceed, Refusing, HostInv
<1>6. CASE Exit \/ Crash
  BY <1>6 DEF Exit, Crash, HostGone
<1>7. QED
  BY <1>1, <1>2, <1>3, <1>4, <1>5, <1>6 DEF Next, Host, GameSide

\* An answer that the game takes for its BEGIN's is the one it got to it, or a refusal.
LEMMA BegunStep ==
  ASSUME TypeOK, HostInv, LookInv, FirstLife, BegunInv, [Next]_vars
  PROVE  BegunInv'
<1> DEFINE Mine == /\ reply.ok => beganReq = request_id
                   /\ ownerReq \in {request_id, NoRequest}
                   /\ ~(stage = "end" /\ Answering /\ ~open)
<1> SUFFICES ASSUME reloads' = 0
             PROVE  /\ begun' => beganReq' = request_id'
                    /\ gpc' = "begin" => ack'["wait"] = request_id'
                    /\ gpc' = "begin" /\ ack'["begin"] = request_id' => Mine'
  BY OpenIsAsked DEF BegunInv
<1>0. reloads = 0 /\ ~Reload
  BY HostFrame, HandshakeAssumption
     DEF TypeOK, Next, HostSide, Game, Reload, UpdateAlone, CloseFrame, PostWait, LookSequence, LookReply,
     WaitServed, BeginServed, LookAgain, Deadline, Present, NoPresent, vars, game
<1>1. /\ request_id \in Nat /\ \A s \in Stages : req[s] \in Nat /\ ack[s] \in Nat
      /\ asked # NoRequest => asked \in Nat
      /\ {"wait", "begin", "end"} = Stages /\ stage \in Stages
      /\ ack \in [Stages -> Ids]
  BY IdTypes DEF TypeOK, Stages
<1>2. /\ begun => beganReq = request_id /\ ack["begin"] = request_id /\ req["begin"] = request_id
                   /\ gpc \in {"update", "frame"}
      /\ gpc = "begin" => ack["wait"] = request_id /\ req["begin"] = request_id /\ req["end"] < request_id
      /\ gpc = "begin" /\ ack["begin"] = request_id => Mine
      /\ req["wait"] = request_id
      /\ hpc \in {"call", "ack", "release"} /\ asked # NoRequest =>
           asked <= req[stage] /\ (stage # "end" => ack[stage] < asked)
  BY <1>0, <1>1 DEF BegunInv, FirstLife
<1>3. ASSUME GameSide
      PROVE  /\ begun' => beganReq' = request_id'
             /\ gpc' = "begin" => ack'["wait"] = request_id'
             /\ gpc' = "begin" /\ ack'["begin"] = request_id' => Mine'
  <2>1. UNCHANGED <<ack, reply, hpc, stage, open, ownerReq, beganReq>>
    BY <1>3, GameFrame DEF hostvar
  <2>2. CASE PostWait
    BY <1>2, <2>1, <2>2 DEF PostWait
  <2>3. CASE CloseFrame \/ Present
    BY <1>2, <2>1, <2>3 DEF CloseFrame, Present
  <2>4. CASE WaitServed
    <3>1. ack["wait"] = request_id /\ gpc = "wait" /\ UNCHANGED <<request_id, begun>>
      BY <2>4 DEF WaitServed, Served
    <3>2. ack["begin"] < request_id
      BY <1>0, <1>1, <3>1 DEF FirstLife
    <3>3. QED
      BY <1>1, <1>2, <2>1, <3>1, <3>2
  <2>5. CASE BeginServed
    <3>1. look.reply = reply /\ ack["begin"] = request_id
      BY <1>1, <2>5, ServedReply DEF BeginServed
    <3>2. gpc = "begin" /\ begun' = reply.ok /\ gpc' = "frame" /\ request_id' = request_id
      BY <2>5, <3>1 DEF BeginServed
    <3>3. QED
      BY <1>2, <2>1, <3>1, <3>2
  <2>6. CASE UpdateAlone \/ NoPresent \/ LookSequence \/ LookReply \/ LookAgain \/ Deadline
    <3>1. /\ request_id' = request_id /\ (begun' => begun) /\ (gpc' = "begin" => gpc = "begin")
      BY <2>6 DEF UpdateAlone, NoPresent, LookSequence, LookReply, LookAgain, Deadline
    <3>2. QED
      BY <1>2, <2>1, <3>1 DEF Answering
  <2>7. QED
    BY <1>0, <1>3, <2>2, <2>3, <2>4, <2>5, <2>6 DEF GameSide, Game
<1>4. ASSUME HostSide
      PROVE  /\ begun' => beganReq' = request_id'
             /\ gpc' = "begin" => ack'["wait"] = request_id'
             /\ gpc' = "begin" /\ ack'["begin"] = request_id' => Mine'
  <2>1. UNCHANGED <<req, request_id, gpc, begun>>
    BY <1>4, HostFrame DEF game
  <2>2. CASE Pump \/ Await \/ AwaitExpires \/ LeaveLoop \/ Restart
    BY <1>2, <2>1, <2>2 DEF Pump, Await, AwaitExpires, LeaveLoop, Restart, Answering, HostInv, block
  <2>3. CASE WaitFrame
    BY <1>2, <2>1, <2>3 DEF WaitFrame, Called, Proceed, Answering, block
  <2>4. CASE BeginFrame
    <3>1. begun \/ (gpc = "begin" /\ ack["begin"] = request_id) => asked = NoRequest
      BY <1>1, <1>2, <2>4 DEF BeginFrame
    <3>2. UNCHANGED <<ack, reply>>
      BY <2>4 DEF BeginFrame, block
    <3>3. asked = NoRequest => UNCHANGED <<beganReq, ownerReq>> /\ hpc' \notin {"ack", "release"}
      BY <2>4 DEF BeginFrame, Called, Proceed
    <3>4. QED
      BY <1>2, <2>1, <3>1, <3>2, <3>3 DEF Answering
  <2>5. CASE EndFrame
    <3>1. UNCHANGED <<ack, reply, beganReq>> /\ ownerReq' = NoRequest /\ hpc = "call" /\ stage = "end"
      BY <2>5 DEF EndFrame, block
    <3>2. gpc = "begin" /\ ack["begin"] = request_id => ~(asked # NoRequest /\ asked = ownerReq)
      BY <1>1, <1>2, <3>1
    <3>3. gpc = "begin" /\ ack["begin"] = request_id => hpc' = "top"
      BY <2>5, <3>1, <3>2 DEF EndFrame, Proceed
    <3>4. QED
      BY <1>2, <2>1, <3>1, <3>3 DEF Answering
  <2>6. CASE AckOpen
    <3>1. /\ UNCHANGED <<ack, beganReq, ownerReq, stage, open, asked>> /\ hpc = "ack" /\ hpc' = "release"
          /\ reply'.ok = (~Refusing /\ result # "bad") /\ asked # NoRequest
      BY <2>6 DEF AckOpen, HostInv, Answering
    <3>2. gpc = "begin" /\ ack["begin"] = request_id => stage = "end" /\ open
      BY <1>1, <1>2, <3>1 DEF Answering
    <3>3. QED
      BY <1>2, <2>1, <3>1, <3>2 DEF Answering, Refusing
  <2>7. CASE AckClose
    <3>1. /\ UNCHANGED <<reply, beganReq, ownerReq, open>> /\ hpc = "release" /\ hpc' \notin {"ack", "release"}
          /\ ack' = [ack EXCEPT ![stage] = asked] /\ asked # NoRequest
      BY <2>7 DEF AckClose, Proceed, HostInv, Answering
    <3>2. gpc = "begin" => ack'["wait"] = request_id
      BY <1>1, <1>2, <2>1, <3>1
    <3>3. CASE stage = "begin"
      <4>1. reply.ok => open
        BY <3>1, <3>3 DEF HostInv, Answering, TypeOK
      <4>2. open => beganReq = asked /\ ownerReq = asked
        BY <3>3 DEF BegunInv, HostInv
      <4>3. ~open => ownerReq = NoRequest
        BY DEF HostInv
      <4>4. ack'["begin"] = asked
        BY <1>1, <3>1, <3>3
      <4>5. QED
        BY <1>2, <2>1, <3>1, <3>2, <4>1, <4>2, <4>3, <4>4 DEF Answering
    <3>4. CASE stage # "begin"
      <4>1. ack'["begin"] = ack["begin"]
        BY <1>1, <3>1, <3>4
      <4>2. QED
        BY <1>2, <2>1, <3>1, <3>2, <4>1 DEF Answering
    <3>5. QED
      BY <3>3, <3>4
  <2>8. CASE Exit \/ Crash
    BY <1>2, <2>1, <2>8 DEF Exit, Crash, HostGone, Answering, block
  <2>9. QED
    BY <1>4, <2>2, <2>3, <2>4, <2>5, <2>6, <2>7, <2>8 DEF HostSide, Host
<1>5. ASSUME UNCHANGED vars
      PROVE  /\ begun' => beganReq' = request_id'
             /\ gpc' = "begin" => ack'["wait"] = request_id'
             /\ gpc' = "begin" /\ ack'["begin"] = request_id' => Mine'
  BY <1>2, <1>5 DEF vars, block, game, hostvar, Answering
<1> HIDE DEF Mine
<1>6. QED
  BY <1>3, <1>4, <1>5 DEF Next, GameSide, HostSide

-----------------------------------------------------------------------------
(* The two of them in step *)

Calm == IInv /\ Undisturbed /\ Undisturbed'

\* What the other parts of the invariant say where nothing has gone wrong yet.
LEMMA CalmFacts ==
  ASSUME Calm
  PROVE  /\ HostInv /\ FirstLife /\ Lockstep /\ reloads = 0 /\ stage \in Stages
         /\ request_id \in Nat /\ \A s \in Stages : req[s] \in Nat /\ ack[s] \in Nat
         /\ \A s \in Stages : req[s] # NoRequest
         /\ req["wait"] = request_id /\ (begun => gpc \in {"update", "frame"})
         /\ gpc = "begin" => req["begin"] = request_id /\ ack["wait"] = request_id
         /\ begun => req["begin"] = request_id /\ ack["begin"] = request_id
         /\ begun => ack["end"] = req["end"] /\ ack["end"] # request_id
         /\ begun \in BOOLEAN /\ servicing \in BOOLEAN
<1>1. TypeOK /\ HostInv /\ FirstLife /\ Lockstep /\ reloads = 0
  BY DEF Calm, IInv, Undisturbed
<1>2. /\ stage \in Stages /\ request_id \in Nat /\ \A s \in Stages : req[s] \in Nat /\ ack[s] \in Nat
      /\ begun \in BOOLEAN /\ servicing \in BOOLEAN
      /\ \A s \in Stages : req[s] # NoRequest
  BY <1>1, IdTypes DEF TypeOK
<1>3. /\ req["wait"] = request_id /\ (begun => gpc \in {"update", "frame"})
      /\ gpc = "begin" => req["begin"] = request_id
      /\ begun => req["begin"] = request_id /\ ack["begin"] = request_id /\ req["end"] # request_id
  BY <1>1, <1>2 DEF FirstLife, Stages
<1>4. /\ gpc = "begin" => ack["wait"] = request_id
      /\ begun => ack["end"] = req["end"]
  BY <1>1, <1>2 DEF Lockstep, Calm, InStep, Alone, Stages
<1>5. QED
  BY <1>1, <1>2, <1>3, <1>4

\* Each step of the game that touches the block or where its frame is.
LEMMA AskLockstep ==
  ASSUME Calm, UpdateAlone \/ CloseFrame \/ PostWait \/ Present \/ NoPresent
  PROVE  Lockstep'
<1> USE CalmFacts
<1>0. /\ UNCHANGED <<ack, reply, servicing, hpc, stage, drives, asked, ownerReq, open, verdict>>
      /\ Undisturbed /\ {"wait", "begin", "end"} = Stages
  BY GameFrame DEF GameSide, Game, hostvar, Calm, Stages
<1>1. CASE UpdateAlone \/ NoPresent
  BY <1>0, <1>1 DEF UpdateAlone, NoPresent, Lockstep, InStep, Alone, Answering, HostInv, Serving, block
<1>2. CASE PostWait
  BY <1>0, <1>2 DEF PostWait, Post, Lockstep, InStep, Alone, Answering, HostInv, FirstLife
<1>3. CASE CloseFrame \/ Present
  <2>1. UNCHANGED request_id /\ ~begun' /\ gpc' \in {"update", "ask"} /\ gpc \in {"update", "frame"}
    BY <1>0, <1>3 DEF CloseFrame, Present, Post, Lockstep, InStep, Alone, Answering, HostInv, Serving
  <2>2. CASE begun
    <3>1. /\ drives /\ stage = "end" /\ hpc = "await" /\ servicing /\ open
          /\ ownerReq = request_id /\ ack["begin"] = request_id
      BY <1>0, <2>1, <2>2 DEF Lockstep, InStep, Alone, HostInv, Serving, Answering
    <3>2. req' = [req EXCEPT !["end"] = request_id]
      BY <1>3, <2>2, <3>1 DEF CloseFrame, Present, Post
    <3>3. req'["wait"] = req["wait"] /\ req'["begin"] = req["begin"] /\ req'["end"] = request_id
      BY <3>2 DEF Calm, IInv, TypeOK, Stages
    <3>4. QED
      BY <1>0, <2>1, <2>2, <3>1, <3>3 DEF Lockstep, InStep, Answering
  <2>3. CASE ~begun
    <3>1. UNCHANGED req
      BY <1>3, <2>3 DEF CloseFrame, Present
    <3>2. QED
      BY <1>0, <2>1, <2>3, <3>1 DEF Lockstep, InStep, Alone, Answering
  <2>4. QED
    BY <2>2, <2>3
<1>4. QED
  BY <1>1, <1>2, <1>3

LEMMA PollLockstep ==
  ASSUME Calm, LookSequence \/ LookReply \/ WaitServed \/ BeginServed \/ LookAgain
  PROVE  Lockstep'
<1> USE CalmFacts
<1>0. /\ UNCHANGED <<ack, reply, servicing, hpc, stage, drives, asked, ownerReq, open, verdict>>
      /\ Undisturbed /\ {"wait", "begin", "end"} = Stages
  BY GameFrame DEF GameSide, Game, hostvar, Calm, Stages
<1>1. CASE LookSequence \/ LookReply \/ LookAgain
  BY <1>0, <1>1 DEF LookSequence, LookReply, LookAgain, Lockstep, InStep, Alone, Answering, block
<1>2. CASE WaitServed
  <2>1. look.reply = reply /\ ack["wait"] = request_id
    BY <1>0, <1>2, ServedReply DEF WaitServed, Calm, IInv
  <2>2. gpc = "wait" /\ UNCHANGED <<request_id, begun>>
    BY <1>2 DEF WaitServed
  <2>3. CASE ~reply.ok
    BY <1>0, <1>2, <2>1, <2>2, <2>3 DEF WaitServed, Lockstep, InStep, Alone, Answering
  <2>4. CASE reply.ok
    <3>1. gpc' = "begin" /\ req' = [req EXCEPT !["begin"] = request_id]
      BY <1>2, <2>1, <2>4 DEF WaitServed, Post
    <3>2. req'["wait"] = req["wait"] /\ req'["begin"] = request_id /\ req'["end"] = req["end"]
      BY <3>1 DEF Calm, IInv, TypeOK, Stages
    <3>3. ack["begin"] < request_id
      BY <1>0, <2>2 DEF FirstLife
    <3>4. drives
      <4>1. ack["wait"] # 0
        BY <1>0, <2>1, <2>2 DEF FirstLife
      <4>2. QED
        BY <1>0, <4>1 DEF Lockstep, Alone
    <3>5. QED
      BY <1>0, <2>1, <2>2, <3>1, <3>2, <3>3, <3>4 DEF Lockstep, InStep, Answering
  <2>5. QED
    BY <2>3, <2>4
<1>3. CASE BeginServed
  <2>1. look.reply = reply /\ ack["begin"] = request_id
    BY <1>0, <1>3, ServedReply DEF BeginServed, Calm, IInv
  <2>2. QED
    BY <1>0, <1>3, <2>1 DEF BeginServed, Lockstep, InStep, Alone, Answering, block
<1>4. QED
  BY <1>1, <1>2, <1>3

LEMMA HostLockstep ==
  ASSUME Calm, HostSide
  PROVE  Lockstep'
<1> USE CalmFacts
<1>0. UNCHANGED <<req, request_id, gpc, begun>> /\ Undisturbed /\ {"wait", "begin", "end"} = Stages
  BY HostFrame DEF game, Calm, Stages
<1>1. CASE Pump \/ LeaveLoop
  BY <1>0, <1>1 DEF Pump, LeaveLoop, Lockstep, InStep, Alone, Answering, HostInv, Serving, block
<1>2. CASE Await
  BY <1>0, <1>2 DEF Await, Outstanding, Lockstep, InStep, Alone, Answering, HostInv, Serving, block
<1>3. CASE AwaitExpires
  BY <1>0, <1>3 DEF AwaitExpires, Undisturbed, Calm, Lockstep, InStep, Alone, Answering, block
<1>4. CASE WaitFrame
  BY <1>0, <1>4 DEF WaitFrame, Called, Proceed, Lockstep, InStep, Alone, Answering, HostInv, block
<1>5. CASE BeginFrame
  BY <1>0, <1>5 DEF BeginFrame, Called, Proceed, Lockstep, InStep, Alone, Answering, HostInv, block
<1>6. CASE EndFrame
  BY <1>0, <1>6 DEF EndFrame, Proceed, Lockstep, InStep, Alone, Answering, HostInv, block
<1>7. CASE AckOpen
  BY <1>0, <1>7 DEF AckOpen, Refusing, Lockstep, InStep, Alone, Answering, HostInv
<1>8. CASE AckClose
  <2>1. drives /\ InStep /\ HostInv /\ hpc = "release"
    BY <1>0, <1>8 DEF AckClose, Lockstep, Alone, Answering
  <2>2. /\ asked = req[stage] /\ ack' = [ack EXCEPT ![stage] = asked]
        /\ UNCHANGED <<drives, ownerReq, open, reply>>
    BY <1>8, <2>1 DEF AckClose, InStep
  <2>3. ack'[stage] = req[stage] /\ \A s \in Stages \ {stage} : ack'[s] = ack[s]
    BY <2>2 DEF Calm, IInv, TypeOK
  <2>4. CASE stage = "wait"
    <3>1. ack'["wait"] = request_id /\ ack'["begin"] = ack["begin"] /\ ack'["end"] = ack["end"]
      BY <1>0, <2>3, <2>4
    <3>2. gpc = "wait" /\ ~begun /\ ack["begin"] = req["begin"] /\ ack["end"] = req["end"]
      BY <1>0, <2>1, <2>4 DEF InStep, Lockstep
    <3>3. /\ verdict' = verdict
          /\ \/ hpc' = "top" /\ stage' = "wait"
             \/ hpc' = "await" /\ stage' = "begin" /\ reply.ok
      BY <1>8, <2>1, <2>4 DEF AckClose, Refusing, Proceed, HostInv
    <3>4. QED
      BY <1>0, <2>1, <2>2, <3>1, <3>2, <3>3 DEF Lockstep, InStep, Answering
  <2>5. CASE stage = "begin"
    <3>1. ack'["begin"] = req["begin"] /\ ack'["wait"] = ack["wait"] /\ ack'["end"] = ack["end"]
      BY <1>0, <2>3, <2>5
    <3>2. gpc = "begin" /\ ~begun /\ ack["end"] = req["end"] /\ req["begin"] = request_id
      BY <1>0, <2>1, <2>5 DEF InStep
    <3>3. /\ verdict' = verdict
          /\ \/ hpc' = "top" /\ stage' = "wait" /\ ~reply.ok
             \/ hpc' = "await" /\ stage' = "end" /\ reply.ok /\ open /\ ownerReq = req["begin"]
      BY <1>8, <2>1, <2>2, <2>5 DEF AckClose, Refusing, Proceed, HostInv, Answering, Calm, IInv, TypeOK
    <3>4. QED
      BY <1>0, <2>1, <2>2, <3>1, <3>2, <3>3 DEF Lockstep, InStep, Answering
  <2>6. CASE stage = "end"
    BY <1>0, <1>8, <2>1, <2>2, <2>3, <2>6 DEF AckClose, Refusing, Proceed, Lockstep, InStep, Answering, HostInv
  <2>7. QED
    BY <1>0, <2>4, <2>5, <2>6
<1>9. ~(Exit \/ Crash \/ Restart)
  <2>1. crashes = 0 /\ crashes' = 0
    BY DEF Calm, Undisturbed
  <2>2. QED
    BY <2>1 DEF Exit, Crash, HostGone, Restart, HostInv
<1>10. QED
  BY <1>1, <1>2, <1>3, <1>4, <1>5, <1>6, <1>7, <1>8, <1>9 DEF HostSide, Host

LEMMA LockstepStep ==
  ASSUME IInv, [Next]_vars
  PROVE  Lockstep'
<1> SUFFICES ASSUME Undisturbed' PROVE Lockstep'
  BY DEF Lockstep
<1>1. CASE UNCHANGED vars
  BY <1>1 DEF IInv, Lockstep, Undisturbed, InStep, Alone, Answering, vars, block, game, hostvar
<1>2. CASE HostSide \/ Game
  <2>1. ~expired /\ reloads' = reloads /\ crashes \in Nat /\ crashes' >= crashes
    BY <1>2, HostFrame
       DEF IInv, TypeOK, Undisturbed, HostSide, Host, LeaveLoop, Crash, Restart, Pump, Await, AwaitExpires, WaitFrame,
           BeginFrame, EndFrame, AckOpen, AckClose, Exit, HostGone, block, game, hostvar, Game, UpdateAlone,
           CloseFrame, PostWait, LookSequence, LookReply, WaitServed, BeginServed, LookAgain, Deadline, Present,
           NoPresent
  <2>2. Calm
    BY <2>1 DEF Calm, Undisturbed
  <2>3. ~Deadline
    BY DEF Deadline, Undisturbed
  <2>4. QED
    BY <1>2, <2>2, <2>3, AskLockstep, PollLockstep, HostLockstep DEF Game
<1>3. CASE Reload
  BY <1>3 DEF Reload, Undisturbed, IInv, TypeOK
<1>4. QED
  BY <1>1, <1>2, <1>3 DEF Next, HostSide

-----------------------------------------------------------------------------
(* The results *)

LEMMA InitInv == Init => IInv
<1> SUFFICES ASSUME Init PROVE IInv
  OBVIOUS
<1>1. TypeOK
  <2>1. 0 \in 0 .. MaxReloads /\ 0 \in 0 .. MaxCrashes /\ 0 \in Ids
    BY IdTypes, HandshakeAssumption
  <2>2. look \in Looks
    BY DEF Init, NoLook, Looks, Answers
  <2>3. QED
    BY <2>1, <2>2 DEF Init, TypeOK, Looks, Answers, Stages
<1>2. HostInv /\ AskInv /\ LookInv
  BY DEF Init, HostInv, Serving, Answering, AskInv, LookInv, NoLook
<1>3. FirstLife /\ BegunInv /\ Lockstep
  BY IdTypes DEF Init, FirstLife, BegunInv, Lockstep, Alone, Answering, Stages
<1>4. QED
  BY <1>1, <1>2, <1>3 DEF IInv

LEMMA NextInv == IInv /\ [Next]_vars => IInv'
<1> SUFFICES ASSUME IInv, [Next]_vars PROVE IInv'
  OBVIOUS
<1>1. TypeOK'
  <2>1. CASE UNCHANGED vars
    BY <2>1 DEF IInv, TypeOK, vars, block, game, hostvar
  <2>2. QED
    BY <2>1, GameTypes, HostTypes DEF IInv, Next, GameSide, HostSide
<1>2. QED
  BY <1>1, HostStep, AskStep, LookStep, FirstLifeStep, BegunStep, LockstepStep DEF IInv

\* The inductive invariant of the two loops holds, whatever times out or restarts.
THEOREM Invariance == Spec => []IInv
  BY InitInv, NextInv, PTL DEF Spec

\* The block and both loops are well typed: no id is posted or acknowledged that was not
\* asked for.
THEOREM TypeCorrect == Spec => []TypeOK
<1>1. IInv => TypeOK
  BY DEF IInv
<1>2. QED
  BY <1>1, Invariance, PTL

\* In one life of the mod the runtime has begun the frame the game is to end, for its very
\* request: whatever timed out and however often the host was restarted.
THEOREM EndsBegun == Spec => []EndsOnlyWhatBegan
<1>1. IInv => EndsOnlyWhatBegan
  BY DEF IInv, BegunInv, EndsOnlyWhatBegan
<1>2. QED
  BY <1>1, Invariance, PTL

\* Nothing having timed out or restarted, no END of the game is refused.
THEOREM NoneRefused == Spec => []InLockstepUntilDisturbed
<1>1. IInv => InLockstepUntilDisturbed
  BY DEF IInv, Lockstep, InLockstepUntilDisturbed
<1>2. QED
  BY <1>1, Invariance, PTL

\* Nothing having timed out or restarted, a game in its frame has it open at the runtime.
THEOREM GameInsidePair == Spec => []InsideThePair
<1>1. IInv => InsideThePair
  <2>1. SUFFICES ASSUME IInv, Undisturbed, begun PROVE open /\ ownerReq = request_id
    BY DEF InsideThePair
  <2>2. /\ stage \in Stages /\ HostInv /\ drives /\ InStep
        /\ gpc \in {"update", "frame"} /\ req["begin"] = request_id
    BY <2>1 DEF IInv, TypeOK, Lockstep, Alone, FirstLife, Undisturbed
  <2>3. stage = "end" /\ hpc = "await"
    BY <2>1, <2>2 DEF InStep, Stages
  <2>4. QED
    BY <2>2, <2>3 DEF HostInv, InStep, Answering
<1>2. QED
  BY <1>1, Invariance, PTL

\* Every step of the two loops is a frame call the runtime allows, an answer that is due,
\* the loss of the session, or none of these.
LEMMA FrameCallsStep ==
  ASSUME IInv, [Next]_vars
  PROVE  [FC!Next]_(FC!vars)
<1> USE DEF FC!vars
<1>1. CASE BeginFrame
  <2>1. ~open /\ ownerReq = NoRequest /\ asked \in Ids \cup {NoRequest} /\ UNCHANGED <<endedReq, verdict>>
    BY <1>1 DEF BeginFrame, IInv, HostInv, Answering, TypeOK
  <2>2. \/ open' /\ ownerReq' = asked
        \/ ~open' /\ ownerReq' = NoRequest
    BY <1>1, <2>1 DEF BeginFrame
  <2>3. open' \in BOOLEAN /\ open \in BOOLEAN
    BY <1>1 DEF BeginFrame, IInv, TypeOK
  <2>4. QED
    BY <2>1, <2>2, <2>3 DEF FC!Next, FC!Begin
<1>2. CASE EndFrame
  <2>1. open /\ ~open' /\ endedReq' = ownerReq /\ ownerReq' = NoRequest /\ UNCHANGED verdict
    BY <1>2 DEF EndFrame, IInv, HostInv, Answering, TypeOK
  <2>2. open' = FALSE
    BY <1>2 DEF EndFrame
  <2>3. QED
    BY <2>1, <2>2 DEF FC!Next, FC!End
<1>3. CASE AckClose
  <2>1. asked \in Ids /\ UNCHANGED <<open, ownerReq, endedReq>> /\ open \in BOOLEAN
    BY <1>3 DEF AckClose, IInv, HostInv, Answering, TypeOK
  <2>2. CASE stage # "end"
    BY <1>3, <2>1, <2>2 DEF AckClose
  <2>3. CASE stage = "end" /\ open
    <3>1. verdict' = [id |-> asked, accepted |-> FALSE] /\ asked # ownerReq
      BY <1>3, <2>3 DEF AckClose, Refusing, IInv, HostInv, Answering
    <3>2. QED
      BY <2>1, <2>3, <3>1 DEF FC!Next, FC!Refuse
  <2>4. CASE stage = "end" /\ ~open
    <3>1. verdict' = [id |-> asked, accepted |-> TRUE] /\ asked = endedReq
      BY <1>3, <2>4 DEF AckClose, Refusing, IInv, HostInv, Answering
    <3>2. QED
      BY <2>1, <2>4, <3>1 DEF FC!Next, FC!Accept
  <2>5. QED
    BY <2>2, <2>3, <2>4
<1>4. CASE Exit \/ Crash
  BY <1>4 DEF Exit, Crash, HostGone, FC!Next, FC!Lose
<1>5. CASE UNCHANGED <<open, ownerReq, endedReq, verdict>>
  BY <1>5
<1>6. QED
  BY <1>1, <1>2, <1>3, <1>4, <1>5, GameFrame
     DEF Next, GameSide, Host, LeaveLoop, Restart, Pump, Await, AwaitExpires, WaitFrame, AckOpen, vars, hostvar

\* The host's loop implements the frame calls the runtime demands.
THEOREM FrameCallsRefined == Spec => ImplementsFrameCalls
<1>1. Init => FC!Init
  BY DEF Init, FC!Init, FC!NoVerdict
<1>2. QED
  BY <1>1, FrameCallsStep, Invariance, PTL DEF Spec, ImplementsFrameCalls, FC!Spec

-----------------------------------------------------------------------------
(* Pacing: the inductive invariant *)

\* The game waits only while it has not given up.
PatienceInv == pc = "wait" => m_consecutive_timeouts < kPacingGiveUp

\* The ticks a wait meets are among those counted since the last boundary, as long as the counter goes up.
CountInv ==
  m_phase_lock /\ ~lost =>
    /\ ahead >= 0
    /\ pc = "wait" => met <= ahead /\ met <= m_divisor

\* What an event that is set may still cost.
Renewals == met + (IF event THEN 1 ELSE 2)

\* Each turn of the wait is limited, and took an event: one left over, or that of a tick it met.
LimitInv == pc = "wait" => waited + left <= Renewals * Timeout

PacingInv == PacingTypeOK /\ PatienceInv /\ CountInv /\ LimitInv

(***************************************************************************)
(* A wait is over within two time limits more than it meets ticks: it is   *)
(* the host's ticks, and nothing else, that may keep wait_for_host_tick    *)
(* from its caller.                                                        *)
(***************************************************************************)
WaitIsLimited == pc = "wait" => waited <= (met + 2) * Timeout

-----------------------------------------------------------------------------
(* Pacing: arithmetic *)

LEMMA ConstantTypes ==
  /\ kDivisorWindow \in Nat /\ kDivisorWindow > 0
  /\ kMaxDivisor \in Nat /\ kMaxDivisor > 0
  /\ kPacingGiveUp \in Nat /\ kPacingGiveUp > 0
  /\ Period \in Nat /\ Period > 0
  /\ Longest \in Nat /\ Longest > 0
  /\ Timeout \in Nat /\ Timeout > 0
  /\ MaxChanges \in Nat
  BY PacingAssumption DEF Timeout

LEMMA OneMore ==
  ASSUME NEW n \in Nat
  PROVE  (n + 1) * Timeout = n * Timeout + Timeout
  BY ConstantTypes

\* A quotient is no larger than what is divided.
LEMMA Quotient ==
  ASSUME NEW x \in Nat, NEW y \in Nat, y > 0
  PROVE  x \div y \in 0 .. x
<1>1. x \div y \in Int /\ x = y * (x \div y) + (x % y) /\ x % y \in 0 .. y - 1
  OBVIOUS
<1>2. x \div y >= 0
  BY <1>1
<1>3. x \div y <= y * (x \div y)
  BY <1>1, <1>2
<1> QED
  BY <1>1, <1>2, <1>3

LEMMA Fields ==
  ASSUME PacingTypeOK
  PROVE  /\ work \in Nat /\ work > 0 /\ left \in Nat /\ toTick \in Nat /\ toTick > 0 /\ toTick <= Period
         /\ ahead \in Int /\ m_consecutive_timeouts \in Nat /\ m_consecutive_timeouts <= kPacingGiveUp
         /\ m_divisor \in Nat /\ m_divisor >= 1 /\ m_divisor <= kMaxDivisor
         /\ m_window_frames \in Nat /\ m_window_frames < kDivisorWindow
         /\ m_window_overruns \in Nat /\ m_window_overruns <= m_window_frames
         /\ m_window_work_qpc \in Nat /\ m_window_work_qpc <= Longest
         /\ m_period_qpc \in Nat /\ m_period_qpc <= Longest
         /\ since \in Nat /\ since <= Longest /\ waited \in Nat /\ met \in Nat
         /\ silent \in BOOLEAN /\ stated \in BOOLEAN /\ event \in BOOLEAN /\ m_phase_lock \in BOOLEAN
         /\ m_tick_primed \in BOOLEAN /\ timed \in BOOLEAN /\ lost \in BOOLEAN
  BY PacingAssumption, ConstantTypes DEF PacingTypeOK

\* What is left of a turn, and how long the frame and the wait have lasted, after some of it has passed.
LEMMA PassTypes ==
  ASSUME PacingTypeOK, NEW t \in Nat, t <= left, Pass(t)
  PROVE  left' \in Nat /\ since' \in 0 .. Longest /\ waited' \in Nat
  BY Fields, ConstantTypes DEF Pass, Least

\* The measures a boundary takes are no longer than the longest frame.
LEMMA MeasureTypes ==
  ASSUME PacingTypeOK, Reached
  PROVE  Sample \in 0 .. Longest /\ Smoothed \in 0 .. Longest /\ Worst \in 0 .. Longest
<1> USE Fields, ConstantTypes
<1>1. ahead \in Nat /\ ahead > 0
  BY DEF Reached
<1>2. Sample \in 0 .. since
  BY <1>1, Quotient DEF Sample
<1>3. Sample \in 0 .. Longest
  BY <1>2
<1>4. (m_period_qpc * 7 + Sample) \div 8 \in 0 .. Longest
  BY <1>3
<1>5. Worst \in 0 .. Longest
  BY DEF Worst
<1> QED
  BY <1>3, <1>4, <1>5 DEF Smoothed

LEMMA OverrunTypes ==
  ASSUME PacingTypeOK
  PROVE  Overruns \in 0 .. m_window_frames + 1
  BY Fields DEF Overruns

-----------------------------------------------------------------------------
(* Pacing: types *)

\* The parts of the type, as a step has to establish them.
Flags == silent \in BOOLEAN /\ stated \in BOOLEAN /\ event \in BOOLEAN /\ m_phase_lock \in BOOLEAN
         /\ m_tick_primed \in BOOLEAN /\ timed \in BOOLEAN /\ lost \in BOOLEAN
Counts == /\ left \in Nat /\ toTick \in 1 .. Period /\ ahead \in Int /\ changes \in 0 .. MaxChanges
          /\ m_consecutive_timeouts \in 0 .. kPacingGiveUp
Window == /\ m_divisor \in 1 .. kMaxDivisor /\ m_window_frames \in 0 .. kDivisorWindow - 1
          /\ m_window_overruns \in 0 .. m_window_frames /\ m_clean_windows \in 0 .. 1
Measures == /\ m_window_work_qpc \in 0 .. Longest /\ m_period_qpc \in 0 .. Longest /\ since \in 0 .. Longest
            /\ waited \in Nat /\ met \in Nat
Places == work \in Works /\ pc \in {"frame", "render", "call", "wait"}

LEMMA TypeParts == PacingTypeOK <=> Places /\ Flags /\ Counts /\ Window /\ Measures
<1>1. PacingTypeOK => Places /\ Flags
  BY DEF PacingTypeOK, Places, Flags
<1>2. PacingTypeOK => Counts /\ Window /\ Measures
  BY DEF PacingTypeOK, Counts, Window, Measures
<1>3. Flags => {silent, stated, event, m_phase_lock, m_tick_primed, timed, lost} \subseteq BOOLEAN
  BY DEF Flags
<1>4. Measures => {m_window_work_qpc, m_period_qpc, since} \subseteq 0 .. Longest /\ {waited, met} \subseteq Nat
  BY DEF Measures
<1>5. Counts => left \in Int /\ left >= 0
  BY DEF Counts
<1> QED
  BY <1>1, <1>2, <1>3, <1>4, <1>5 DEF PacingTypeOK, Places, Counts, Window

LEMMA PacingTypeInit == PacingInit => PacingTypeOK
<1> SUFFICES ASSUME PacingInit PROVE PacingTypeOK
  OBVIOUS
<1> USE ConstantTypes, PacingAssumption DEF PacingInit
<1>1. Places
  BY DEF Places
<1>2. Flags
  BY DEF Flags
<1>3. Counts
  BY DEF Counts
<1>4. Window
  BY DEF Window
<1>5. Measures
  BY DEF Measures
<1> QED
  BY <1>1, <1>2, <1>3, <1>4, <1>5, TypeParts

\* The end of a window leaves a divisor between one and the largest.
LEMMA WindowTypes ==
  ASSUME PacingTypeOK, NEW w \in Nat, NEW p \in Nat, WindowEnds(w, p)
  PROVE  /\ m_window_frames' = 0 /\ m_window_overruns' = 0 /\ m_window_work_qpc' = 0
         /\ m_divisor' \in 1 .. kMaxDivisor /\ m_clean_windows' \in 0 .. 1
<1> USE Fields, ConstantTypes
<1>1. CASE TooTight
  BY <1>1 DEF WindowEnds, Slower, Least
<1>2. CASE ~TooTight /\ Roomy(w, p)
  <2>1. m_divisor > 1
    BY <1>2 DEF Roomy
  <2>2. m_clean_windows \in 0 .. 1
    BY DEF PacingTypeOK
  <2> QED
    BY <1>2, <2>1, <2>2 DEF WindowEnds
<1>3. CASE ~TooTight /\ ~Roomy(w, p)
  BY <1>3 DEF WindowEnds
<1> QED
  BY <1>1, <1>2, <1>3

LEMMA BoundaryTypes ==
  ASSUME PacingTypeOK, Boundary
  PROVE  PacingTypeOK'
<1> USE Fields, ConstantTypes
<1> DEFINE worst == IF timed THEN Worst ELSE m_window_work_qpc
           period == IF timed THEN Smoothed ELSE m_period_qpc
<1>1. worst \in 0 .. Longest /\ period \in 0 .. Longest
  BY MeasureTypes DEF Boundary
<1>2. m_period_qpc' = period
  BY DEF Boundary
<1>3. /\ m_window_frames' \in 0 .. kDivisorWindow - 1 /\ m_window_overruns' \in 0 .. m_window_frames'
      /\ m_window_work_qpc' \in 0 .. Longest
      /\ m_divisor' \in 1 .. kMaxDivisor /\ m_clean_windows' \in 0 .. 1
  <2>1. CASE m_window_frames + 1 = kDivisorWindow
    <3>1. WindowEnds(worst, period)
      BY <2>1 DEF Boundary
    <3>2. worst \in Nat /\ period \in Nat
      BY <1>1
    <3> HIDE DEF worst, period
    <3> QED
      BY <3>1, <3>2, WindowTypes
  <2>2. CASE m_window_frames + 1 # kDivisorWindow
    <3>1. /\ m_window_frames' = m_window_frames + 1 /\ m_window_overruns' = Overruns /\ m_window_work_qpc' = worst
          /\ m_divisor' = m_divisor /\ m_clean_windows' = m_clean_windows
      BY <2>2 DEF Boundary
    <3>2. m_clean_windows \in 0 .. 1
      BY DEF PacingTypeOK
    <3> HIDE DEF worst, period
    <3> QED
      BY <2>2, <3>1, <3>2, <1>1, OverrunTypes
  <2> QED
    BY <2>1, <2>2
<1>4. /\ pc' = "frame" /\ ahead' = 0 /\ lost' = FALSE /\ m_consecutive_timeouts' = 0
      /\ timed' = TRUE /\ since' = 0 /\ waited' = 0
      /\ UNCHANGED <<work, left, silent, toTick, stated, changes, m_phase_lock, m_tick_primed, met>>
  BY DEF Boundary, host
<1> HIDE DEF worst, period
<1>5. Places'
  BY <1>4, TypeParts DEF Places
<1>6. Flags'
  <2>1. event' \in BOOLEAN
    BY DEF Boundary
  <2> QED
    BY <1>4, <2>1, TypeParts DEF Flags
<1>7. Counts'
  BY <1>4, TypeParts DEF Counts
<1>8. Window'
  BY <1>3 DEF Window
<1>9. Measures'
  BY <1>1, <1>2, <1>3, <1>4 DEF Measures
<1> QED
  BY <1>5, <1>6, <1>7, <1>8, <1>9, TypeParts, PTL

LEMMA PacingTypeStep ==
  ASSUME PacingInv, [PacingNext]_pacing_vars
  PROVE  PacingTypeOK'
<1> SUFFICES Places' /\ Flags' /\ Counts' /\ Window' /\ Measures'
  BY TypeParts, PTL
<1>1. PacingTypeOK /\ Places /\ Flags /\ Counts /\ Window /\ Measures
  BY TypeParts DEF PacingInv
<1> USE <1>1, Fields, ConstantTypes
<1>2. CASE HostTick
  <2>1. /\ Pass(toTick) /\ toTick <= left /\ toTick' = Period /\ stated' = TRUE /\ event' = TRUE
        /\ ahead' = (IF m_phase_lock THEN ahead + 1 ELSE 0)
        /\ met' = (IF pc = "wait" THEN met + 1 ELSE met)
        /\ UNCHANGED <<pc, work, timed, silent, changes, m_phase_lock, m_tick_primed, m_consecutive_timeouts, lost>>
        /\ UNCHANGED <<m_divisor, m_window_frames, m_window_overruns, m_clean_windows, m_window_work_qpc, m_period_qpc>>
    BY <1>2 DEF HostTick, Pass, pacer, divisor
  <2>2. left' \in Nat /\ since' \in 0 .. Longest /\ waited' \in Nat
    BY <2>1, PassTypes
  <2> QED
    BY <2>1, <2>2 DEF Places, Flags, Counts, Window, Measures
<1>3. CASE HostFalls
  BY <1>3 DEF HostFalls, Change, Places, Flags, Counts, Window, Measures, rendering, pacer, divisor, clock
<1>4. CASE HostResumes
  BY <1>4 DEF HostResumes, Places, Flags, Counts, Window, Measures, rendering, pacer, divisor, clock
<1>5. CASE SectionIsLost
  <2>1. ahead' \in Int
    BY <1>5, PacingAssumption DEF SectionIsLost
  <2> QED
    BY <1>5, <2>1 DEF SectionIsLost, Places, Flags, Counts, Window, Measures, rendering, pacer, divisor, clock
<1>6. CASE SceneChanges
  BY <1>6 DEF SceneChanges, Change, Places, Flags, Counts, Window, Measures, host, pacer, divisor, clock
<1>7. CASE Update
  BY <1>7, PacingAssumption DEF Update, Places, Flags, Counts, Window, Measures, host, pacer, divisor, clock
<1>8. CASE Rendered
  <2>1. /\ Pass(left) /\ pc' = "call" /\ toTick' \in 1 .. Period
        /\ UNCHANGED <<work, timed, silent, stated, event, ahead, changes, m_phase_lock, m_tick_primed, m_consecutive_timeouts, met, lost>>
        /\ UNCHANGED <<m_divisor, m_window_frames, m_window_overruns, m_clean_windows, m_window_work_qpc, m_period_qpc>>
    BY <1>8 DEF Rendered, Pass, pacer, divisor
  <2>2. left' \in Nat /\ since' \in 0 .. Longest /\ waited' \in Nat
    BY <2>1, PassTypes
  <2> QED
    BY <2>1, <2>2 DEF Places, Flags, Counts, Window, Measures
<1>9. CASE MidPublish
  BY <1>9 DEF MidPublish, Change, Places, Flags, Counts, Window, Measures, host, pacer, divisor, clock
<1>10. CASE FailOpen
  <2>1. /\ pc' = "frame"
        /\ UNCHANGED <<work, left, silent, toTick, stated, ahead, changes, m_phase_lock, m_tick_primed, met, lost>>
        /\ UNCHANGED divisor /\ UNCHANGED clock
    BY <1>10 DEF FailOpen, host
  <2>2. m_consecutive_timeouts' \in 0 .. kPacingGiveUp /\ event' \in BOOLEAN
    <3>1. CASE stated /\ event
      <4>1. m_consecutive_timeouts' = 0 /\ event' = FALSE
        BY <1>10, <3>1 DEF FailOpen
      <4>2. event' \in BOOLEAN
        BY <4>1, Zenon
      <4> QED
        BY <4>1, <4>2
    <3>2. CASE ~(stated /\ event)
      <4>1. m_consecutive_timeouts' = m_consecutive_timeouts /\ event' = event
        BY <1>10, <3>2 DEF FailOpen
      <4>2. event \in BOOLEAN
        BY DEF Flags
      <4> QED
        BY <4>1, <4>2 DEF Counts
    <3> QED
      BY <3>1, <3>2
  <2> QED
    BY <2>1, <2>2 DEF Places, Flags, Counts, Window, Measures, divisor, clock
<1>11. CASE BeginWait
  <2>1. /\ pc' = "wait" /\ left' = Timeout /\ waited' = 0 /\ met' = 0
        /\ UNCHANGED <<work, silent, toTick, stated, event, changes, m_phase_lock, m_consecutive_timeouts, timed, since>>
        /\ UNCHANGED <<m_window_work_qpc, m_period_qpc>>
    BY <1>11 DEF BeginWait, FreshStart, host, divisor
  <2>2. Window' /\ ahead' \in Int /\ lost' \in BOOLEAN /\ m_tick_primed' \in BOOLEAN
    <3>1. CASE m_phase_lock /\ Stale
      <4>1. /\ m_divisor' = 1 /\ m_window_frames' = 0 /\ m_window_overruns' = 0 /\ m_clean_windows' = 0
            /\ ahead' = 0 /\ lost' = FALSE /\ m_tick_primed' = TRUE
        BY <1>11, <3>1 DEF BeginWait, FreshStart
      <4>2. Window' /\ ahead' \in Int
        BY <4>1 DEF Window
      <4>3. lost' \in BOOLEAN /\ m_tick_primed' \in BOOLEAN
        BY <4>1, Zenon
      <4> QED
        BY <4>2, <4>3
    <3>2. CASE ~(m_phase_lock /\ Stale)
      BY <1>11, <3>2 DEF BeginWait, divisor, Window
    <3> QED
      BY <3>1, <3>2
  <2> QED
    BY <2>1, <2>2 DEF Places, Flags, Counts, Measures
<1>12. CASE Waken
  <2>1. /\ event' = FALSE
        /\ UNCHANGED <<work, silent, toTick, stated, ahead, changes, m_phase_lock, m_tick_primed, met, lost>>
        /\ UNCHANGED divisor /\ UNCHANGED clock
    BY <1>12 DEF Waken, host
  <2>2. left' \in Nat /\ m_consecutive_timeouts' \in 0 .. kPacingGiveUp /\ pc' \in {"wait", "frame"}
    <3>1. CASE m_phase_lock
      BY <1>12, <3>1 DEF Waken, Counts
    <3>2. CASE ~m_phase_lock
      BY <1>12, <3>2 DEF Waken, Counts
    <3> QED
      BY <3>1, <3>2
  <2> QED
    BY <2>1, <2>2 DEF Places, Flags, Counts, Window, Measures, divisor, clock
<1>13. CASE TimesOut
  <2>1. /\ Pass(left) /\ pc' = "frame" /\ toTick' \in 1 .. Period
        /\ m_consecutive_timeouts' = m_consecutive_timeouts + 1
        /\ UNCHANGED <<work, timed, silent, stated, event, ahead, changes, m_phase_lock, m_tick_primed, met, lost>>
        /\ UNCHANGED <<m_divisor, m_window_frames, m_window_overruns, m_clean_windows, m_window_work_qpc, m_period_qpc>>
    BY <1>13 DEF TimesOut, Pass, divisor
  <2>2. left' \in Nat /\ since' \in 0 .. Longest /\ waited' \in Nat
    BY <2>1, PassTypes
  <2>3. m_consecutive_timeouts < kPacingGiveUp
    BY <1>13 DEF TimesOut, PacingInv, PatienceInv
  <2> QED
    BY <2>1, <2>2, <2>3 DEF Places, Flags, Counts, Window, Measures
<1>14. CASE Boundary
  BY <1>14, BoundaryTypes, TypeParts, PTL
<1>15. CASE UNCHANGED pacing_vars
  BY <1>15 DEF pacing_vars, rendering, host, clock, pacer, divisor, Places, Flags, Counts, Window, Measures
<1> QED
  BY <1>2, <1>3, <1>4, <1>5, <1>6, <1>7, <1>8, <1>9, <1>10, <1>11, <1>12, <1>13, <1>14, <1>15
  DEF PacingNext, wait_for_host_tick

-----------------------------------------------------------------------------
(* Pacing: patience, and the count of ticks *)

LEMMA PatienceStep ==
  ASSUME PacingInv, [PacingNext]_pacing_vars
  PROVE  PatienceInv'
<1> USE Fields, ConstantTypes DEF PatienceInv
<1>1. PacingTypeOK /\ PatienceInv
  BY DEF PacingInv
<1>2. CASE BeginWait
  BY <1>1, <1>2 DEF BeginWait, GivenUp
<1>3. CASE Waken
  BY <1>1, <1>3 DEF Waken
<1>4. CASE TimesOut \/ Boundary \/ FailOpen \/ MidPublish \/ Rendered \/ Update
  BY <1>4 DEF TimesOut, Boundary, FailOpen, MidPublish, Rendered, Update
<1>5. CASE HostTick \/ HostFalls \/ HostResumes \/ SectionIsLost \/ SceneChanges \/ UNCHANGED pacing_vars
  BY <1>1, <1>5 DEF HostTick, HostFalls, HostResumes, SectionIsLost, SceneChanges, pacing_vars, pacer, rendering
<1> QED
  BY <1>2, <1>3, <1>4, <1>5 DEF PacingNext, wait_for_host_tick

LEMMA CountStep ==
  ASSUME PacingInv, [PacingNext]_pacing_vars
  PROVE  CountInv'
<1> USE Fields, ConstantTypes DEF CountInv
<1>1. PacingTypeOK /\ CountInv
  BY DEF PacingInv
<1>2. CASE HostTick
  <2> SUFFICES ASSUME m_phase_lock, ~lost
               PROVE  ahead' >= 0 /\ (pc = "wait" => met' <= ahead' /\ met' <= m_divisor')
    BY <1>2 DEF HostTick
  <2>1. /\ ahead' = ahead + 1 /\ (pc = "wait" => met' = met + 1) /\ m_divisor' = m_divisor
        /\ Timing
    BY <1>2 DEF HostTick, Pass, divisor
  <2>2. CASE pc = "wait"
    <3>1. ahead < m_divisor
      BY <1>1, <2>1, <2>2 DEF Timing, Awake, Reached
    <3> QED
      BY <1>1, <2>1, <2>2, <3>1
  <2>3. CASE pc # "wait"
    BY <1>1, <2>1, <2>3
  <2> QED
    BY <2>2, <2>3
<1>3. CASE BeginWait
  <2>1. m_phase_lock' = m_phase_lock /\ met' = 0
    BY <1>3 DEF BeginWait
  <2>2. CASE m_phase_lock /\ Stale
    BY <1>3, <2>1, <2>2 DEF BeginWait, FreshStart
  <2>3. CASE ~(m_phase_lock /\ Stale)
    BY <1>1, <1>3, <2>1, <2>3 DEF BeginWait, divisor
  <2> QED
    BY <2>2, <2>3
<1>4. CASE Waken
  BY <1>1, <1>4 DEF Waken, divisor
<1>5. CASE Boundary
  BY <1>5 DEF Boundary
<1>6. CASE SectionIsLost
  BY <1>6 DEF SectionIsLost
<1>7. CASE TimesOut \/ FailOpen \/ MidPublish \/ Rendered \/ Update
  BY <1>1, <1>7 DEF TimesOut, FailOpen, MidPublish, Rendered, Update
<1>8. CASE HostFalls \/ HostResumes \/ SceneChanges \/ UNCHANGED pacing_vars
  BY <1>1, <1>8 DEF HostFalls, HostResumes, SceneChanges, pacing_vars, rendering, divisor
<1> QED
  BY <1>2, <1>3, <1>4, <1>5, <1>6, <1>7, <1>8 DEF PacingNext, wait_for_host_tick

-----------------------------------------------------------------------------
(* Pacing: how long a wait may last *)

\* A turn that is renewed has used up an event; a tick that is met brings one.
LEMMA LimitStep ==
  ASSUME PacingInv, [PacingNext]_pacing_vars
  PROVE  LimitInv'
<1> USE Fields, ConstantTypes DEF LimitInv
<1>1. PacingTypeOK /\ LimitInv
  BY DEF PacingInv
<1>2. CASE HostTick
  <2> SUFFICES ASSUME pc = "wait" PROVE waited' + left' <= Renewals' * Timeout
    BY <1>2 DEF HostTick
  <2>1. /\ left' = left - toTick /\ waited' = waited + toTick /\ met' = met + 1 /\ event' = TRUE
        /\ ~event
    BY <1>2 DEF HostTick, Pass, Timing, Awake
  <2>2. Renewals' = Renewals
    BY <1>1, <2>1 DEF Renewals
  <2> QED
    BY <1>1, <2>1, <2>2 DEF Renewals
<1>3. CASE BeginWait
  <2>1. waited' = 0 /\ left' = Timeout /\ met' = 0
    BY <1>3 DEF BeginWait
  <2>2. Renewals' = 1 \/ Renewals' = 2
    BY <2>1 DEF Renewals
  <2> QED
    BY <2>1, <2>2
<1>4. CASE Waken
  <2> SUFFICES ASSUME m_phase_lock PROVE waited' + left' <= Renewals' * Timeout
    BY <1>4 DEF Waken
  <2>1. /\ left' = Timeout /\ waited' = waited /\ met' = met /\ event' = FALSE /\ event /\ pc = "wait"
    BY <1>4 DEF Waken, clock
  <2>2. Renewals = met + 1 /\ Renewals' = (met + 1) + 1
    BY <1>1, <2>1 DEF Renewals
  <2>3. Renewals' * Timeout = Renewals * Timeout + Timeout
    BY <1>1, <2>2, OneMore
  <2> DEFINE before == Renewals * Timeout
             after == Renewals' * Timeout
  <2>4. before \in Int /\ waited <= before
    BY <1>1, <2>1, <2>2
  <2>5. after = before + Timeout
    BY <2>3
  <2>6. waited + Timeout <= after
    <3> HIDE DEF before, after
    <3> QED
      BY <1>1, <2>4, <2>5
  <2> QED
    BY <2>1, <2>6
<1>5. CASE TimesOut \/ Boundary \/ FailOpen \/ MidPublish \/ Rendered \/ Update
  BY <1>5 DEF TimesOut, Boundary, FailOpen, MidPublish, Rendered, Update
<1>6. CASE HostFalls \/ UNCHANGED pacing_vars
  BY <1>1, <1>6 DEF HostFalls, pacing_vars, rendering, clock, Renewals
<1>7. CASE HostResumes \/ SectionIsLost \/ SceneChanges
  BY <1>7 DEF HostResumes, SectionIsLost, SceneChanges, rendering
<1> QED
  BY <1>2, <1>3, <1>4, <1>5, <1>6, <1>7 DEF PacingNext, wait_for_host_tick

-----------------------------------------------------------------------------
(* Pacing: theorems *)

\* The inductive invariant holds of every state of the pacing.
THEOREM PacingInvariance == PacingSpec => []PacingInv
<1>1. PacingInit => PacingInv
  BY PacingTypeInit DEF PacingInit, PacingInv, PatienceInv, CountInv, LimitInv
<1>2. PacingInv /\ [PacingNext]_pacing_vars => PacingInv'
  BY PacingTypeStep, PatienceStep, CountStep, LimitStep DEF PacingInv
<1> QED
  BY <1>1, <1>2, PTL DEF PacingSpec

(***************************************************************************)
(* The pacer's counters keep within their limits, for every window,        *)
(* largest divisor and give-up, whatever the scene costs.                  *)
(***************************************************************************)
THEOREM PacingTypeCorrect == PacingSpec => []PacingTypeOK
<1>1. PacingInv => PacingTypeOK
  BY DEF PacingInv
<1> QED
  BY <1>1, PacingInvariance, PTL

(***************************************************************************)
(* wait_for_host_tick returns after as many ticks as the divisor says,     *)
(* whatever the game missed before it called, unless the host's counter    *)
(* has started over since the pacer read it.                               *)
(***************************************************************************)
THEOREM PacedByTheDivisor == PacingSpec => []WaitsForTheDivisor
<1>1. PacingInv => WaitsForTheDivisor
  BY DEF PacingInv, CountInv, WaitsForTheDivisor
<1> QED
  BY <1>1, PacingInvariance, PTL

(***************************************************************************)
(* A wait lasts no longer than its limit for each tick it meets, and two   *)
(* more: a host that falls silent, and an event left over from before the  *)
(* wait, hold the game up by one limit each.                               *)
(***************************************************************************)
THEOREM WaitsAreLimited == PacingSpec => []WaitIsLimited
<1>1. ASSUME PacingInv PROVE WaitIsLimited
  <2> SUFFICES ASSUME pc = "wait" PROVE waited <= (met + 2) * Timeout
    BY DEF WaitIsLimited
  <2> USE Fields, ConstantTypes
  <2>1. PacingTypeOK /\ waited + left <= Renewals * Timeout
    BY <1>1 DEF PacingInv, LimitInv
  <2>2. (met + 2) * Timeout = (met + 1) * Timeout + Timeout
    BY <2>1, OneMore
  <2>3. Renewals = met + 1 \/ Renewals = met + 2
    BY DEF Renewals
  <2>4. (met + 1) * Timeout \in Int
    BY <2>1
  <2> QED
    BY <2>1, <2>2, <2>3, <2>4
<1> QED
  BY <1>1, PacingInvariance, PTL

=============================================================================
