----------------------------- MODULE PosePairing -----------------------------
(***************************************************************************)
(* Which pose a picture is submitted with. The host publishes the head's   *)
(* pose in HostState and keeps it under its sequence; the game ingests it  *)
(* in VR::on_frame, corrects the camera with a newer one at the draw       *)
(* (late_latch_head), stamps the readback with a sequence and with the     *)
(* rotation it was drawn from, and publishes it one frame later; the host  *)
(* uploads it, looks its pose up and submits the two together.             *)
(*                                                                         *)
(* Poses are numbered as the host locates them, 0 is the identity nothing  *)
(* has replaced, and Mixed a rotation no located pose has. The frame       *)
(* section is the mailbox that FrameSlots implements.                      *)
(***************************************************************************)
EXTENDS Integers, FiniteSets

CONSTANTS
  History,     \* pose_history's length
  MaxPoses,    \* bound: poses published
  MaxCadences  \* bound: publishes of a new display period alone

ASSUME PairingAssumption ==
  History \in Nat \ {0} /\ {MaxPoses, MaxCadences} \subseteq Nat

VARIABLES
  sequence, rotation,        \* HostState: the seqlock, and the pose in two halves
  \* the host
  hpc, located,
  published_sequence, pose_history,
  bare,                      \* sequences that stand for a new display period alone
  snap,                      \* what the last poll that found a frame has taken
  \* the game's thread
  gpc, seq0, half,           \* a seqlock read: the sequence, and the first half read
  head,                      \* SimulatedRuntime's head pose
  head_eng,                  \* g_head_eng: the reference of the latch's delta
  outer,                     \* HeadTracking's rotation
  last_host_sequence,
  wire,                      \* g_head_xr_wire, 0: not valid
  drawn, agreed,             \* the rotation this frame is drawn from; it was composed and latched
  m_pipe,                    \* the readback issued last; the other surface was locked
  header,                    \* the mailbox: the newest frame until it is polled
  issued                     \* history: per sequence, the pose published under it

host == <<hpc, located, published_sequence, pose_history, bare, snap>>
read == <<seq0, half>>
view == <<head, head_eng, outer, last_host_sequence, wire, drawn, agreed>>
game == <<gpc, read, view, m_pipe>>
vars == <<sequence, rotation, host, game, header, issued>>

Mixed == -1
Poses == 0 .. MaxPoses
Rotations == Poses \cup {Mixed}
Sequences == 0 .. 2 * (MaxPoses + MaxCadences)
Odd(n) == n % 2 = 1
\* Fault: the window is never closed.
Even_Open(n) == n

Even(n) == IF Odd(n) THEN n + 1 ELSE n

\* What a reader of the two halves has got.
Halves(a, b) == IF a = b THEN a ELSE Mixed

NoFrame == [img |-> 0, seq |-> 0, pose |-> 0, agreed |-> FALSE, ok |-> FALSE]
NoEntry == [sequence |-> 0, pose |-> 0]
Entry(s) == pose_history[(s \div 2) % History]

Init ==
  /\ sequence = 0 /\ rotation = <<0, 0>>
  /\ hpc = "locate" /\ located = 0
  /\ published_sequence = 0 /\ pose_history = [i \in 0 .. History - 1 |-> NoEntry]
  /\ bare = {} /\ snap = NoFrame
  /\ gpc = "ingest" /\ seq0 = 0 /\ half = 0
  /\ head = 0 /\ head_eng = 0 /\ outer = 0 /\ last_host_sequence = 0
  /\ wire = 0 /\ drawn = 0 /\ agreed = FALSE
  /\ m_pipe = NoFrame
  /\ header = NoFrame
  /\ issued = [s \in Sequences |-> 0]

-----------------------------------------------------------------------------
(* The host's frame loop *)

HStep(from, to) == hpc = from /\ hpc' = to

OpenPose ==
  /\ HStep("locate", "first")
  /\ located < MaxPoses
  /\ located' = located + 1
  /\ sequence' = IF Odd(sequence) THEN sequence ELSE sequence + 1
  /\ UNCHANGED <<rotation, published_sequence, pose_history, bare, snap, game, header, issued>>

WriteHalf ==
  /\ \/ HStep("first", "second") /\ rotation' = [rotation EXCEPT ![1] = located]
     \/ HStep("second", "close") /\ rotation' = [rotation EXCEPT ![2] = located]
  /\ UNCHANGED <<sequence, located, published_sequence, pose_history, bare, snap, game, header, issued>>

\* What was just handed out is kept in entry i, so that a frame drawn from it can be
\* submitted with it.
KeepIn(i) ==
  /\ HStep("close", "poll")
  /\ sequence' = Even(sequence)
  /\ published_sequence' = sequence'
  /\ pose_history' = [pose_history EXCEPT ![i % History] = [sequence |-> sequence', pose |-> located]]
  /\ issued' = [issued EXCEPT ![sequence'] = located]
  /\ UNCHANGED <<rotation, located, bare, snap, game, header>>

\* Fault: the pose is kept one entry late.
ClosePose_NextEntry == KeepIn(Even(sequence) \div 2 + 1)

ClosePose == KeepIn(Even(sequence) \div 2)

\* The runtime has no pose for this frame; a changed display period goes out alone, in a
\* window of its own that pose_history does not hear of.
NoPose ==
  /\ hpc = "locate"
  /\ \/ hpc' = "poll" /\ UNCHANGED <<sequence, bare>>
     \/ /\ Cardinality(bare) < MaxCadences
        /\ hpc' = "cadence"
        /\ sequence' = IF Odd(sequence) THEN sequence ELSE sequence + 1
        /\ bare' = bare \cup {sequence' + 1}
  /\ UNCHANGED <<rotation, located, published_sequence, pose_history, snap, game, header, issued>>

CloseCadence ==
  /\ HStep("cadence", "poll")
  /\ sequence' = Even(sequence)
  /\ issued' = [issued EXCEPT ![sequence'] = Halves(rotation[1], rotation[2])]
  /\ UNCHANGED <<rotation, located, published_sequence, pose_history, bare, snap, game, header>>

\* SharedReader::poll and the upload; without a new frame the last one is repeated
Poll ==
  /\ HStep("poll", "submit")
  /\ snap' = IF header.ok THEN header ELSE snap
  /\ header' = NoFrame
  /\ UNCHANGED <<sequence, rotation, located, published_sequence, pose_history, bare, game, issued>>

\* the layers of this iteration go out
Submit ==
  /\ HStep("submit", "locate")
  /\ UNCHANGED <<sequence, rotation, located, published_sequence, pose_history, bare, snap, game, header, issued>>

Host ==
  \/ OpenPose \/ WriteHalf \/ ClosePose \/ NoPose \/ CloseCadence
  \/ Poll \/ Submit

-----------------------------------------------------------------------------
(* VR::on_frame, the draw and FrameCapture::service_continuous, on one thread *)

GStep(from, to) == gpc = from /\ gpc' = to

Valid == rotation[2] # 0  \* HostState::valid, set within the window of the first pose

\* mid-write, nothing new, or no pose yet: the previous pose stands
IngestNothing ==
  /\ GStep("ingest", "tail")
  /\ Odd(sequence) \/ sequence = last_host_sequence \/ ~Valid
  /\ UNCHANGED <<sequence, rotation, host, read, view, m_pipe, header, issued>>

Ingest ==
  /\ GStep("ingest", "first")
  /\ ~Odd(sequence) /\ sequence # last_host_sequence /\ Valid
  /\ seq0' = sequence
  /\ UNCHANGED <<sequence, rotation, host, half, view, m_pipe, header, issued>>

ReadHalf ==
  /\ \/ gpc \in {"first", "latch first"} /\ half' = rotation[1]
     \/ gpc \in {"second", "latch second"} /\ half' = Halves(half, rotation[2])
  /\ \/ GStep("first", "second") \/ GStep("second", "recheck")
     \/ GStep("latch first", "latch second") \/ GStep("latch second", "latch")
  /\ UNCHANGED <<sequence, rotation, host, seq0, view, m_pipe, header, issued>>

\* Fault: the sequence is not read again.
Recheck_Never ==
  /\ GStep("recheck", "tail")
  /\ head' = half /\ last_host_sequence' = seq0
  /\ seq0' = 0 /\ half' = 0
  /\ UNCHANGED <<sequence, rotation, host, head_eng, outer, wire, drawn, agreed, m_pipe, header, issued>>

Recheck ==
  /\ GStep("recheck", "tail")
  /\ IF sequence = seq0
     THEN head' = half /\ last_host_sequence' = seq0
     ELSE UNCHANGED <<head, last_host_sequence>>
  /\ seq0' = 0 /\ half' = 0
  /\ UNCHANGED <<sequence, rotation, host, head_eng, outer, wire, drawn, agreed, m_pipe, header, issued>>

\* The head becomes the latch's reference in any case, and the camera's outer rotation
\* when the body has a heading; the engine then composes the camera with that.
Compose ==
  /\ GStep("tail", "draw")
  /\ head_eng' = head
  /\ \/ outer' = head /\ agreed' = TRUE
     \/ outer' = outer /\ agreed' = FALSE
  /\ UNCHANGED <<sequence, rotation, host, read, head, last_host_sequence, wire, drawn, m_pipe, header, issued>>

\* late_latch_head reads a second time, for the draw
LatchStart ==
  /\ GStep("draw", "latch first")
  /\ ~Odd(sequence) /\ Valid
  /\ seq0' = sequence
  /\ UNCHANGED <<sequence, rotation, host, half, view, m_pipe, header, issued>>

\* off, mid-write, or no pose: the camera stays as composed
NoLatch ==
  /\ GStep("draw", "capture")
  /\ drawn' = outer /\ agreed' = FALSE
  /\ UNCHANGED <<sequence, rotation, host, read, head, head_eng, outer, last_host_sequence, wire, m_pipe, header, issued>>

\* With a whole pose and a heading the camera turns by what separates that pose from the
\* reference, and commit_wire_head_pose makes it the pose this frame states. Without
\* either the camera stays as composed and the pose stated before stands.
Latch ==
  /\ GStep("latch", "capture")
  /\ \/ /\ sequence = seq0
        /\ head_eng' = half /\ last_host_sequence' = seq0
        /\ wire' = half
        /\ drawn' = IF outer = head_eng THEN half ELSE Mixed
        /\ UNCHANGED agreed
     \/ /\ drawn' = outer /\ agreed' = FALSE
        /\ UNCHANGED <<head_eng, last_host_sequence, wire>>
  /\ seq0' = 0 /\ half' = 0
  /\ UNCHANGED <<sequence, rotation, host, head, outer, m_pipe, header, issued>>

Stamped ==
  [img |-> drawn, seq |-> last_host_sequence, pose |-> wire, agreed |-> agreed, ok |-> TRUE]

\* GetRenderTargetData may fail, and so may the lock of the surface issued a frame ago;
\* what was read back is published as it was stamped, or not at all.
CaptureAs(published) ==
  /\ GStep("capture", "ingest")
  /\ m_pipe' \in {Stamped, NoFrame}
  /\ \/ m_pipe.ok /\ header' = published
     \/ UNCHANGED header
  /\ drawn' = 0 /\ agreed' = FALSE
  /\ UNCHANGED <<sequence, rotation, host, read, head, head_eng, outer, last_host_sequence, wire, issued>>

\* Fault: the stamp is taken when the surface is locked.
Capture_StampedLate ==
  CaptureAs([m_pipe EXCEPT !.seq = last_host_sequence, !.pose = wire])

Capture == CaptureAs(m_pipe)

Game ==
  \/ IngestNothing \/ Ingest \/ ReadHalf \/ Recheck \/ Compose
  \/ LatchStart \/ NoLatch \/ Latch \/ Capture

Next == Host \/ Game

Spec == Init /\ [][Next]_vars

-----------------------------------------------------------------------------
(* What must hold *)

Frames == [img : Rotations, seq : Sequences, pose : Rotations, agreed : BOOLEAN, ok : BOOLEAN]

\* Every variable has its type (HostState, PosePair, VR's and FrameCapture's members).
TypeOK ==
  /\ sequence \in Sequences /\ rotation \in Poses \X Poses
  /\ hpc \in {"locate", "first", "second", "close", "cadence", "poll", "submit"}
  /\ located \in Poses /\ {published_sequence, last_host_sequence} \subseteq {s \in Sequences : ~Odd(s)}
  /\ pose_history \in [0 .. History - 1 -> [sequence : Sequences, pose : Poses]]
  /\ bare \subseteq Sequences
  /\ gpc \in {"ingest", "first", "second", "recheck", "tail", "draw", "latch first", "latch second", "latch", "capture"}
  /\ seq0 \in Sequences
  /\ {half, head, head_eng, outer, wire, drawn} \subseteq Rotations
  /\ agreed \in BOOLEAN
  /\ {m_pipe, header, snap} \subseteq Frames
  /\ issued \in [Sequences -> Rotations]

\* No camera turns by a pose read across a publish (the seqlock reads of VR::on_frame
\* and late_latch_head).
NeverTorn == Mixed \notin {head, wire}

\* Composed and latched in one go, a frame keeps its three names of one pose through the
\* readback, the section and the poll: the rotation it was drawn from is the one it
\* states, and the one its sequence was issued for.
FramesAgree ==
  \A f \in {m_pipe, header, snap} :
    f.agreed /\ f.ok => f.img = f.pose /\ f.pose = issued[f.seq]

Hit == Entry(snap.seq).sequence = snap.seq

\* The lookup never answers with another pose's entry, and it misses only for a frame
\* that is older than the history, or stamped with a publish of the display period alone
\* (the frame loop, pose_known).
LookupIsExact ==
  hpc = "submit" /\ snap.seq # 0 =>
    IF Hit THEN Entry(snap.seq).pose = issued[snap.seq]
    ELSE published_sequence >= snap.seq + 2 * History \/ snap.seq \in bare

=============================================================================
