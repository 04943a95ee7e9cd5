-------------------------- MODULE PosePairing_proofs --------------------------
(***************************************************************************)
(* Proofs about the pose a picture is submitted with, for any length of    *)
(* the history and any number of poses and display periods published.      *)
(***************************************************************************)
EXTENDS PosePairing, FiniteSetTheorems, TLAPS

-----------------------------------------------------------------------------
(* The inductive invariant *)

\* Every pose and every period published is one turn of the seqlock.
CountInv ==
  /\ IsFiniteSet(bare) /\ Cardinality(bare) <= MaxCadences
  /\ Odd(sequence) <=> hpc \in {"first", "second", "close", "cadence"}
  /\ Even(sequence) = 2 * (located + Cardinality(bare))
  /\ \A b \in bare : b <= Even(sequence)
  /\ hpc = "cadence" => Even(sequence) \in bare
  /\ published_sequence <= sequence

\* HostState holds one pose outside the window of a publish, and that is the one its
\* sequence was issued for.
PoseInv ==
  /\ hpc = "first" => rotation = <<located - 1, located - 1>> /\ located > 0
  /\ hpc = "second" => rotation = <<located, located - 1>>
  /\ hpc \notin {"first", "second"} => rotation = <<located, located>>
  /\ ~Odd(sequence) => issued[sequence] = located

\* An entry has the pose of the publish it is kept under, and every pose is kept until as
\* many publishes as there are entries have followed.
HistoryInv ==
  /\ \A i \in 0 .. History - 1 :
       LET e == pose_history[i] IN ~Odd(e.sequence) /\ e.sequence <= sequence /\ e.pose = issued[e.sequence]
  /\ \A s \in Sequences : ~Odd(s) /\ s # 0 /\ s <= sequence /\ s \notin bare =>
       Entry(s).sequence = s \/ published_sequence >= s + 2 * History

Agrees(f) == f.agreed /\ f.ok => f.img = f.pose /\ f.pose = issued[f.seq]

\* A frame is stamped with a publish that is over.
FrameInv ==
  /\ \A f \in {m_pipe, header, snap} : ~Odd(f.seq) /\ f.seq <= sequence /\ Agrees(f)
  /\ last_host_sequence <= sequence

\* As long as the sequence stands, what a reader has got is HostState's pose.
ReadInv ==
  /\ gpc \in {"first", "second", "recheck", "latch first", "latch second", "latch"} =>
       ~Odd(seq0) /\ seq0 <= sequence
  /\ gpc \in {"second", "recheck", "latch second", "latch"} /\ seq0 = sequence => half = located
  /\ NeverTorn

\* A frame that is still composed and latched in one go has one pose.
DrawInv ==
  /\ gpc \in {"draw", "latch first", "latch second", "latch"} /\ agreed => outer = head_eng
  /\ gpc = "capture" /\ agreed => drawn = wire /\ wire = issued[last_host_sequence]

IInv ==
  /\ TypeOK
  /\ CountInv
  /\ PoseInv
  /\ HistoryInv
  /\ FrameInv
  /\ ReadInv
  /\ DrawInv

-----------------------------------------------------------------------------
(* Parities, and the entries of the history *)

LEMMA Parity ==
  ASSUME NEW n \in Nat
  PROVE  /\ Odd(n) \in BOOLEAN
         /\ ~Odd(n) => Odd(n + 1) /\ Even(n) = n /\ Even(n + 1) = n + 2 /\ ~Odd(n + 2)
         /\ Odd(n) => Even(n) = n + 1 /\ ~Odd(n + 1)
  BY DEF Odd, Even

\* Two even numbers are that far apart as their halves are.
LEMMA Halving ==
  ASSUME NEW n \in Nat, ~Odd(n)
  PROVE  n \div 2 \in Nat /\ n = 2 * (n \div 2)
  BY DEF Odd

LEMMA Division ==
  ASSUME NEW a \in Nat, NEW h \in Nat \ {0}
  PROVE  a \div h \in Int /\ a % h \in 0 .. h - 1 /\ a = h * (a \div h) + (a % h)
<1>1. a \div h \in Int
  OBVIOUS
<1>2. a % h \in 0 .. h - 1
  OBVIOUS
<1>3. a = h * (a \div h) + (a % h)
  OBVIOUS
<1>4. QED
  BY <1>1, <1>2, <1>3

LEMMA Multiples ==
  ASSUME NEW h \in Nat \ {0}, NEW x \in Int, NEW y \in Int, h * x - h * y > 0
  PROVE  h * x - h * y >= h
<1>1. h * x - h * y = h * (x - y)
  OBVIOUS
<1>2. \A d \in Int : h * d > 0 => h * d >= h
  OBVIOUS
<1>3. QED
  BY <1>1, <1>2

\* Two numbers with one place in a ring are at least its length apart.
LEMMA OnePlace ==
  ASSUME NEW h \in Nat \ {0}, NEW a \in Nat, NEW b \in Nat, a < b, a % h = b % h
  PROVE  b >= a + h
<1> DEFINE qa == a \div h
<1> DEFINE qb == b \div h
<1>1. qa \in Int /\ qb \in Int /\ a % h \in Int /\ a = h * qa + (a % h) /\ b = h * qb + (b % h)
  BY Division
<1> HIDE DEF qa, qb
<1>2. h * qb - h * qa = b - a
  BY <1>1
<1>3. h * qb - h * qa > 0
  BY <1>2
<1>4. h * qb - h * qa >= h
  BY <1>1, <1>3, Multiples
<1>5. QED
  BY <1>2, <1>4

\* So an entry is replaced only by a publish that is that many publishes newer.
LEMMA Replaced ==
  ASSUME NEW s \in Nat, NEW t \in Nat, ~Odd(s), ~Odd(t), s < t,
         (s \div 2) % History = (t \div 2) % History
  PROVE  t >= s + 2 * History
<1> DEFINE a == s \div 2
<1> DEFINE b == t \div 2
<1>1. (a \in Nat /\ s = 2 * a) /\ (b \in Nat /\ t = 2 * b)
  BY Halving
<1>2. a % History = b % History /\ History \in Nat \ {0}
  BY PairingAssumption
<1> HIDE DEF a, b
<1>3. a < b
  BY <1>1
<1>4. b >= a + History
  BY <1>1, <1>2, <1>3, OnePlace
<1>5. QED
  BY <1>1, <1>2, <1>4

LEMMA EntryIndex ==
  ASSUME NEW s \in Nat, ~Odd(s)
  PROVE  (s \div 2) % History \in 0 .. History - 1
  BY Halving, Division, PairingAssumption

-----------------------------------------------------------------------------
(* Types *)

LEMMA Bounds ==
  /\ MaxPoses \in Nat /\ MaxCadences \in Nat /\ History \in Nat \ {0}
  /\ 0 \in Poses /\ Poses \subseteq Nat /\ Poses \subseteq Rotations /\ Mixed \notin Poses
  /\ Mixed \in Rotations /\ Rotations \subseteq Int
  /\ 0 \in Sequences /\ Sequences \subseteq Nat /\ ~Odd(0)
  /\ \A n \in Nat : n <= 2 * (MaxPoses + MaxCadences) => n \in Sequences
  BY PairingAssumption DEF Poses, Rotations, Sequences, Mixed, Odd

LEMMA Fields ==
  ASSUME TypeOK
  PROVE  /\ sequence \in Sequences /\ sequence \in Nat /\ located \in Poses /\ located \in Nat
         /\ published_sequence \in Sequences /\ published_sequence \in Nat /\ ~Odd(published_sequence)
         /\ last_host_sequence \in Sequences /\ ~Odd(last_host_sequence) /\ last_host_sequence \in Nat
         /\ seq0 \in Sequences /\ seq0 \in Nat
         /\ rotation[1] \in Poses /\ rotation[2] \in Poses
         /\ half \in Rotations /\ head \in Rotations /\ head_eng \in Rotations
         /\ outer \in Rotations /\ wire \in Rotations /\ drawn \in Rotations
         /\ m_pipe \in Frames /\ header \in Frames /\ snap \in Frames
         /\ \A f \in Frames : f.seq \in Nat /\ f.seq \in Sequences
<1>1. sequence \in Nat /\ located \in Nat /\ published_sequence \in Nat /\ last_host_sequence \in Nat /\ seq0 \in Nat
  BY Bounds DEF TypeOK
<1>2. \A f \in Frames : f.seq \in Nat /\ f.seq \in Sequences
  BY Bounds DEF Frames
<1>3. QED
  BY <1>1, <1>2 DEF TypeOK

\* The game writes to nothing of the host's.
LEMMA GameFrame ==
  ASSUME Game
  PROVE  UNCHANGED <<sequence, rotation, host, issued>>
  BY DEF Game, IngestNothing, Ingest, ReadHalf, Recheck, Compose, LatchStart, NoLatch, Latch, Capture, CaptureAs

LEMMA HostFrame ==
  ASSUME Host
  PROVE  UNCHANGED game
  BY DEF Host, OpenPose, WriteHalf, ClosePose, KeepIn, NoPose, CloseCadence, Poll, Submit

LEMMA FrameTypes ==
  ASSUME TypeOK
  PROVE  Stamped \in Frames /\ NoFrame \in Frames
<1>1. agreed \in BOOLEAN
  BY DEF TypeOK
<1>2. Stamped \in Frames
  BY <1>1, Fields DEF Stamped, Frames
<1>3. NoFrame \in Frames
  BY Bounds DEF NoFrame, Frames
<1>4. QED
  BY <1>2, <1>3

LEMMA GameTypes ==
  ASSUME TypeOK, ReadInv, Game
  PROVE  TypeOK'
<1>1. /\ gpc' \in {"ingest", "first", "second", "recheck", "tail", "draw", "latch first", "latch second", "latch", "capture"}
      /\ agreed' \in BOOLEAN
  BY DEF TypeOK, Game, IngestNothing, Ingest, ReadHalf, Recheck, Compose, LatchStart, NoLatch, Latch, Capture, CaptureAs,
     GStep, view
<1>2. seq0' \in Sequences
  BY Fields, Bounds
     DEF Game, IngestNothing, Ingest, ReadHalf, Recheck, Compose, LatchStart, NoLatch, Latch, Capture, CaptureAs, read
<1>3. last_host_sequence' \in Sequences /\ ~Odd(last_host_sequence')
  <2>1. last_host_sequence' = last_host_sequence \/ (last_host_sequence' = seq0 /\ ~Odd(seq0))
    BY DEF ReadInv, Game, IngestNothing, Ingest, ReadHalf, Recheck, Compose, LatchStart, NoLatch, Latch, Capture,
       CaptureAs, view, GStep
  <2>2. QED
    BY <2>1, Fields
<1>4. half' \in Rotations
  <2>1. half' \in {half, 0, rotation[1], Halves(half, rotation[2])}
    BY DEF Game, IngestNothing, Ingest, ReadHalf, Recheck, Compose, LatchStart, NoLatch, Latch, Capture, CaptureAs, read
  <2>2. QED
    BY <2>1, Fields, Bounds DEF Halves
<1>5. {head', head_eng', outer', wire', drawn'} \subseteq {0, Mixed, half, head, head_eng, outer, wire, drawn}
  BY DEF Game, IngestNothing, Ingest, ReadHalf, Recheck, Compose, LatchStart, NoLatch, Latch, Capture, CaptureAs, view
<1>6. {head', head_eng', outer', wire', drawn'} \subseteq Rotations
  BY <1>5, Fields, Bounds
<1>7. m_pipe' \in Frames /\ header' \in Frames
  <2>1. m_pipe' \in {m_pipe, Stamped, NoFrame} /\ header' \in {header, m_pipe}
    BY DEF Game, IngestNothing, Ingest, ReadHalf, Recheck, Compose, LatchStart, NoLatch, Latch, Capture, CaptureAs
  <2>2. QED
    BY <2>1, Fields, FrameTypes
<1>8. QED
  BY <1>1, <1>2, <1>3, <1>4, <1>6, <1>7, GameFrame, Fields DEF TypeOK, host

LEMMA Room ==
  ASSUME NEW l \in Nat, NEW c \in Nat, NEW p \in Nat, NEW q \in Nat, l <= p, c <= q
  PROVE  /\ 2 * (l + c) <= 2 * (p + q)
         /\ l < p \/ c < q => 2 * (l + c) + 2 <= 2 * (p + q)
  OBVIOUS

\* The next turn of the seqlock finds its number among the sequences.
LEMMA NextTurn ==
  ASSUME TypeOK, CountInv, ~Odd(sequence),
         located < MaxPoses \/ Cardinality(bare) < MaxCadences
  PROVE  sequence + 1 \in Sequences /\ sequence + 2 \in Sequences
<1>1. sequence = 2 * (located + Cardinality(bare)) /\ Cardinality(bare) \in Nat
  BY Fields, Parity, FS_CardinalityType DEF CountInv
<1>2. located <= MaxPoses /\ Cardinality(bare) <= MaxCadences
  <2>1. located <= MaxPoses
    BY Bounds, Fields DEF Poses
  <2>2. QED
    BY <2>1 DEF CountInv
<1>3. MaxPoses \in Nat /\ MaxCadences \in Nat /\ located \in Nat /\ sequence \in Nat
  BY Bounds, Fields
<1>4. sequence + 2 <= 2 * (MaxPoses + MaxCadences)
  BY <1>1, <1>2, <1>3, Room
<1>5. QED
  <2> DEFINE last == 2 * (MaxPoses + MaxCadences)
  <2>1. last \in Nat /\ sequence < last /\ (~Odd(sequence) => sequence + 2 <= last)
    BY <1>3, <1>4
  <2> HIDE DEF last
  <2>2. sequence + 1 \in 0 .. last /\ (~Odd(sequence) => sequence + 2 \in 0 .. last)
    BY <1>3, <2>1
  <2>3. QED
    BY <1>1, <2>2 DEF Sequences, last

\* Nor is it missing when the window is closed.
LEMMA TurnOver ==
  ASSUME TypeOK, CountInv, Odd(sequence)
  PROVE  sequence + 1 \in Sequences /\ ~Odd(sequence + 1) /\ Even(sequence) = sequence + 1
<1>1. sequence + 1 = 2 * (located + Cardinality(bare)) /\ Cardinality(bare) \in Nat
      /\ ~Odd(sequence + 1) /\ Even(sequence) = sequence + 1
  BY Fields, Parity, FS_CardinalityType DEF CountInv
<1>2. located <= MaxPoses /\ Cardinality(bare) <= MaxCadences
  <2>1. located <= MaxPoses
    BY Bounds, Fields DEF Poses
  <2>2. QED
    BY <2>1 DEF CountInv
<1>3. MaxPoses \in Nat /\ MaxCadences \in Nat /\ located \in Nat /\ sequence \in Nat
  BY Bounds, Fields
<1>4. sequence + 1 <= 2 * (MaxPoses + MaxCadences)
  BY <1>1, <1>2, <1>3, Room
<1>5. QED
  <2> DEFINE last == 2 * (MaxPoses + MaxCadences)
  <2>1. last \in Nat /\ sequence < last /\ (~Odd(sequence) => sequence + 2 <= last)
    BY <1>3, <1>4
  <2> HIDE DEF last
  <2>2. sequence + 1 \in 0 .. last /\ (~Odd(sequence) => sequence + 2 \in 0 .. last)
    BY <1>3, <2>1
  <2>3. QED
    BY <1>1, <2>2 DEF Sequences, last

LEMMA HostTypes ==
  ASSUME TypeOK, CountInv, FrameInv, Host
  PROVE  TypeOK'
<1> USE DEF HStep
<1>1. CASE OpenPose
  <2>1. /\ ~Odd(sequence) /\ sequence' = sequence + 1 /\ located' = located + 1 /\ located < MaxPoses
        /\ hpc' = "first" /\ UNCHANGED <<rotation, published_sequence, pose_history, bare, snap, game, header, issued>>
    BY <1>1 DEF OpenPose, CountInv
  <2>2. sequence' \in Sequences
    BY <2>1, NextTurn
  <2>3. located' \in Poses
    <3>1. MaxPoses \in Nat /\ located \in Nat
      BY Bounds, Fields
    <3>2. QED
      BY <2>1, <3>1 DEF Poses
  <2>4. QED
    BY <2>1, <2>2, <2>3 DEF TypeOK, game, read, view
<1>2. CASE WriteHalf
  <2>1. rotation \in Poses \X Poses
    BY DEF TypeOK
  <2>2. rotation' \in {[rotation EXCEPT ![1] = located], [rotation EXCEPT ![2] = located]}
    BY <1>2 DEF WriteHalf
  <2>3. rotation' \in Poses \X Poses
    BY <2>1, <2>2, Fields
  <2>4. QED
    BY <1>2, <2>3 DEF WriteHalf, TypeOK, game, read, view
<1>3. CASE ClosePose
  <2>1. /\ Odd(sequence) /\ sequence' = Even(sequence) /\ published_sequence' = sequence'
        /\ hpc' = "poll" /\ UNCHANGED <<rotation, located, bare, snap, game, header>>
    BY <1>3 DEF ClosePose, KeepIn, CountInv
  <2>2. sequence' \in Sequences /\ ~Odd(sequence')
    BY <2>1, TurnOver
  <2>3. pose_history' \in [0 .. History - 1 -> [sequence : Sequences, pose : Poses]]
    <3>1. [sequence |-> sequence', pose |-> located] \in [sequence : Sequences, pose : Poses]
      BY <2>2, Fields
    <3>2. PICK i : pose_history' = [pose_history EXCEPT ![i] = [sequence |-> sequence', pose |-> located]]
      BY <1>3 DEF ClosePose, KeepIn
    <3>3. QED
      BY <3>1, <3>2 DEF TypeOK
  <2>4. issued' \in [Sequences -> Rotations]
    BY <1>3, <2>2, Fields, Bounds DEF ClosePose, KeepIn, TypeOK
  <2>5. QED
    BY <2>1, <2>2, <2>3, <2>4 DEF TypeOK, game, read, view
<1>4. CASE NoPose
  <2>1. /\ ~Odd(sequence) /\ hpc' \in {"poll", "cadence"}
        /\ UNCHANGED <<rotation, located, published_sequence, pose_history, snap, game, header, issued>>
        /\ \/ UNCHANGED <<sequence, bare>>
           \/ /\ sequence' = sequence + 1 /\ bare' = bare \cup {sequence' + 1}
              /\ Cardinality(bare) < MaxCadences
    BY <1>4 DEF NoPose, CountInv
  <2>2. sequence' \in Sequences /\ bare' \subseteq Sequences
    <3>1. CASE UNCHANGED <<sequence, bare>>
      BY <3>1 DEF TypeOK
    <3>2. CASE sequence' = sequence + 1 /\ bare' = bare \cup {sequence' + 1} /\ Cardinality(bare) < MaxCadences
      <4>1. sequence' + 1 = sequence + 2
        BY <3>2, Fields
      <4>2. QED
        BY <2>1, <3>2, <4>1, NextTurn DEF TypeOK
    <3>3. QED
      BY <2>1, <3>1, <3>2
  <2>3. QED
    BY <2>1, <2>2 DEF TypeOK, game, read, view
<1>5. CASE CloseCadence
  <2>1. /\ Odd(sequence) /\ sequence' = Even(sequence)
        /\ hpc' = "poll" /\ UNCHANGED <<rotation, located, published_sequence, pose_history, bare, snap, game, header>>
    BY <1>5 DEF CloseCadence, CountInv
  <2>2. sequence' \in Sequences /\ Halves(rotation[1], rotation[2]) \in Rotations
    BY <2>1, TurnOver, Fields, Bounds DEF Halves
  <2>3. issued' \in [Sequences -> Rotations]
    BY <1>5, <2>2 DEF CloseCadence, TypeOK
  <2>4. QED
    BY <2>1, <2>2, <2>3 DEF TypeOK, game, read, view
<1>6. CASE Poll
  <2>1. snap' \in Frames /\ header' \in Frames
    BY <1>6, Fields, FrameTypes DEF Poll
  <2>2. QED
    BY <1>6, <2>1 DEF Poll, TypeOK, game, read, view
<1>7. CASE Submit
  BY <1>7 DEF Submit, TypeOK, game, read, view
<1>8. QED
  BY <1>1, <1>2, <1>3, <1>4, <1>5, <1>6, <1>7 DEF Host

-----------------------------------------------------------------------------
(* The seqlock and the poses it was turned for *)

LEMMA CountStep ==
  ASSUME TypeOK, CountInv, Host
  PROVE  CountInv'
<1> USE DEF HStep
<1>0. /\ Cardinality(bare) \in Nat /\ sequence \in Nat /\ located \in Nat /\ published_sequence \in Nat
      /\ IsFiniteSet(bare) /\ Cardinality(bare) <= MaxCadences
      /\ Odd(sequence) <=> hpc \in {"first", "second", "close", "cadence"}
      /\ Even(sequence) = 2 * (located + Cardinality(bare))
      /\ published_sequence <= sequence
  BY Fields, FS_CardinalityType DEF CountInv
<1>00. \A b \in bare : b \in Nat /\ b <= Even(sequence)
  BY Bounds DEF TypeOK, CountInv
<1>1. CASE OpenPose
  <2>1. /\ ~Odd(sequence) /\ sequence' = sequence + 1 /\ located' = located + 1
        /\ hpc' = "first" /\ UNCHANGED <<published_sequence, bare>>
    BY <1>0, <1>1 DEF OpenPose
  <2>2. Odd(sequence') /\ Even(sequence) = sequence /\ Even(sequence') = sequence + 2
    BY <1>0, <2>1, Parity
  <2>3. Even(sequence') = 2 * (located' + Cardinality(bare'))
    <3>1. Cardinality(bare') = Cardinality(bare)
      BY <2>1
    <3>2. sequence = 2 * (located + Cardinality(bare)) /\ Even(sequence') = sequence + 2
      BY <1>0, <2>2
    <3>3. located' + Cardinality(bare') = (located + Cardinality(bare)) + 1
      BY <1>0, <2>1, <3>1
    <3>4. located + Cardinality(bare) \in Nat
      BY <1>0
    <3>5. QED
      BY <3>2, <3>3, <3>4
  <2>4. \A b \in bare : b <= sequence + 2
    BY <1>0, <1>00, <2>2
  <2>5. published_sequence <= sequence'
    BY <1>0, <2>1
  <2>6. QED
    BY <1>0, <2>1, <2>2, <2>3, <2>4, <2>5 DEF CountInv
<1>2. CASE WriteHalf \/ Poll \/ Submit
  BY <1>2 DEF WriteHalf, Poll, Submit, CountInv
<1>3. CASE ClosePose \/ CloseCadence
  <2>1. /\ Odd(sequence) /\ sequence' = Even(sequence) /\ published_sequence' \in {published_sequence, sequence'}
        /\ hpc' = "poll" /\ UNCHANGED <<located, bare>>
    BY <1>0, <1>3 DEF ClosePose, KeepIn, CloseCadence
  <2>2. ~Odd(sequence') /\ sequence' = sequence + 1 /\ Even(sequence') = Even(sequence) /\ sequence' \in Nat
    BY <1>0, <2>1, Parity
  <2>3. published_sequence' <= sequence'
    BY <1>0, <2>1, <2>2
  <2>4. QED
    BY <2>1, <2>2, <2>3 DEF CountInv
<1>4. CASE NoPose /\ hpc' = "poll"
  BY <1>4 DEF NoPose, CountInv
<1>5. CASE NoPose /\ hpc' = "cadence"
  <2>1. /\ ~Odd(sequence) /\ sequence' = sequence + 1 /\ bare' = bare \cup {sequence + 2}
        /\ Cardinality(bare) < MaxCadences /\ UNCHANGED <<located, published_sequence>>
    BY <1>0, <1>5 DEF NoPose
  <2>2. Odd(sequence') /\ Even(sequence) = sequence /\ Even(sequence') = sequence + 2
    BY <1>0, <2>1, Parity
  <2>3. sequence + 2 \notin bare
    BY <1>0, <1>00, <2>2
  <2>4. IsFiniteSet(bare') /\ Cardinality(bare') = Cardinality(bare) + 1
    BY <1>0, <2>1, <2>3, FS_AddElement
  <2>5. Cardinality(bare') <= MaxCadences
    BY <1>0, <2>1, <2>4, Bounds
  <2>6. Even(sequence') = 2 * (located' + Cardinality(bare'))
    BY <1>0, <2>1, <2>2, <2>4
  <2>7. \A b \in bare' : b <= sequence + 2
    BY <1>0, <1>00, <2>1, <2>2
  <2>8. published_sequence <= sequence'
    BY <1>0, <2>1
  <2>9. QED
    BY <1>5, <2>1, <2>2, <2>4, <2>5, <2>6, <2>7, <2>8 DEF CountInv
<1>6. QED
  BY <1>1, <1>2, <1>3, <1>4, <1>5 DEF Host, NoPose

\* What the host's steps leave of a publish that is over.
LEMMA Issued ==
  ASSUME TypeOK, CountInv, PoseInv, Host
  PROVE  /\ sequence' \in Nat /\ sequence' >= sequence
         /\ \A s \in Sequences : ~Odd(s) /\ s <= sequence => issued'[s] = issued[s]
         /\ sequence' = sequence /\ ~Odd(sequence) => located' = located
<1> USE DEF HStep
<1>0. sequence \in Nat /\ (Odd(sequence) <=> hpc \in {"first", "second", "close", "cadence"})
  BY Fields DEF CountInv
<1>1. CASE OpenPose
  <2>1. ~Odd(sequence) /\ sequence' = sequence + 1 /\ UNCHANGED issued
    BY <1>0, <1>1 DEF OpenPose
  <2>2. QED
    BY <1>0, <2>1
<1>2. CASE ClosePose \/ CloseCadence
  <2>1. /\ Odd(sequence) /\ sequence' = Even(sequence)
        /\ \E p : issued' = [issued EXCEPT ![sequence'] = p]
    BY <1>0, <1>2 DEF ClosePose, KeepIn, CloseCadence
  <2>2. sequence' = sequence + 1
    BY <1>0, <2>1, Parity
  <2>3. ASSUME NEW s \in Sequences, ~Odd(s), s <= sequence
        PROVE  issued'[s] = issued[s]
    <3>1. s # sequence'
      BY <1>0, <2>2, <2>3, Bounds
    <3>2. QED
      BY <2>1, <3>1 DEF TypeOK
  <2>4. QED
    BY <1>0, <2>1, <2>2, <2>3
<1>3. CASE NoPose
  <2>1. /\ UNCHANGED <<issued, located>> /\ sequence' \in {sequence, sequence + 1}
    BY <1>0, <1>3 DEF NoPose
  <2>2. QED
    BY <1>0, <2>1
<1>4. CASE WriteHalf \/ Poll \/ Submit
  <2>1. UNCHANGED <<sequence, issued, located>>
    BY <1>4 DEF WriteHalf, Poll, Submit
  <2>2. QED
    BY <1>0, <2>1
<1>5. QED
  BY <1>1, <1>2, <1>3, <1>4 DEF Host

LEMMA PoseStep ==
  ASSUME TypeOK, CountInv, PoseInv, Host
  PROVE  PoseInv'
<1> USE DEF HStep
<1>0. /\ sequence \in Nat /\ (Odd(sequence) <=> hpc \in {"first", "second", "close", "cadence"})
      /\ located \in Nat /\ rotation \in Poses \X Poses
      /\ issued \in [Sequences -> Rotations]
  <2>1. rotation \in Poses \X Poses /\ issued \in [Sequences -> Rotations]
    BY DEF TypeOK
  <2>2. QED
    BY <2>1, Fields DEF CountInv
<1>1. CASE OpenPose
  <2>1. /\ sequence' = sequence + 1 /\ located' = located + 1 /\ hpc' = "first" /\ hpc = "locate"
        /\ ~Odd(sequence) /\ UNCHANGED rotation
    BY <1>0, <1>1 DEF OpenPose
  <2>2. Odd(sequence') /\ located' - 1 = located /\ located' > 0
    BY <1>0, <2>1, Parity
  <2>3. QED
    BY <2>1, <2>2 DEF PoseInv
<1>2. CASE WriteHalf
  <2>1. CASE hpc = "first"
    BY <1>0, <1>2, <2>1 DEF WriteHalf, PoseInv
  <2>2. CASE hpc = "second"
    BY <1>0, <1>2, <2>2 DEF WriteHalf, PoseInv
  <2>3. QED
    BY <1>2, <2>1, <2>2 DEF WriteHalf
<1>3. CASE ClosePose \/ CloseCadence
  <2>1. /\ Odd(sequence) /\ sequence' = Even(sequence) /\ hpc \in {"close", "cadence"} /\ hpc' = "poll"
        /\ issued' \in {[issued EXCEPT ![sequence'] = located], [issued EXCEPT ![sequence'] = Halves(rotation[1], rotation[2])]}
        /\ UNCHANGED <<rotation, located>>
    BY <1>0, <1>3 DEF ClosePose, KeepIn, CloseCadence
  <2>2. rotation = <<located, located>>
    BY <2>1 DEF PoseInv
  <2>3. Halves(rotation[1], rotation[2]) = located
    BY <2>2 DEF Halves
  <2>4. sequence' \in Sequences
    BY <2>1, TurnOver
  <2>5. issued'[sequence'] = located
    BY <1>0, <2>1, <2>3, <2>4
  <2>6. QED
    BY <2>1, <2>2, <2>5 DEF PoseInv
<1>4. CASE NoPose
  <2>1. /\ hpc = "locate" /\ ~Odd(sequence) /\ UNCHANGED <<rotation, located, issued>>
        /\ \/ hpc' = "poll" /\ sequence' = sequence
           \/ hpc' = "cadence" /\ sequence' = sequence + 1
    BY <1>0, <1>4 DEF NoPose
  <2>2. sequence' = sequence \/ Odd(sequence')
    BY <1>0, <2>1, Parity
  <2>3. QED
    BY <2>1, <2>2 DEF PoseInv
<1>5. CASE Poll \/ Submit
  BY <1>5 DEF Poll, Submit, PoseInv
<1>6. QED
  BY <1>1, <1>2, <1>3, <1>4, <1>5 DEF Host

-----------------------------------------------------------------------------
(* The history *)

LEMMA HistoryStep ==
  ASSUME TypeOK, CountInv, PoseInv, HistoryInv, Host
  PROVE  HistoryInv'
<1> USE DEF HStep
<1>0. /\ sequence \in Nat /\ (Odd(sequence) <=> hpc \in {"first", "second", "close", "cadence"})
      /\ published_sequence \in Nat /\ published_sequence <= sequence
      /\ pose_history \in [0 .. History - 1 -> [sequence : Sequences, pose : Poses]]
      /\ issued \in [Sequences -> Rotations]
      /\ \A i \in 0 .. History - 1 : pose_history[i].sequence \in Sequences
      /\ Sequences \subseteq Nat
  <2>1. /\ pose_history \in [0 .. History - 1 -> [sequence : Sequences, pose : Poses]]
        /\ issued \in [Sequences -> Rotations]
    BY DEF TypeOK
  <2>2. QED
    BY <2>1, Fields, Bounds DEF CountInv
<1>1. CASE ClosePose
  <2> DEFINE k == (Even(sequence) \div 2) % History
  <2> DEFINE new == [sequence |-> sequence', pose |-> located]
  <2>1. /\ Odd(sequence) /\ sequence' = Even(sequence) /\ published_sequence' = sequence'
        /\ pose_history' = [pose_history EXCEPT ![k] = new]
        /\ issued' = [issued EXCEPT ![sequence'] = located]
        /\ UNCHANGED bare
    BY <1>0, <1>1 DEF ClosePose, KeepIn
  <2>2. /\ sequence' = sequence + 1 /\ ~Odd(sequence') /\ sequence' \in Sequences /\ sequence' \in Nat
        /\ k = (sequence' \div 2) % History
    BY <1>0, <2>1, TurnOver
  <2>3. k \in 0 .. History - 1
    BY <2>2, EntryIndex
  <2> HIDE DEF k
  <2>4. ASSUME NEW i \in 0 .. History - 1
        PROVE  LET e == pose_history'[i]
               IN  ~Odd(e.sequence) /\ e.sequence <= sequence' /\ e.pose = issued'[e.sequence]
    <3>1. CASE i = k
      BY <1>0, <2>1, <2>2, <3>1
    <3>2. CASE i # k
      <4>1. pose_history'[i] = pose_history[i]
        BY <1>0, <2>1, <3>2
      <4>2. pose_history[i].sequence <= sequence /\ pose_history[i].sequence \in Nat
        BY <1>0, <2>4 DEF HistoryInv
      <4>3. pose_history[i].sequence <= sequence' /\ pose_history[i].sequence # sequence'
        BY <1>0, <2>2, <4>2
      <4>4. QED
        BY <1>0, <2>1, <2>4, <4>1, <4>3 DEF HistoryInv
    <3>3. QED
      BY <3>1, <3>2
  <2>5. ASSUME NEW s \in Sequences, ~Odd(s), s # 0, s <= sequence', s \notin bare
        PROVE  Entry(s)'.sequence = s \/ published_sequence' >= s + 2 * History
    <3> DEFINE j == (s \div 2) % History
    <3>1. Entry(s)' = pose_history'[j] /\ Entry(s) = pose_history[j]
      BY DEF Entry
    <3>2. j \in 0 .. History - 1 /\ s \in Nat
      BY <1>0, <2>5, EntryIndex
    <3>3. CASE s = sequence'
      <4>1. j = k
        BY <2>2, <3>3
      <4>2. QED
        BY <1>0, <2>1, <2>3, <3>1, <3>3, <4>1
    <3>4. CASE s # sequence' /\ j = k
      <4>1. s < sequence'
        BY <2>2, <2>5, <3>2, <3>4
      <4>2. sequence' >= s + 2 * History
        BY <2>2, <2>5, <3>2, <3>4, <4>1, Replaced
      <4>3. QED
        BY <2>1, <4>2
    <3> HIDE DEF j
    <3>5. CASE s # sequence' /\ j # k
      <4>1. s <= sequence
        BY <1>0, <2>2, <2>5, <3>2, <3>5
      <4>2. Entry(s)' = Entry(s)
        BY <1>0, <2>1, <3>1, <3>2, <3>5
      <4>3. Entry(s).sequence = s \/ published_sequence >= s + 2 * History
        BY <2>5, <4>1 DEF HistoryInv
      <4>4. published_sequence >= s + 2 * History => sequence' >= s + 2 * History
        <5>1. 2 * History \in Nat /\ published_sequence <= sequence'
          BY <1>0, <2>2, PairingAssumption
        <5>2. QED
          BY <1>0, <2>2, <3>2, <5>1
      <4>5. QED
        BY <2>1, <4>2, <4>3, <4>4
    <3>6. QED
      BY <3>3, <3>4, <3>5
  <2>6. QED
    BY <2>1, <2>4, <2>5 DEF HistoryInv
<1>2. CASE ~ClosePose
  <2>1. UNCHANGED <<published_sequence, pose_history>> /\ bare \subseteq bare'
    BY <1>2 DEF Host, OpenPose, WriteHalf, NoPose, CloseCadence, Poll, Submit
  <2>2. sequence' \in Nat /\ sequence' >= sequence
        /\ \A s \in Sequences : ~Odd(s) /\ s <= sequence => issued'[s] = issued[s]
    BY Issued
  <2>3. ASSUME NEW s \in Sequences, ~Odd(s), s <= sequence', s \notin bare'
        PROVE  s <= sequence
    <3>1. CASE CloseCadence
      <4>1. /\ Odd(sequence) /\ sequence' = Even(sequence) /\ Even(sequence) \in bare
        BY <1>0, <3>1 DEF CloseCadence, CountInv
      <4>2. sequence' = sequence + 1 /\ s # sequence'
        BY <1>0, <2>1, <2>3, <4>1, Parity
      <4>3. QED
        BY <1>0, <2>3, <4>2
    <3>2. CASE OpenPose \/ NoPose
      <4>1. ~Odd(sequence) /\ sequence' \in {sequence, sequence + 1}
        BY <1>0, <3>2 DEF OpenPose, NoPose
      <4>2. Odd(sequence + 1)
        BY <1>0, <4>1, Parity
      <4>3. s # sequence + 1
        BY <2>3, <4>2
      <4>4. QED
        BY <1>0, <2>3, <4>1, <4>3
    <3>3. CASE WriteHalf \/ Poll \/ Submit
      <4>1. sequence' = sequence
        BY <3>3 DEF WriteHalf, Poll, Submit
      <4>2. QED
        BY <2>3, <4>1
    <3>4. QED
      BY <1>2, <3>1, <3>2, <3>3 DEF Host
  <2>4. ASSUME NEW i \in 0 .. History - 1
        PROVE  LET e == pose_history'[i]
               IN  ~Odd(e.sequence) /\ e.sequence <= sequence' /\ e.pose = issued'[e.sequence]
    <3>1. /\ ~Odd(pose_history[i].sequence) /\ pose_history[i].sequence <= sequence
          /\ pose_history[i].pose = issued[pose_history[i].sequence]
          /\ pose_history[i].sequence \in Sequences /\ pose_history[i].sequence \in Nat
      BY <1>0, <2>4 DEF HistoryInv
    <3>2. issued'[pose_history[i].sequence] = issued[pose_history[i].sequence]
      BY <2>2, <3>1
    <3>3. pose_history[i].sequence <= sequence'
      BY <1>0, <2>2, <3>1
    <3>4. QED
      BY <2>1, <3>1, <3>2, <3>3
  <2>5. ASSUME NEW s \in Sequences, ~Odd(s), s # 0, s <= sequence', s \notin bare'
        PROVE  Entry(s)'.sequence = s \/ published_sequence' >= s + 2 * History
    <3>1. s <= sequence /\ s \notin bare
      BY <2>1, <2>3, <2>5
    <3>2. Entry(s)' = Entry(s)
      BY <2>1 DEF Entry
    <3>3. Entry(s).sequence = s \/ published_sequence >= s + 2 * History
      BY <2>5, <3>1 DEF HistoryInv
    <3>4. QED
      BY <2>1, <3>2, <3>3
  <2>6. QED
    BY <2>4, <2>5 DEF HistoryInv
<1>3. QED
  BY <1>1, <1>2

-----------------------------------------------------------------------------
(* The frames, the reads and the draw *)

LEMMA NoFrameAgrees == ~Odd(NoFrame.seq) /\ NoFrame.seq = 0 /\ Agrees(NoFrame)
  BY Bounds DEF NoFrame, Agrees

\* What the host does leaves the frames, the reads and the draw as true as they were.
LEMMA HostFrames ==
  ASSUME TypeOK, CountInv, PoseInv, FrameInv, Host
  PROVE  FrameInv'
<1>1. /\ m_pipe' = m_pipe /\ header' \in {header, NoFrame} /\ snap' \in {snap, header}
      /\ last_host_sequence' = last_host_sequence
  BY DEF Host, OpenPose, WriteHalf, ClosePose, KeepIn, NoPose, CloseCadence, Poll, Submit, game, view
<1>2. sequence \in Nat /\ sequence' \in Nat /\ sequence' >= sequence /\ last_host_sequence \in Nat
  BY Issued, Fields
<1>3. ASSUME NEW f \in {m_pipe, header, snap}
      PROVE  ~Odd(f.seq) /\ f.seq <= sequence' /\ (f.agreed /\ f.ok => f.img = f.pose /\ f.pose = issued'[f.seq])
  <2>1. f.seq \in Nat /\ f.seq \in Sequences
    BY Fields
  <2>2. ~Odd(f.seq) /\ f.seq <= sequence /\ (f.agreed /\ f.ok => f.img = f.pose /\ f.pose = issued[f.seq])
    BY DEF FrameInv, Agrees
  <2>3. issued'[f.seq] = issued[f.seq]
    BY <2>1, <2>2, Issued
  <2>4. f.seq <= sequence'
    BY <1>2, <2>1, <2>2
  <2>5. QED
    BY <2>2, <2>3, <2>4
<1>4. ASSUME NEW f \in {m_pipe', header', snap'}
      PROVE  ~Odd(f.seq) /\ f.seq <= sequence' /\ (f.agreed /\ f.ok => f.img = f.pose /\ f.pose = issued'[f.seq])
  <2>1. f \in {m_pipe, header, snap} \/ f = NoFrame
    BY <1>1
  <2>2. CASE f = NoFrame
    BY <1>2, <2>2, NoFrameAgrees DEF NoFrame
  <2>3. QED
    BY <1>3, <2>1, <2>2
<1>5. last_host_sequence' <= sequence'
  BY <1>1, <1>2 DEF FrameInv
<1>6. QED
  BY <1>4, <1>5 DEF FrameInv, Agrees

LEMMA HostReads ==
  ASSUME TypeOK, CountInv, PoseInv, FrameInv, ReadInv, DrawInv, Host
  PROVE  ReadInv' /\ DrawInv'
<1>1. /\ gpc' = gpc /\ seq0' = seq0 /\ half' = half /\ head' = head /\ wire' = wire /\ outer' = outer
      /\ head_eng' = head_eng /\ agreed' = agreed /\ drawn' = drawn /\ last_host_sequence' = last_host_sequence
  BY HostFrame DEF game, read, view
<1>2. sequence \in Nat /\ sequence' \in Nat /\ sequence' >= sequence /\ seq0 \in Nat
  BY Issued, Fields
<1>3. gpc \in {"first", "second", "recheck", "latch first", "latch second", "latch"} =>
        ~Odd(seq0) /\ seq0 <= sequence'
  <2>1. seq0 <= sequence => seq0 <= sequence'
    BY <1>2
  <2>2. QED
    BY <2>1 DEF ReadInv
<1>4. gpc \in {"second", "recheck", "latch second", "latch"} /\ seq0 = sequence' => half = located'
  <2>1. SUFFICES ASSUME gpc \in {"second", "recheck", "latch second", "latch"}, seq0 = sequence'
                 PROVE  half = located'
    OBVIOUS
  <2>2. ~Odd(seq0) /\ seq0 <= sequence
    <3>1. gpc \in {"first", "second", "recheck", "latch first", "latch second", "latch"}
      BY <2>1
    <3>2. QED
      BY <3>1 DEF ReadInv
  <2>3. sequence' = sequence /\ seq0 = sequence
    <3>1. seq0 <= sequence /\ seq0 = sequence'
      BY <2>1, <2>2
    <3>2. QED
      BY <1>2, <3>1
  <2>4. located' = located
    BY <2>2, <2>3, Issued
  <2>5. QED
    BY <2>1, <2>3, <2>4 DEF ReadInv
<1>5. issued'[last_host_sequence] = issued[last_host_sequence]
  BY Fields, Issued DEF FrameInv
<1>6. ReadInv'
  BY <1>1, <1>3, <1>4 DEF ReadInv, NeverTorn
<1>7. DrawInv'
  BY <1>1, <1>5 DEF DrawInv
<1>8. QED
  BY <1>6, <1>7

\* A reader that finds the sequence it began with has read HostState outside any window.
LEMMA WholePose ==
  ASSUME TypeOK, CountInv, PoseInv, ~Odd(sequence)
  PROVE  /\ rotation[1] = located /\ rotation[2] = located /\ issued[sequence] = located
         /\ located # Mixed /\ Halves(located, rotation[2]) = located
<1>1. hpc \notin {"first", "second"}
  BY DEF CountInv
<1>2. rotation = <<located, located>> /\ issued[sequence] = located
  BY <1>1 DEF PoseInv
<1>3. located # Mixed
  BY Fields, Bounds
<1>4. QED
  BY <1>2, <1>3 DEF Halves

LEMMA GameReads ==
  ASSUME TypeOK, CountInv, PoseInv, ReadInv, Game
  PROVE  ReadInv'
<1> USE DEF GStep
<1>0. sequence' = sequence /\ located' = located /\ sequence \in Nat
  BY GameFrame, Fields DEF host
<1>1. CASE Ingest \/ LatchStart
  <2>1. gpc' \in {"first", "latch first"} /\ seq0' = sequence /\ ~Odd(sequence) /\ head' = head /\ wire' = wire
    BY <1>1 DEF Ingest, LatchStart, view
  <2>2. ~Odd(seq0') /\ seq0' <= sequence'
    <3>1. ~Odd(seq0')
      BY <2>1
    <3>2. seq0' = sequence
      BY <2>1
    <3>3. seq0' <= sequence'
      BY <1>0, <3>2
    <3>4. QED
      BY <3>1, <3>3
  <2>3. ~(gpc' \in {"second", "recheck", "latch second", "latch"})
    BY <2>1
  <2>4. NeverTorn'
    BY <2>1 DEF ReadInv, NeverTorn
  <2>5. QED
    BY <2>2, <2>3, <2>4 DEF ReadInv
<1>2. CASE ReadHalf
  <2>1. seq0' = seq0 /\ head' = head /\ wire' = wire
        /\ gpc \in {"first", "second", "latch first", "latch second"}
        /\ gpc' \in {"second", "recheck", "latch second", "latch"}
    BY <1>2 DEF ReadHalf, view
  <2>2. ~Odd(seq0) /\ seq0 <= sequence
    BY <2>1 DEF ReadInv
  <2>3. ASSUME seq0 = sequence
        PROVE  half' = located
    <3>1. rotation[1] = located /\ Halves(located, rotation[2]) = located
      BY <2>2, <2>3, WholePose
    <3>2. gpc \in {"second", "latch second"} => half = located
      BY <2>3 DEF ReadInv
    <3>3. CASE gpc \in {"first", "latch first"}
      BY <1>2, <3>1, <3>3 DEF ReadHalf
    <3>4. CASE gpc \in {"second", "latch second"}
      BY <1>2, <3>1, <3>2, <3>4 DEF ReadHalf
    <3>5. QED
      BY <2>1, <3>3, <3>4
  <2>4. QED
    BY <1>0, <2>1, <2>2, <2>3 DEF ReadInv, NeverTorn
<1>3. CASE Recheck
  <2>1. /\ gpc = "recheck" /\ gpc' = "tail" /\ wire' = wire
        /\ head' = head \/ (sequence = seq0 /\ head' = half)
    BY <1>3 DEF Recheck
  <2>2. sequence = seq0 => half # Mixed
    BY <2>1, WholePose DEF ReadInv
  <2>3. QED
    BY <2>1, <2>2 DEF ReadInv, NeverTorn
<1>4. CASE Latch
  <2>1. /\ gpc = "latch" /\ gpc' = "capture" /\ head' = head
        /\ wire' = wire \/ (sequence = seq0 /\ wire' = half)
    BY <1>4 DEF Latch
  <2>2. sequence = seq0 => half # Mixed
    BY <2>1, WholePose DEF ReadInv
  <2>3. QED
    BY <2>1, <2>2 DEF ReadInv, NeverTorn
<1>5. CASE IngestNothing \/ Compose \/ NoLatch \/ Capture
  <2>1. gpc' \in {"tail", "draw", "capture", "ingest"} /\ head' = head /\ wire' = wire
    BY <1>5 DEF IngestNothing, Compose, NoLatch, Capture, CaptureAs, view
  <2>2. QED
    BY <2>1 DEF ReadInv, NeverTorn
<1>6. QED
  BY <1>1, <1>2, <1>3, <1>4, <1>5 DEF Game

LEMMA GameDraws ==
  ASSUME TypeOK, CountInv, PoseInv, ReadInv, DrawInv, Game
  PROVE  DrawInv'
<1> USE DEF GStep
<1>0. issued' = issued
  BY GameFrame
<1>1. CASE Compose
  <2>1. gpc' = "draw" /\ head_eng' = head /\ (agreed' => outer' = head)
    BY <1>1 DEF Compose
  <2>2. QED
    BY <2>1 DEF DrawInv
<1>2. CASE LatchStart \/ ReadHalf
  <2>1. /\ UNCHANGED <<outer, head_eng, agreed>>
        /\ gpc' \in {"latch first", "latch second", "latch"} => gpc \in {"draw", "latch first", "latch second"}
        /\ gpc' \in {"second", "recheck", "latch first", "latch second", "latch"}
    BY <1>2 DEF LatchStart, ReadHalf, view
  <2>2. QED
    BY <2>1 DEF DrawInv
<1>3. CASE Latch
  <2>1. /\ gpc = "latch" /\ gpc' = "capture"
        /\ \/ /\ sequence = seq0 /\ last_host_sequence' = seq0 /\ wire' = half /\ agreed' = agreed
              /\ outer = head_eng => drawn' = half
           \/ agreed' = FALSE
    BY <1>3 DEF Latch
  <2>2. sequence = seq0 => half = issued[seq0]
    BY <2>1, WholePose DEF ReadInv
  <2>3. agreed => outer = head_eng
    BY <2>1 DEF DrawInv
  <2>4. agreed' => drawn' = wire' /\ wire' = issued'[last_host_sequence']
    BY <1>0, <2>1, <2>2, <2>3
  <2>5. QED
    BY <2>1, <2>4 DEF DrawInv
<1>4. CASE NoLatch
  <2>1. gpc' = "capture" /\ agreed' = FALSE
    BY <1>4 DEF NoLatch
  <2>2. QED
    BY <2>1 DEF DrawInv
<1>5. CASE IngestNothing \/ Ingest \/ Recheck \/ Capture
  <2>1. gpc' \in {"tail", "first", "ingest"}
    BY <1>5 DEF IngestNothing, Ingest, Recheck, Capture, CaptureAs
  <2>2. QED
    BY <2>1 DEF DrawInv
<1>6. QED
  BY <1>1, <1>2, <1>3, <1>4, <1>5 DEF Game

LEMMA GameFrames ==
  ASSUME TypeOK, FrameInv, ReadInv, DrawInv, Game
  PROVE  FrameInv'
<1> USE DEF GStep
<1>0. sequence' = sequence /\ issued' = issued /\ snap' = snap /\ sequence \in Nat
  BY GameFrame, Fields DEF host
<1>1. last_host_sequence' <= sequence
  <2>1. last_host_sequence' = last_host_sequence \/ (last_host_sequence' = seq0 /\ gpc \in {"recheck", "latch"})
    BY DEF Game, IngestNothing, Ingest, ReadHalf, Recheck, Compose, LatchStart, NoLatch, Latch, Capture, CaptureAs, view
  <2>2. QED
    BY <2>1 DEF ReadInv, FrameInv
<1>2. /\ m_pipe' \in {m_pipe, Stamped, NoFrame} /\ header' \in {header, m_pipe}
      /\ m_pipe' = m_pipe \/ gpc = "capture"
  BY DEF Game, IngestNothing, Ingest, ReadHalf, Recheck, Compose, LatchStart, NoLatch, Latch, Capture, CaptureAs
<1>3. gpc = "capture" => ~Odd(Stamped.seq) /\ Stamped.seq <= sequence /\ Agrees(Stamped)
  BY Fields DEF Stamped, Agrees, DrawInv, FrameInv
<1>4. ~Odd(NoFrame.seq) /\ NoFrame.seq <= sequence /\ Agrees(NoFrame)
  BY <1>0, NoFrameAgrees
<1>5. ASSUME NEW f \in {m_pipe', header', snap'}
      PROVE  ~Odd(f.seq) /\ f.seq <= sequence /\ Agrees(f)
  <2>1. f \in {m_pipe, header, snap} \/ f = NoFrame \/ (f = Stamped /\ gpc = "capture")
    BY <1>0, <1>2
  <2>2. QED
    BY <1>3, <1>4, <2>1 DEF FrameInv
<1>6. QED
  BY <1>0, <1>1, <1>5 DEF FrameInv, Agrees

-----------------------------------------------------------------------------
(* The theorems *)

LEMMA InitInv ==
  ASSUME Init
  PROVE  IInv
<1> USE DEF Init
<1>0. ~Odd(0) /\ Even(0) = 0 /\ History \in Nat \ {0} /\ MaxCadences \in Nat
  BY Bounds DEF Even
<1>1. TypeOK
  <2>1. NoFrame \in Frames /\ NoEntry \in [sequence : Sequences, pose : Poses]
    BY Bounds DEF NoFrame, NoEntry, Frames
  <2>2. issued \in [Sequences -> Rotations] /\ rotation \in Poses \X Poses
        /\ pose_history \in [0 .. History - 1 -> [sequence : Sequences, pose : Poses]]
    BY <2>1, Bounds
  <2>3. QED
    BY <1>0, <2>1, <2>2, Bounds DEF TypeOK
<1>2. CountInv
  <2>1. IsFiniteSet(bare) /\ Cardinality(bare) = 0
    BY FS_EmptySet
  <2>2. QED
    BY <1>0, <2>1 DEF CountInv
<1>3. PoseInv
  BY Bounds DEF PoseInv
<1>4. HistoryInv
  <2>1. \A s \in Sequences : ~(s # 0 /\ s <= sequence)
    BY Bounds
  <2>2. \A i \in 0 .. History - 1 : pose_history[i] = NoEntry
    OBVIOUS
  <2>3. ~Odd(NoEntry.sequence) /\ NoEntry.sequence <= sequence /\ NoEntry.pose = issued[NoEntry.sequence]
    BY <1>0, Bounds DEF NoEntry
  <2>4. QED
    BY <2>1, <2>2, <2>3 DEF HistoryInv
<1>5. FrameInv
  BY <1>0, NoFrameAgrees DEF FrameInv
<1>6. ReadInv /\ DrawInv
  BY DEF ReadInv, DrawInv, NeverTorn, Mixed
<1>7. QED
  BY <1>1, <1>2, <1>3, <1>4, <1>5, <1>6 DEF IInv

\* The game's thread leaves the host's part of the invariant as it was.
LEMMA GameHost ==
  ASSUME CountInv, PoseInv, HistoryInv, Game
  PROVE  CountInv' /\ PoseInv' /\ HistoryInv'
  BY GameFrame DEF host, CountInv, PoseInv, HistoryInv, Entry

LEMMA NextInv ==
  ASSUME IInv, [Next]_vars
  PROVE  IInv'
<1> USE DEF IInv
<1>1. CASE Host
  BY <1>1, HostTypes, CountStep, PoseStep, HistoryStep, HostFrames, HostReads
<1>2. CASE Game
  BY <1>2, GameTypes, GameHost, GameFrames, GameReads, GameDraws
<1>3. CASE UNCHANGED vars
  <2>1. UNCHANGED <<sequence, rotation, host, read, view, gpc, m_pipe, header, issued>>
    BY <1>3 DEF vars, game
  <2>2. TypeOK'
    BY <2>1 DEF host, read, view, TypeOK
  <2>3. CountInv' /\ PoseInv'
    BY <2>1 DEF host, CountInv, PoseInv
  <2>4. HistoryInv'
    BY <2>1 DEF host, HistoryInv, Entry
  <2>5. FrameInv'
    BY <2>1 DEF host, view, FrameInv, Agrees
  <2>6. ReadInv' /\ DrawInv'
    BY <2>1 DEF host, read, view, ReadInv, NeverTorn, DrawInv
  <2>7. QED
    BY <2>2, <2>3, <2>4, <2>5, <2>6
<1>4. QED
  BY <1>1, <1>2, <1>3 DEF Next

\* The inductive invariant: the seqlock's turns, HostState's pose, the history, the frames
\* on their way and the reads in progress, together.
THEOREM Invariance == Spec => []IInv
<1>1. Init => IInv
  BY InitInv
<1>2. IInv /\ [Next]_vars => IInv'
  BY NextInv
<1>3. QED
  BY <1>1, <1>2, PTL DEF Spec

\* Every variable keeps its type, for any history and any number of publishes.
THEOREM TypeCorrect == Spec => []TypeOK
<1>1. IInv => TypeOK
  BY DEF IInv
<1>2. QED
  BY <1>1, Invariance, PTL

\* No camera turns by a pose read across a publish, however often the host publishes.
THEOREM Untorn == Spec => []NeverTorn
<1>1. IInv => NeverTorn
  BY DEF IInv, ReadInv
<1>2. QED
  BY <1>1, Invariance, PTL

\* The rotation a composed and latched frame is drawn from, the one it states and the one
\* its sequence was issued for are one, from the readback to the submission.
THEOREM Agree == Spec => []FramesAgree
<1>1. IInv => FramesAgree
  BY DEF IInv, FrameInv, Agrees, FramesAgree
<1>2. QED
  BY <1>1, Invariance, PTL

\* For a history of any length, the lookup answers with the pose of the frame's own
\* sequence, and misses for no other reason than age or a publish of the period alone.
THEOREM Exact == Spec => []LookupIsExact
<1>1. ASSUME IInv
      PROVE  LookupIsExact
  <2>1. snap.seq \in Sequences /\ snap.seq \in Nat /\ ~Odd(snap.seq) /\ snap.seq <= sequence
    BY <1>1, Fields DEF IInv, FrameInv
  <2>2. (snap.seq \div 2) % History \in 0 .. History - 1
    BY <2>1, EntryIndex
  <2>3. Hit => Entry(snap.seq).pose = issued[snap.seq]
    BY <1>1, <2>2 DEF IInv, HistoryInv, Hit, Entry
  <2>4. snap.seq # 0 /\ ~Hit => published_sequence >= snap.seq + 2 * History \/ snap.seq \in bare
    BY <1>1, <2>1 DEF IInv, HistoryInv, Hit
  <2>5. QED
    BY <2>3, <2>4 DEF LookupIsExact
<1>2. QED
  BY <1>1, Invariance, PTL

=============================================================================
