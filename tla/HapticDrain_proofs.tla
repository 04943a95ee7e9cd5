-------------------------- MODULE HapticDrain_proofs --------------------------
(***************************************************************************)
(* Proofs about the haptic ring and its drain, for every ring size, ticket *)
(* width, set of producers and set of payload fields that RingAssumption   *)
(* allows.                                                                 *)
(***************************************************************************)
EXTENDS HapticDrain, TLAPS

-----------------------------------------------------------------------------
(* Arithmetic of wrapping tickets *)

\* Reducing a sum of two tickets takes at most one subtraction.
LEMMA WrapOnce ==
  ASSUME NEW x \in 0 .. 2 * Modulus - 1
  PROVE  x % Modulus = IF x < Modulus THEN x ELSE x - Modulus
  BY RingAssumption

\* Every operator on tickets yields a ticket, and SlotOf yields a slot.
LEMMA TicketTypes ==
  ASSUME NEW i \in Index, NEW j \in Index
  PROVE  /\ Successor(i) \in Index
         /\ SlotOf(i) \in SlotIndex
         /\ InProgress(i) \in Index
         /\ Distance(i, j) \in Index
         /\ (i - Slots + Modulus) % Modulus \in Index
  BY RingAssumption DEF Index, Successor, SlotOf, SlotIndex, InProgress, Distance

\* What the assumption says about the sizes, in the form the proofs use it.
LEMMA Sizes == /\ Slots \in Nat /\ Modulus \in Nat /\ MaxCalls \in Nat
               /\ Slots >= 2
               /\ Modulus >= 2 * Slots
               /\ MaxCalls + Slots <= Modulus
<1>1. PICK half \in 1 .. Slots : Slots = 2 * half
  BY RingAssumption
<1>2. PICK laps \in 2 .. Modulus : Modulus = laps * Slots
  BY RingAssumption
<1>3. laps * Slots >= 2 * Slots
  BY <1>2, RingAssumption
<1>4. QED
  BY <1>1, <1>2, <1>3, RingAssumption

\* What the quotient and the remainder are to each other.
LEMMA Division ==
  ASSUME NEW a \in Nat, NEW b \in Nat \ {0}
  PROVE  a = b * (a \div b) + (a % b)
  OBVIOUS

\* The index of a ticket's slot has the parity of the ticket before it.
LEMMA SlotParity ==
  ASSUME NEW i \in Index
  PROVE  SlotOf(i) % 2 = (i + 1) % 2
<1>1. PICK half \in 1 .. Slots : Slots = 2 * half
  BY RingAssumption
<1>2. PICK laps \in 2 .. Modulus : Modulus = laps * Slots
  BY RingAssumption
<1>3. Modulus = 2 * (half * laps) /\ half * laps \in Nat
  BY <1>1, <1>2, RingAssumption
<1> DEFINE before == (i + Modulus - 1) % Modulus
<1>4. before \in Nat /\ before % 2 = (i + 1) % 2
  <2>1. before = IF i = 0 THEN Modulus - 1 ELSE i - 1
    <3>1. i + Modulus - 1 \in 0 .. 2 * Modulus - 1
      BY Sizes DEF Index
    <3>2. before = IF i + Modulus - 1 < Modulus THEN i + Modulus - 1 ELSE i - 1
      BY <3>1, WrapOnce, Sizes DEF Index
    <3>3. QED
      BY <3>2, Sizes DEF Index
  <2>2. QED
    BY <2>1, <1>3, RingAssumption DEF Index
<1>5. (before % Slots) % 2 = before % 2
  <2>1. before = Slots * (before \div Slots) + (before % Slots)
    BY <1>4, Division, RingAssumption
  <2>2. before \div Slots \in Nat /\ before % Slots \in Nat
    BY <1>4, RingAssumption
  <2>3. Slots * (before \div Slots) = 2 * (half * (before \div Slots))
        /\ half * (before \div Slots) \in Nat
    BY <1>1, <2>2
  <2>4. QED
    BY <2>1, <2>2, <2>3, <1>4
<1>6. QED
  BY <1>4, <1>5 DEF SlotOf

\* The in-progress stamp of a ticket is no ticket of the same slot: this is where
\* the ring's size has to be even, and it is stronger than the comment on commit,
\* which only says the complement never equals the ticket itself.
LEMMA InProgressIsNoTicket ==
  ASSUME NEW i \in Index, NEW j \in Index, SlotOf(i) = SlotOf(j)
  PROVE  InProgress(i) # j
<1>1. PICK half \in 1 .. Slots : Slots = 2 * half
  BY RingAssumption
<1>2. PICK laps \in 2 .. Modulus : Modulus = laps * Slots
  BY RingAssumption
<1>3. Modulus = 2 * (half * laps) /\ half * laps \in Nat
  BY <1>1, <1>2, RingAssumption
<1>4. (i + 1) % 2 = (j + 1) % 2
  BY SlotParity
<1>5. QED
  BY <1>3, <1>4 DEF InProgress, Index

\* The reductions written as cases: the form linear arithmetic wants.
LEMMA TicketCases ==
  ASSUME start \in Index, NEW n \in 0 .. Modulus - 1
  PROVE  TicketOf(n) = IF start + n < Modulus THEN start + n ELSE start + n - Modulus
<1>1. start + n \in 0 .. 2 * Modulus - 1
  BY Sizes DEF Index
<1>2. QED
  BY <1>1, WrapOnce, Sizes DEF TicketOf, Index

LEMMA DistanceCases ==
  ASSUME NEW i \in Index, NEW j \in Index
  PROVE  Distance(i, j) = IF i <= j THEN j - i ELSE j - i + Modulus
<1>1. j - i + Modulus \in 0 .. 2 * Modulus - 1
  BY Sizes DEF Index
<1>2. (j - i + Modulus) % Modulus = IF j - i + Modulus < Modulus
                                    THEN j - i + Modulus ELSE j - i + Modulus - Modulus
  BY <1>1, WrapOnce, Sizes DEF Index
<1>3. QED
  BY <1>2, Sizes DEF Distance, Index

LEMMA SuccessorCases ==
  ASSUME NEW i \in Index
  PROVE  Successor(i) = IF i = Modulus - 1 THEN 0 ELSE i + 1
<1>1. i + 1 \in 0 .. 2 * Modulus - 1
  BY Sizes DEF Index
<1>2. QED
  BY <1>1, WrapOnce, Sizes DEF Successor, Index

LEMMA ClampCases ==
  ASSUME NEW i \in Index
  PROVE  (i - Slots + Modulus) % Modulus = IF Slots <= i THEN i - Slots ELSE i - Slots + Modulus
<1>1. i - Slots + Modulus \in 0 .. 2 * Modulus - 1
  BY Sizes DEF Index
<1>2. (i - Slots + Modulus) % Modulus = IF i - Slots + Modulus < Modulus
                                    THEN i - Slots + Modulus ELSE i - Slots + Modulus - Modulus
  BY <1>1, WrapOnce, Sizes DEF Index
<1>3. QED
  BY <1>2, Sizes DEF Index

\* Position undoes TicketOf: the ticket of the n-th call is n past start.
LEMMA PositionOfTicket ==
  ASSUME start \in Index, NEW n \in 0 .. Modulus - 1
  PROVE  /\ TicketOf(n) \in Index
         /\ Position(TicketOf(n)) = n
<1>1. TicketOf(n) \in Index
  BY TicketCases, Sizes DEF Index
<1>2. QED
  BY <1>1, TicketCases, DistanceCases, Sizes DEF Index, Position

\* ... and TicketOf undoes Position.
LEMMA TicketOfPosition ==
  ASSUME start \in Index, NEW i \in Index
  PROVE  /\ Position(i) \in 0 .. Modulus - 1
         /\ TicketOf(Position(i)) = i
<1>1. Position(i) = IF start <= i THEN i - start ELSE i - start + Modulus
  BY DistanceCases DEF Position
<1>2. Position(i) \in 0 .. Modulus - 1
  BY <1>1, Sizes DEF Index
<1>3. QED
  BY <1>1, <1>2, TicketCases, Sizes DEF Index

\* The next ticket is the next position.
LEMMA PositionOfSuccessor ==
  ASSUME start \in Index, NEW i \in Index, Position(i) < Modulus - 1
  PROVE  Successor(i) \in Index /\ Position(Successor(i)) = Position(i) + 1
<1>1. Successor(i) \in Index
  BY SuccessorCases, Sizes DEF Index
<1>2. QED
  BY <1>1, SuccessorCases, DistanceCases, Sizes DEF Index, Position

\* Between tickets of one behaviour the unsigned difference is the plain one.
LEMMA DistanceOfPositions ==
  ASSUME start \in Index, NEW i \in Index, NEW j \in Index
  PROVE  /\ Position(i) <= Position(j) => Distance(i, j) = Position(j) - Position(i)
         /\ Position(i) > Position(j) => Distance(i, j) = Position(j) - Position(i) + Modulus
  BY DistanceCases, Sizes DEF Index, Position

-----------------------------------------------------------------------------
(* The inductive invariant *)

LEMMA InitInv == Init => IInv
<1> SUFFICES ASSUME Init PROVE IInv
  OBVIOUS
<1> USE Sizes DEF Init, RingInit, ProducerInit
<1>1. TypeOK
  BY DEF TypeOK, Index, Blank
<1>2. ProducerInv
  <2>1. write_index = TicketOf(returned)
    BY TicketCases DEF Index
  <2>2. QED
    BY <2>1, RingAssumption DEF ProducerInv, InCall
<1>3. SlotInv
  BY DEF SlotInv
<1>4. CursorInv /\ CopyInv /\ NoTornPulse
  BY DEF CursorInv, CopyInv, NoTornPulse
<1>5. QED
  BY <1>1, <1>2, <1>3, <1>4 DEF IInv


\* Two callers are never inside queue_haptic together.
LEMMA OneCaller ==
  ASSUME ProducerInv, NEW p \in Producers, NEW q \in Producers,
         pc[p] # "outside", pc[q] # "outside"
  PROVE  p = q
  BY DEF ProducerInv

\* The published tickets and the one being written are positions below Modulus - 1.
LEMMA CallBounds ==
  ASSUME TypeOK, ProducerInv
  PROVE  /\ start \in Index
         /\ calls < Modulus - 1
         /\ returned \in 0 .. calls
         /\ \A n \in 0 .. calls : TicketOf(n) \in Index /\ Position(TicketOf(n)) = n
<1>1. start \in Index /\ calls \in 0 .. MaxCalls /\ returned \in 0 .. MaxCalls
  BY DEF TypeOK
<1>2. returned \in 0 .. calls
  <2>1. CASE lock = NoOne
    BY <2>1, <1>1 DEF ProducerInv
  <2>2. CASE lock \in Producers
    <3>1. pc[lock] # "outside"
      BY <2>2 DEF ProducerInv
    <3>2. pc[lock] = "claim" \/ InCall(lock)
      BY <3>1, <2>2 DEF InCall, TypeOK
    <3>3. QED
      BY <3>2, <2>2, <1>1 DEF ProducerInv
  <2>3. QED
    BY <2>1, <2>2 DEF TypeOK
<1>3. QED
  BY <1>1, <1>2, PositionOfTicket, Sizes


\* The conjuncts of TypeOK about the game's side, and about the host's.
LEMMA HostUntouched ==
  ASSUME IInv, UNCHANGED <<host, focused>>, UNCHANGED start,
         TypeOK', SlotInv', returned' \in Nat, returned <= returned',
         hpc = "copy" /\ commit'[SlotOf(t)] = t => commit[SlotOf(t)] = t
  PROVE  SlotInv' /\ CursorInv' /\ CopyInv' /\ NoTornPulse'
<1>0. \A i : Position(i)' = Position(i)
  BY DEF Position, Distance
<1>1. CursorInv'
  <2>1. /\ CursorInv
        /\ returned \in Nat /\ returned' \in Nat
        /\ UNCHANGED <<seed, read, snapshot, t, hpc, firedCount, torn, overruns, muted>>
    BY DEF IInv, host, TypeOK
  <2>2. UNCHANGED <<Position(seed), Position(read), Position(snapshot), Position(t)>>
    BY <1>0, <2>1
  <2>3. Position(snapshot) \in Nat
    BY TicketOfPosition DEF IInv, TypeOK
  <2>4. QED
    BY <2>1, <2>2, <2>3 DEF CursorInv
<1>2. CopyInv'
  BY DEF IInv, CopyInv, host, Position, Distance, SlotOf
<1>3. NoTornPulse'
  BY DEF IInv, NoTornPulse, host, TicketOf
<1>4. QED
  BY <1>1, <1>2, <1>3

LEMMA EnterInv ==
  ASSUME IInv, NEW p \in Producers, Enter(p), UNCHANGED <<host, focused>>
  PROVE  IInv'
<1> USE DEF ring
<1>1. TypeOK'
  BY DEF IInv, TypeOK, Enter, host
<1>2. ProducerInv'
  BY RingAssumption DEF IInv, TypeOK, ProducerInv, InCall, Enter, TicketOf, SlotOf, InProgress
<1>3. SlotInv'
  BY DEF IInv, SlotInv, Enter, TicketOf, SlotOf
<1>4. QED
  BY <1>1, <1>2, <1>3, HostUntouched DEF IInv, Enter, TypeOK

LEMMA ClaimInv ==
  ASSUME IInv, NEW p \in Producers, Claim(p), UNCHANGED <<host, focused>>
  PROVE  IInv'
<1> USE DEF ring
<1>0. lock = p /\ returned = calls /\ calls < MaxCalls /\ calls \in Nat
  BY DEF IInv, ProducerInv, Claim, TypeOK
<1>1. Successor(write_index) = TicketOf(calls + 1) /\ Successor(write_index) \in Index
  <2>1. start \in Index /\ write_index \in Index /\ write_index = TicketOf(calls)
    BY <1>0 DEF IInv, ProducerInv, TypeOK
  <2>2. Position(write_index) = calls /\ calls < Modulus - 1
    BY <2>1, CallBounds, <1>0 DEF IInv
  <2>3. QED
    BY <2>1, <2>2, PositionOfSuccessor, TicketOfPosition
<1>2. TypeOK'
  BY <1>0, <1>1, Sizes DEF IInv, TypeOK, Claim, host
<1>3. ProducerInv'
  <2>1. \A n : TicketOf(n)' = TicketOf(n)
    BY DEF Claim, TicketOf
  <2>2. write_index' = TicketOf(returned)' /\ (lock' = NoOne => returned' = calls')
    BY <1>0, <2>1, RingAssumption DEF IInv, ProducerInv, Claim
  <2>3. ASSUME NEW q \in Producers
        PROVE  /\ pc'[q] # "outside" <=> lock' = q
               /\ q # p => pc'[q] = "outside"
    BY <1>0 DEF IInv, ProducerInv, Claim, TypeOK
  <2>4. calls' = returned' + 1 /\ pulse'[p] = calls' /\ ticket'[p] = TicketOf(calls)'
    BY <1>0, <1>1, <2>1 DEF IInv, Claim, TypeOK
  <2>5. pc'[p] = "invalidate"
    BY DEF IInv, Claim, TypeOK
  <2>6. QED
    BY <2>2, <2>3, <2>4, <2>5 DEF ProducerInv, InCall
<1>4. SlotInv'
  BY DEF IInv, SlotInv, Claim, TicketOf, SlotOf
<1>5. QED
  BY <1>2, <1>3, <1>4, HostUntouched DEF IInv, Claim, TypeOK


\* What a caller that holds a ticket knows: it is alone, its ticket is the next one, and
\* neither its stamp nor its in-progress stamp is that of an older ticket of its slot.
LEMMA TicketHolder ==
  ASSUME IInv, NEW p \in Producers, InCall(p)
  PROVE  /\ \A q \in Producers : q # p => pc[q] = "outside"
         /\ lock = p
         /\ calls = returned + 1 /\ calls \in 1 .. MaxCalls /\ returned \in Nat
         /\ pulse[p] = calls
         /\ ticket[p] = TicketOf(calls)
         /\ ticket[p] \in Index
         /\ SlotOf(ticket[p]) \in SlotIndex
         /\ \A n \in 1 .. returned :
              /\ TicketOf(n) \in Index
              /\ ticket[p] # TicketOf(n)
              /\ SlotOf(ticket[p]) = SlotOf(TicketOf(n)) => InProgress(ticket[p]) # TicketOf(n)
<1>1. pc[p] # "outside"
  BY DEF InCall
<1>2. lock = p /\ calls = returned + 1 /\ pulse[p] = calls /\ ticket[p] = TicketOf(calls)
  BY <1>1 DEF IInv, ProducerInv
<1>3. calls \in 1 .. MaxCalls /\ returned \in Nat
  BY <1>2 DEF IInv, TypeOK
<1>4. \A q \in Producers : q # p => pc[q] = "outside"
  BY <1>1, OneCaller DEF IInv
<1>5. ticket[p] \in Index /\ SlotOf(ticket[p]) \in SlotIndex
  BY TicketTypes DEF IInv, TypeOK
<1>6. ASSUME NEW n \in 1 .. returned
      PROVE  /\ TicketOf(n) \in Index
             /\ ticket[p] # TicketOf(n)
             /\ SlotOf(ticket[p]) = SlotOf(TicketOf(n)) => InProgress(ticket[p]) # TicketOf(n)
  <2>1. n \in 0 .. calls /\ calls \in 0 .. calls /\ n # calls
    BY <1>2, <1>3
  <2>2. TicketOf(n) \in Index /\ Position(TicketOf(n)) = n /\ Position(TicketOf(calls)) = calls
    BY <2>1, CallBounds DEF IInv
  <2>3. ticket[p] # TicketOf(n)
    BY <2>1, <2>2, <1>2
  <2>4. QED
    BY <2>2, <2>3, <1>5, InProgressIsNoTicket
<1>7. QED
  BY <1>2, <1>3, <1>4, <1>5, <1>6

\* A ticket the host is copying is a published one.
LEMMA CopiedTicket ==
  ASSUME IInv, hpc = "copy"
  PROVE  /\ Position(t) \in 1 .. returned
         /\ t = TicketOf(Position(t))
         /\ SlotOf(t) \in SlotIndex
<1>1. start \in Index /\ t \in Index /\ snapshot \in Index /\ returned \in Nat
  BY DEF IInv, TypeOK
<1>2. Position(t) \in Nat /\ Position(snapshot) \in Nat /\ t = TicketOf(Position(t))
  BY <1>1, TicketOfPosition
<1>3. Position(t) >= 1 /\ Position(t) <= Position(snapshot) /\ Position(snapshot) <= returned
  BY DEF IInv, CursorInv
<1>4. QED
  BY <1>1, <1>2, <1>3, TicketTypes

LEMMA InvalidateInv ==
  ASSUME IInv, NEW p \in Producers, Invalidate(p), UNCHANGED <<host, focused>>
  PROVE  IInv'
<1> USE DEF ring
<1> DEFINE s == SlotOf(ticket[p])
<1>0. InCall(p)
  BY DEF Invalidate, InCall
<1>1. TypeOK'
  <2>1. InProgress(ticket[p]) \in Index
    BY <1>0, TicketHolder, TicketTypes
  <2>2. QED
    BY <2>1 DEF IInv, TypeOK, Invalidate, host
<1>2. /\ \A n : TicketOf(n)' = TicketOf(n)
      /\ \A i : SlotOf(i)' = SlotOf(i) /\ InProgress(i)' = InProgress(i)
  BY DEF Invalidate, TicketOf, SlotOf, InProgress
<1>3. commit' = [commit EXCEPT ![s] = InProgress(ticket[p])] /\ commit \in [SlotIndex -> Index]
  BY DEF Invalidate, IInv, TypeOK
<1>4. ProducerInv'
  <2>1. write_index' = TicketOf(returned)' /\ (lock' = NoOne => returned' = calls')
    BY <1>2 DEF IInv, ProducerInv, Invalidate
  <2>2. ASSUME NEW q \in Producers, q # p
        PROVE  pc'[q] = "outside" /\ lock' # q
    BY <1>0, <2>2, TicketHolder DEF IInv, Invalidate, TypeOK
  <2>3. pc'[p] = "fill" /\ lock' = p
    BY <1>0, TicketHolder DEF IInv, Invalidate, TypeOK
  <2>4. calls' = returned' + 1 /\ pulse'[p] = calls' /\ ticket'[p] = TicketOf(calls)'
    BY <1>0, <1>2, TicketHolder DEF Invalidate
  <2>5. commit'[SlotOf(ticket[p])'] = InProgress(ticket[p])'
    BY <1>0, <1>2, <1>3, TicketHolder DEF Invalidate
  <2>6. unwritten'[p] = Fields
    BY DEF Invalidate, IInv, TypeOK
  <2>7. QED
    BY <2>1, <2>2, <2>3, <2>4, <2>5, <2>6 DEF ProducerInv, InCall
<1>5. SlotInv'
  <2> SUFFICES ASSUME NEW n \in 1 .. returned, NEW f \in Fields,
                      commit'[SlotOf(TicketOf(n))] = TicketOf(n)
               PROVE  payload[SlotOf(TicketOf(n))][f] = n
    BY <1>2 DEF SlotInv, Invalidate
  <2>1. SlotOf(TicketOf(n)) # s
    BY <1>0, <1>3, TicketHolder, TicketTypes DEF IInv, TypeOK
  <2>2. commit[SlotOf(TicketOf(n))] = TicketOf(n)
    BY <2>1, <1>3
  <2>3. QED
    BY <2>2 DEF IInv, SlotInv
<1>6. ASSUME hpc = "copy", commit'[SlotOf(t)] = t
      PROVE  commit[SlotOf(t)] = t
  BY <1>0, <1>3, <1>6, CopiedTicket, TicketHolder
<1>7. QED
  BY <1>1, <1>4, <1>5, <1>6, HostUntouched DEF IInv, Invalidate, TypeOK

LEMMA FillInv ==
  ASSUME IInv, NEW p \in Producers, Fill(p), UNCHANGED <<host, focused>>
  PROVE  IInv'
<1> DEFINE s == SlotOf(ticket[p])
<1>0. InCall(p)
  BY DEF Fill, InCall
<1>1. PICK g \in unwritten[p] :
        /\ payload' = [payload EXCEPT ![s][g] = pulse[p]]
        /\ unwritten' = [unwritten EXCEPT ![p] = @ \ {g}]
  BY DEF Fill
<1>2. /\ g \in Fields
      /\ payload \in [SlotIndex -> [Fields -> 0 .. MaxCalls]]
      /\ unwritten \in [Producers -> SUBSET Fields]
      /\ pulse[p] \in 0 .. MaxCalls
      /\ s \in SlotIndex
  BY <1>0, TicketHolder DEF IInv, TypeOK
<1>3. UNCHANGED <<start, write_index, commit, lock, pc, ticket, pulse, calls, returned>>
  BY DEF Fill
<1>4. TypeOK'
  <2>1. payload' \in [SlotIndex -> [Fields -> 0 .. MaxCalls]]
        /\ unwritten' \in [Producers -> SUBSET Fields]
    BY <1>1, <1>2
  <2>2. QED
    BY <2>1, <1>3 DEF IInv, TypeOK, host
<1>5. /\ \A n : TicketOf(n)' = TicketOf(n)
      /\ \A i : SlotOf(i)' = SlotOf(i) /\ InProgress(i)' = InProgress(i)
  BY <1>3 DEF TicketOf, SlotOf, InProgress
<1>6. pc[p] = "fill" /\ commit[s] = InProgress(ticket[p])
      /\ \A f \in Fields \ unwritten[p] : payload[s][f] = pulse[p]
  BY DEF Fill, IInv, ProducerInv
<1>7. ProducerInv'
  <2>1. write_index' = TicketOf(returned)' /\ (lock' = NoOne => returned' = calls')
    BY <1>3, <1>5 DEF IInv, ProducerInv
  <2>2. ASSUME NEW q \in Producers, q # p
        PROVE  pc'[q] = "outside" /\ lock' # q
    BY <1>0, <1>3, <2>2, TicketHolder
  <2>3. pc'[p] = "fill" /\ lock' = p
    BY <1>0, <1>3, <1>6, TicketHolder
  <2>4. calls' = returned' + 1 /\ pulse'[p] = calls' /\ ticket'[p] = TicketOf(calls)'
    BY <1>0, <1>3, <1>5, TicketHolder
  <2>5. commit'[SlotOf(ticket[p])'] = InProgress(ticket[p])'
    BY <1>3, <1>5, <1>6
  <2>6. \A f \in Fields \ unwritten'[p] : payload'[s][f] = pulse[p]
    BY <1>1, <1>2, <1>6
  <2>7. \A f \in Fields \ unwritten'[p] : payload'[SlotOf(ticket[p])'][f] = pulse'[p]
    BY <2>6, <1>3, <1>5
  <2>8. QED
    BY <2>1, <2>2, <2>3, <2>4, <2>5, <2>7 DEF ProducerInv, InCall
<1>8. SlotInv'
  <2> SUFFICES ASSUME NEW n \in 1 .. returned, NEW f \in Fields,
                      commit[SlotOf(TicketOf(n))] = TicketOf(n)
               PROVE  payload'[SlotOf(TicketOf(n))][f] = n
    BY <1>3, <1>5 DEF SlotInv
  <2>1. SlotOf(TicketOf(n)) # s
    BY <1>0, <1>6, TicketHolder
  <2>2. payload'[SlotOf(TicketOf(n))] = payload[SlotOf(TicketOf(n))]
    BY <2>1, <1>0, <1>1, <1>2, TicketHolder, TicketTypes
  <2>3. QED
    BY <2>2 DEF IInv, SlotInv
<1>9. QED
  BY <1>3, <1>4, <1>7, <1>8, HostUntouched DEF IInv, TypeOK


LEMMA CommitInv ==
  ASSUME IInv, NEW p \in Producers, Commit(p), UNCHANGED <<host, focused>>
  PROVE  IInv'
<1> DEFINE s == SlotOf(ticket[p])
<1>0. InCall(p)
  BY DEF Commit, InCall
<1>1. /\ s \in SlotIndex
      /\ ticket[p] \in Index
      /\ commit \in [SlotIndex -> Index]
      /\ commit' = [commit EXCEPT ![s] = ticket[p]]
      /\ pc' = [pc EXCEPT ![p] = "publish"]
      /\ pc[p] = "fill" /\ unwritten[p] = {}
      /\ pc \in [Producers -> {"outside", "claim", "invalidate", "fill", "publish"}]
  BY <1>0, TicketHolder DEF IInv, TypeOK, Commit
<1>2. UNCHANGED <<start, write_index, payload, lock, ticket, unwritten, pulse, calls, returned>>
  BY DEF Commit
<1>3. TypeOK'
  BY <1>1, <1>2 DEF IInv, TypeOK, host
<1>4. /\ \A n : TicketOf(n)' = TicketOf(n)
      /\ \A i : SlotOf(i)' = SlotOf(i) /\ InProgress(i)' = InProgress(i)
  BY <1>2 DEF TicketOf, SlotOf, InProgress
<1>5. ProducerInv'
  <2>1. write_index' = TicketOf(returned)' /\ (lock' = NoOne => returned' = calls')
    BY <1>2, <1>4 DEF IInv, ProducerInv
  <2>2. ASSUME NEW q \in Producers, q # p
        PROVE  pc'[q] = "outside" /\ lock' # q
    BY <1>0, <1>1, <1>2, <2>2, TicketHolder
  <2>3. pc'[p] = "publish" /\ lock' = p
    BY <1>0, <1>1, <1>2, TicketHolder
  <2>4. calls' = returned' + 1 /\ pulse'[p] = calls' /\ ticket'[p] = TicketOf(calls)'
    BY <1>0, <1>2, <1>4, TicketHolder
  <2>5. \A f \in Fields : payload'[SlotOf(ticket[p])'][f] = pulse'[p]
    BY <1>1, <1>2, <1>4 DEF IInv, ProducerInv
  <2>6. QED
    BY <2>1, <2>2, <2>3, <2>4, <2>5 DEF ProducerInv, InCall
<1>6. SlotInv'
  <2> SUFFICES ASSUME NEW n \in 1 .. returned, NEW f \in Fields,
                      commit'[SlotOf(TicketOf(n))] = TicketOf(n)
               PROVE  payload[SlotOf(TicketOf(n))][f] = n
    BY <1>2, <1>4 DEF SlotInv
  <2>1. SlotOf(TicketOf(n)) # s
    BY <1>0, <1>1, TicketHolder
  <2>2. commit[SlotOf(TicketOf(n))] = TicketOf(n)
    BY <2>1, <1>1
  <2>3. QED
    BY <2>2 DEF IInv, SlotInv
<1>7. ASSUME hpc = "copy", commit'[SlotOf(t)] = t
      PROVE  commit[SlotOf(t)] = t
  BY <1>0, <1>1, <1>7, CopiedTicket, TicketHolder
<1>8. QED
  BY <1>2, <1>3, <1>5, <1>6, <1>7, HostUntouched DEF IInv, TypeOK

LEMMA PublishInv ==
  ASSUME IInv, NEW p \in Producers, Publish(p), UNCHANGED <<host, focused>>
  PROVE  IInv'
<1>0. InCall(p)
  BY DEF Publish, InCall
<1>1. /\ pc[p] = "publish"
      /\ write_index' = ticket[p] /\ returned' = returned + 1 /\ lock' = NoOne
      /\ pc' = [pc EXCEPT ![p] = "outside"]
      /\ pc \in [Producers -> {"outside", "claim", "invalidate", "fill", "publish"}]
      /\ UNCHANGED <<start, commit, payload, ticket, unwritten, pulse, calls>>
  BY DEF Publish, IInv, TypeOK
<1>2. returned' = calls /\ calls \in 1 .. MaxCalls /\ returned \in Nat /\ returned' \in Nat
      /\ write_index' = TicketOf(calls) /\ write_index' \in Index
  BY <1>0, <1>1, TicketHolder
<1>3. TypeOK'
  BY <1>1, <1>2 DEF IInv, TypeOK, host
<1>4. /\ \A n : TicketOf(n)' = TicketOf(n)
      /\ \A i : SlotOf(i)' = SlotOf(i)
  BY <1>1 DEF TicketOf, SlotOf
<1>5. ProducerInv'
  <2>1. write_index' = TicketOf(returned)' /\ returned' = calls'
    BY <1>1, <1>2, <1>4
  <2>2. ASSUME NEW q \in Producers
        PROVE  pc'[q] = "outside" /\ lock' # q
    <3>1. q # p => pc[q] = "outside"
      BY <1>0, TicketHolder
    <3>2. QED
      BY <3>1, <1>1, RingAssumption
  <2>3. QED
    BY <2>1, <2>2 DEF ProducerInv, InCall
<1>6. SlotInv'
  <2> SUFFICES ASSUME NEW n \in 1 .. returned', NEW f \in Fields,
                      commit[SlotOf(TicketOf(n))] = TicketOf(n)
               PROVE  payload[SlotOf(TicketOf(n))][f] = n
    BY <1>1, <1>4 DEF SlotInv
  <2>1. CASE n = calls
    BY <2>1, <1>0, <1>1, TicketHolder DEF IInv, ProducerInv
  <2>2. CASE n # calls
    <3>1. n \in 1 .. returned
      BY <2>2, <1>1, <1>2
    <3>2. QED
      BY <3>1 DEF IInv, SlotInv
  <2>3. QED
    BY <2>1, <2>2
<1>7. QED
  BY <1>1, <1>2, <1>3, <1>5, <1>6, HostUntouched DEF IInv

-----------------------------------------------------------------------------
(* The host's steps leave the ring and the producers alone *)

LEMMA RingUntouched ==
  ASSUME IInv, UNCHANGED <<start, ring, producer>>, TypeOK'
  PROVE  ProducerInv' /\ SlotInv'
<1>1. /\ \A n : TicketOf(n)' = TicketOf(n)
      /\ \A i : SlotOf(i)' = SlotOf(i) /\ InProgress(i)' = InProgress(i)
  BY DEF TicketOf, SlotOf, InProgress
<1>2. UNCHANGED <<write_index, commit, payload, lock, pc, ticket, unwritten, pulse, calls, returned>>
  BY DEF ring, producer
<1>3. ProducerInv'
  BY <1>1, <1>2 DEF IInv, ProducerInv, InCall
<1>4. SlotInv'
  BY <1>1, <1>2 DEF IInv, SlotInv
<1>5. QED
  BY <1>3, <1>4

\* The positions the host's cursors denote, and that a step of the host does not move them.
LEMMA Cursors ==
  ASSUME IInv
  PROVE  /\ start \in Index /\ write_index \in Index /\ read \in Index /\ snapshot \in Index
         /\ t \in Index /\ returned \in Nat
         /\ Position(write_index) = returned /\ returned + Slots <= Modulus
         /\ Position(read) \in Nat /\ Position(snapshot) \in Nat /\ Position(t) \in Nat
         /\ seed # -1 => seed \in Index /\ Position(seed) \in Nat
         /\ firedCount \in Nat /\ torn \in Nat /\ overruns \in Nat /\ muted \in Nat
<1>1. /\ start \in Index /\ write_index \in Index /\ read \in Index /\ snapshot \in Index
      /\ t \in Index /\ returned \in Nat /\ returned <= MaxCalls
      /\ seed # -1 => seed \in Index
      /\ firedCount \in Nat /\ torn \in Nat /\ overruns \in Nat /\ muted \in Nat
  BY Sizes DEF IInv, TypeOK
<1>2. Position(write_index) = returned
  BY CallBounds DEF IInv, ProducerInv
<1>3. QED
  BY <1>1, <1>2, TicketOfPosition, Sizes

LEMMA SnapshotInv ==
  ASSUME IInv, Snapshot
  PROVE  IInv'
<1> DEFINE cursor == IF seed = -1 THEN write_index ELSE read
           avail  == Distance(cursor, write_index)
           late   == Overrun(avail)
           base   == IF avail > Slots THEN (write_index - Slots + Modulus) % Modulus ELSE cursor
<1>1. /\ hpc = "elsewhere" /\ hpc' = "scan" /\ snapshot' = write_index
      /\ seed' = (IF seed = -1 THEN write_index ELSE seed)
      /\ overruns' = overruns + late /\ read' = base /\ t' = Successor(base)
      /\ UNCHANGED <<start, ring, producer, copy, uncopied, fired, firedCount, torn, muted, focused>>
  BY DEF Snapshot
<1>2. cursor \in Index /\ Position(cursor) \in Nat /\ Position(cursor) <= returned
  BY Cursors DEF IInv, CursorInv
<1>3. avail = returned - Position(cursor)
  BY <1>2, Cursors, DistanceOfPositions
<1>4. late \in Nat /\ (late > 0 <=> avail > Slots) /\ (avail > Slots => late = avail - Slots)
  BY <1>2, <1>3, Cursors, Sizes DEF Overrun
<1>5. base \in Index /\ Position(base) = Position(cursor) + late
  <2>1. CASE late > 0
    <3>1. write_index \in Index /\ start \in Index /\ Position(write_index) = returned /\ returned > Slots
      BY <2>1, <1>2, <1>3, <1>4, Cursors, Sizes
    <3>2. base = IF Slots <= write_index THEN write_index - Slots
                                          ELSE write_index - Slots + Modulus
      BY <2>1, <3>1, <1>4, ClampCases
    <3>3. base \in Index
      BY <3>1, <3>2, Sizes DEF Index
    <3>4. Position(base) = IF start <= base THEN base - start ELSE base - start + Modulus
      BY <3>1, <3>3, DistanceCases DEF Position
    <3>5. returned = IF start <= write_index THEN write_index - start
                                             ELSE write_index - start + Modulus
      BY <3>1, DistanceCases DEF Position
    <3>6. Position(base) = returned - Slots
      BY <3>1, <3>2, <3>3, <3>4, <3>5, Sizes DEF Index
    <3>7. QED
      BY <3>3, <3>6, <2>1, <1>2, <1>3, <1>4, Cursors, Sizes
  <2>2. CASE ~(late > 0)
    BY <2>2, <1>2, <1>4
  <2>3. QED
    BY <2>1, <2>2
<1>6. Position(base) <= returned /\ Position(base) \in Nat /\ returned - Position(base) <= Slots
  BY <1>2, <1>3, <1>4, <1>5, Cursors, Sizes
<1>7. t' \in Index /\ Position(Successor(base)) = Position(base) + 1
  BY <1>1, <1>5, <1>6, Cursors, Sizes, PositionOfSuccessor
<1>8. TypeOK'
  BY <1>1, <1>4, <1>5, <1>7, Cursors DEF IInv, TypeOK, ring, producer
<1>9. \A i : Position(i)' = Position(i)
  BY <1>1 DEF Position, Distance
<1>10. CursorInv'
  <2>1. seed' \in Index /\ seed' # -1 /\ Position(seed') \in Nat /\ Position(seed') <= Position(cursor)
    BY <1>1, <1>2, Cursors DEF IInv, CursorInv, Index
  <2>2. Position(cursor) - Position(seed') = firedCount + muted + torn + overruns
    BY <1>1, <1>2, Cursors DEF IInv, CursorInv
  <2>3. /\ Position(seed)' = Position(seed') /\ Position(read)' = Position(base)
        /\ Position(snapshot)' = returned /\ Position(t)' = Position(base) + 1
    BY <1>1, <1>7, <1>9, Cursors
  <2>4. returned' = returned /\ firedCount' = firedCount /\ muted' = muted /\ torn' = torn
    BY <1>1 DEF producer
  <2>5. hpc' = "scan" /\ overruns' = overruns + late
    BY <1>1
  <2>6. Position(base) - Position(seed') = firedCount + muted + torn + overruns + late
    BY <2>1, <2>2, <1>2, <1>4, <1>5, Cursors
  <2> HIDE DEF late, base, cursor
  <2>7. QED
    BY <2>1, <2>3, <2>4, <2>5, <2>6, <1>2, <1>4, <1>5, <1>6, Cursors, Sizes DEF CursorInv
<1>11. CopyInv' /\ NoTornPulse'
  BY <1>1 DEF IInv, CopyInv, NoTornPulse, TicketOf
<1>12. QED
  BY <1>1, <1>8, <1>10, <1>11, RingUntouched DEF IInv


\* Within the loop the position of t is at most one past the snapshot, and the loop's
\* signed comparison tells the two cases apart.
LEMMA Window ==
  ASSUME IInv, hpc # "elsewhere"
  PROVE  /\ seed # -1
         /\ InWindow(t) => Position(t) <= Position(snapshot)
         /\ ~InWindow(t) => Position(t) = Position(snapshot) + 1
         /\ Position(t) <= Position(snapshot) =>
              Successor(t) \in Index /\ Position(Successor(t)) = Position(t) + 1
<1>1. /\ seed # -1 /\ 1 <= Position(t) /\ Position(t) <= Position(snapshot) + 1
      /\ Position(snapshot) - Position(t) < Slots /\ Position(snapshot) <= returned
  BY DEF IInv, CursorInv
<1>2. Position(t) <= Position(snapshot) =>
        Distance(t, snapshot) = Position(snapshot) - Position(t)
  BY Cursors, DistanceOfPositions
<1>3. Position(t) > Position(snapshot) =>
        Distance(t, snapshot) = Position(snapshot) - Position(t) + Modulus
  BY Cursors, DistanceOfPositions
<1>4. Modulus \div 2 >= Slots /\ Modulus \div 2 <= Modulus - 1 /\ Modulus \div 2 \in Nat
  BY Sizes
<1>5. Position(t) <= Position(snapshot) => InWindow(t)
  BY <1>1, <1>2, <1>4, Cursors, Sizes DEF InWindow
<1>6. Position(t) > Position(snapshot) => ~InWindow(t) /\ Position(t) = Position(snapshot) + 1
  BY <1>1, <1>3, <1>4, Cursors, Sizes DEF InWindow
<1>7. Position(t) <= Position(snapshot) => Position(t) < Modulus - 1
  BY <1>1, Cursors, Sizes
<1>8. QED
  BY <1>1, <1>5, <1>6, <1>7, Cursors, PositionOfSuccessor

LEMMA FinishInv ==
  ASSUME IInv, Finish
  PROVE  IInv'
<1>1. /\ hpc = "scan" /\ hpc' = "elsewhere" /\ read' = snapshot /\ ~InWindow(t)
      /\ UNCHANGED <<seed, snapshot, t, copy, uncopied, fired, firedCount, torn, overruns, muted,
                     start, ring, producer, focused>>
  BY DEF Finish
<1>2. TypeOK'
  BY <1>1 DEF IInv, TypeOK, ring, producer
<1>3. \A i : Position(i)' = Position(i)
  BY <1>1 DEF Position, Distance
<1>4. CursorInv'
  <2>1. Position(t) = Position(snapshot) + 1 /\ seed # -1
    BY <1>1, Window
  <2>2. /\ Position(seed)' = Position(seed) /\ Position(read)' = Position(snapshot)
        /\ Position(snapshot)' = Position(snapshot)
    BY <1>1, <1>3
  <2>3. returned' = returned
    BY <1>1 DEF producer
  <2>4. QED
    BY <2>1, <2>2, <2>3, <1>1, Cursors DEF IInv, CursorInv
<1>5. CopyInv' /\ NoTornPulse'
  BY <1>1 DEF IInv, CopyInv, NoTornPulse, TicketOf
<1>6. QED
  BY <1>1, <1>2, <1>4, <1>5, RingUntouched DEF IInv

LEMMA ReadBeforeInv ==
  ASSUME IInv, ReadBefore
  PROVE  IInv'
<1>1. /\ hpc = "scan" /\ InWindow(t)
      /\ UNCHANGED <<seed, read, snapshot, copy, fired, firedCount, overruns, muted,
                     start, ring, producer, focused>>
  BY DEF ReadBefore
<1>2. /\ seed # -1 /\ Position(t) <= Position(snapshot)
      /\ Successor(t) \in Index /\ Position(Successor(t)) = Position(t) + 1
  BY <1>1, Window
<1>3. /\ \A i : Position(i)' = Position(i)
      /\ \A i : SlotOf(i)' = SlotOf(i)
      /\ \A n : TicketOf(n)' = TicketOf(n)
  BY <1>1 DEF Position, Distance, SlotOf, TicketOf
<1>4. returned' = returned
  BY <1>1 DEF producer
<1>5. CASE hpc' = "copy" /\ uncopied' = Fields /\ UNCHANGED <<t, torn>>
  <2>1. TypeOK'
    BY <1>1, <1>5 DEF IInv, TypeOK, ring, producer
  <2>2. CursorInv'
    BY <1>1, <1>2, <1>3, <1>4, <1>5 DEF IInv, CursorInv
  <2>3. CopyInv' /\ NoTornPulse'
    BY <1>1, <1>3, <1>5 DEF IInv, CopyInv, NoTornPulse
  <2>4. QED
    BY <2>1, <2>2, <2>3, <1>1, RingUntouched DEF IInv
<1>6. CASE torn' = torn + 1 /\ t' = Successor(t) /\ UNCHANGED <<hpc, uncopied>>
  <2>1. TypeOK'
    BY <1>1, <1>2, <1>6 DEF IInv, TypeOK, ring, producer
  <2>2. Position(t)' = Position(t) + 1
    BY <1>2, <1>3, <1>6
  <2>3. CursorInv'
    BY <2>2, <1>1, <1>2, <1>3, <1>4, <1>6, Cursors, Sizes DEF IInv, CursorInv
  <2>4. CopyInv' /\ NoTornPulse'
    BY <1>1, <1>3, <1>6 DEF IInv, CopyInv, NoTornPulse
  <2>5. QED
    BY <2>1, <2>3, <2>4, <1>1, RingUntouched DEF IInv
<1>7. QED
  BY <1>5, <1>6 DEF ReadBefore

LEMMA CopyStepInv ==
  ASSUME IInv, Copy
  PROVE  IInv'
<1>1. PICK g \in uncopied :
        /\ copy' = [copy EXCEPT ![g] = payload[SlotOf(t)][g]]
        /\ uncopied' = uncopied \ {g}
  BY DEF Copy
<1>2. /\ hpc = "copy"
      /\ UNCHANGED <<seed, read, snapshot, t, hpc, fired, firedCount, torn, overruns, muted,
                     start, ring, producer, focused>>
  BY DEF Copy
<1>3. /\ g \in Fields /\ uncopied \in SUBSET Fields
      /\ copy \in [Fields -> 0 .. MaxCalls]
      /\ payload[SlotOf(t)] \in [Fields -> 0 .. MaxCalls]
  BY <1>2, CopiedTicket DEF IInv, TypeOK
<1>4. TypeOK'
  <2>1. copy' \in [Fields -> 0 .. MaxCalls] /\ uncopied' \in SUBSET Fields
    BY <1>1, <1>3
  <2>2. QED
    BY <2>1, <1>2 DEF IInv, TypeOK, ring, producer
<1>5. /\ \A i : Position(i)' = Position(i)
      /\ \A i : SlotOf(i)' = SlotOf(i)
      /\ \A n : TicketOf(n)' = TicketOf(n)
      /\ UNCHANGED <<returned, commit, payload>>
  BY <1>2 DEF Position, Distance, SlotOf, TicketOf, ring, producer
<1>6. CursorInv'
  BY <1>2, <1>5 DEF IInv, CursorInv
<1>7. CopyInv'
  <2> SUFFICES ASSUME commit[SlotOf(t)] = t, NEW f \in Fields \ uncopied'
               PROVE  copy'[f] = Position(t)
    BY <1>2, <1>5 DEF CopyInv
  <2>1. CASE f = g
    <3>1. payload[SlotOf(t)][g] = Position(t)
      BY <1>2, <1>3, CopiedTicket DEF IInv, SlotInv
    <3>2. QED
      BY <2>1, <3>1, <1>1, <1>3
  <2>2. CASE f # g
    BY <2>2, <1>1, <1>2, <1>3 DEF IInv, CopyInv
  <2>3. QED
    BY <2>1, <2>2
<1>8. NoTornPulse'
  BY <1>2, <1>5 DEF IInv, NoTornPulse
<1>9. QED
  BY <1>2, <1>4, <1>6, <1>7, <1>8, RingUntouched DEF IInv

LEMMA ReadAfterInv ==
  ASSUME IInv, ReadAfter
  PROVE  IInv'
<1>1. /\ hpc = "copy" /\ uncopied = {} /\ hpc' = "scan" /\ t' = Successor(t)
      /\ UNCHANGED <<seed, read, snapshot, copy, uncopied, overruns, start, ring, producer, focused>>
  BY DEF ReadAfter
<1>2. /\ seed # -1 /\ Position(t) <= Position(snapshot)
      /\ Successor(t) \in Index /\ Position(Successor(t)) = Position(t) + 1
  BY <1>1, Window DEF IInv, CursorInv
<1>3. /\ \A i : Position(i)' = Position(i)
      /\ \A n : TicketOf(n)' = TicketOf(n)
      /\ returned' = returned
  BY <1>1 DEF Position, Distance, TicketOf, producer
<1>4. \/ /\ torn' = torn + 1
         /\ UNCHANGED <<fired, firedCount, muted>>
      \/ /\ muted' = muted + 1
         /\ UNCHANGED <<fired, firedCount, torn>>
      \/ /\ commit[SlotOf(t)] = t
         /\ fired' = [ticket |-> t, copy |-> copy]
         /\ firedCount' = firedCount + 1
         /\ UNCHANGED <<torn, muted>>
  BY DEF ReadAfter
<1>5. TypeOK'
  <2>1. fired' \in [ticket : Index \cup {-1}, copy : [Fields -> 0 .. MaxCalls]]
    BY <1>4 DEF IInv, TypeOK
  <2>2. firedCount' \in Nat /\ torn' \in Nat /\ muted' \in Nat
    BY <1>4 DEF IInv, TypeOK
  <2>3. QED
    BY <1>1, <1>2, <2>1, <2>2 DEF IInv, TypeOK, ring, producer
<1>6. CursorInv'
  <2>1. firedCount' + muted' + torn' + overruns' = firedCount + muted + torn + overruns + 1
    BY <1>1, <1>4, Cursors
  <2>2. Position(t)' = Position(t) + 1
    BY <1>1, <1>2, <1>3
  <2>3. QED
    BY <2>1, <2>2, <1>1, <1>2, <1>3, Cursors, Sizes DEF IInv, CursorInv
<1>7. CopyInv'
  BY <1>1 DEF CopyInv
<1>8. NoTornPulse'
  <2>1. CASE UNCHANGED fired
    BY <2>1, <1>3 DEF IInv, NoTornPulse
  <2>2. CASE commit[SlotOf(t)] = t /\ fired' = [ticket |-> t, copy |-> copy]
    <3>1. \A f \in Fields : copy[f] = Position(t)
      BY <2>2, <1>1 DEF IInv, CopyInv
    <3>2. Position(t) \in 1 .. MaxCalls /\ t = TicketOf(Position(t))
      <4>1. Position(t) \in 1 .. returned /\ t = TicketOf(Position(t))
        BY <1>1, CopiedTicket
      <4>2. returned \in 0 .. MaxCalls
        BY DEF IInv, TypeOK
      <4>3. QED
        BY <4>1, <4>2, Sizes
    <3>3. QED
      BY <2>2, <3>1, <3>2, <1>3 DEF NoTornPulse
  <2>3. QED
    BY <1>4, <2>1, <2>2
<1>9. QED
  BY <1>1, <1>5, <1>6, <1>7, <1>8, RingUntouched DEF IInv

LEMMA IdleInv ==
  ASSUME IInv, UNCHANGED <<start, ring, producer, host>>, focused' \in BOOLEAN
  PROVE  IInv'
<1>1. TypeOK'
  BY DEF IInv, TypeOK, ring, producer, host
<1>2. /\ \A i : Position(i)' = Position(i)
      /\ \A i : SlotOf(i)' = SlotOf(i)
      /\ \A n : TicketOf(n)' = TicketOf(n)
  BY DEF Position, Distance, SlotOf, TicketOf
<1>3. CursorInv' /\ CopyInv' /\ NoTornPulse'
  BY <1>2 DEF IInv, CursorInv, CopyInv, NoTornPulse, host, producer, ring
<1>4. QED
  BY <1>1, <1>3, RingUntouched DEF IInv

LEMMA NextInv == IInv /\ [Next]_vars => IInv'
<1> SUFFICES ASSUME IInv, [Next]_vars PROVE IInv'
  OBVIOUS
<1>1. ASSUME NEW p \in Producers, Queue(p), UNCHANGED <<host, focused>>
      PROVE  IInv'
  BY <1>1, EnterInv, ClaimInv, InvalidateInv, FillInv, CommitInv, PublishInv DEF Queue
<1>2. CASE Drain
  BY <1>2, SnapshotInv, FinishInv, ReadBeforeInv, CopyStepInv, ReadAfterInv DEF Drain
<1>3. CASE FocusChange
  BY <1>3, IdleInv DEF FocusChange, IInv, TypeOK
<1>4. CASE UNCHANGED vars
  BY <1>4, IdleInv DEF vars, IInv, TypeOK
<1>5. QED
  BY <1>1, <1>2, <1>3, <1>4 DEF Next

-----------------------------------------------------------------------------
(* The results *)

\* The inductive invariant of the composed ring holds: its types, the whereabouts of the
\* caller inside queue_haptic, and what every published slot and the host's copy hold.
THEOREM Invariance == Spec => []IInv
  BY InitInv, NextInv, PTL DEF Spec

\* The state of the ring, of queue_haptic and of the drain is well typed.
THEOREM TypeCorrect == Spec => []TypeOK
<1>1. IInv => TypeOK
  BY DEF IInv
<1>2. QED
  BY <1>1, Invariance, PTL

\* The host never fires a torn pulse, however often the ring is lapped during its copy.
THEOREM NeverTorn == Spec => []NoTornPulse
<1>1. IInv => NoTornPulse
  BY DEF IInv
<1>2. QED
  BY <1>1, Invariance, PTL

\* Two producers never share a ticket: a returned call is a published ticket.
THEOREM OneTicketPerCall == Spec => []EveryCallHasATicket
<1>1. IInv => EveryCallHasATicket
  BY Cursors DEF EveryCallHasATicket, Position
<1>2. QED
  BY <1>1, Invariance, PTL

\* Between two passes every ticket the cursor passed is in exactly one of the counters.
THEOREM Accounting == Spec => []NothingUncounted
<1>1. IInv => NothingUncounted
  <2> SUFFICES ASSUME IInv, hpc = "elsewhere", seed # -1
               PROVE  Distance(seed, read) = firedCount + muted + torn + overruns
    BY DEF NothingUncounted
  <2>1. /\ Position(seed) <= Position(read)
        /\ Position(read) - Position(seed) = firedCount + muted + torn + overruns
    BY DEF IInv, CursorInv
  <2>2. QED
    BY <2>1, Cursors, DistanceOfPositions
<1>2. QED
  BY <1>1, Invariance, PTL

-----------------------------------------------------------------------------
(* The order of the pulses, and the drops *)

\* A published ticket keeps its stamp until the ticket a whole ring later is claimed.
StampInv ==
  /\ \A n \in 1 .. returned : calls < n + Slots => commit[SlotOf(TicketOf(n))] = TicketOf(n)
  /\ \A p \in Producers : pc[p] = "publish" => commit[SlotOf(ticket[p])] = ticket[p]

\* What was fired last is behind the cursor, and behind the ticket the loop is at.
OrderInv ==
  /\ hpc = "elsewhere" => \A f \in Fields : fired.copy[f] <= IF seed = -1 THEN 0 ELSE Position(read)
  /\ hpc # "elsewhere" => \A f \in Fields : fired.copy[f] < Position(t)

LInv == IInv /\ StampInv /\ OrderInv

\* Less than a ring apart, two tickets have two slots.
LEMMA SlotsApart ==
  ASSUME start \in Index, NEW n \in 1 .. Modulus - 1, NEW m \in 1 .. Modulus - 1, n < m, m < n + Slots
  PROVE  SlotOf(TicketOf(n)) # SlotOf(TicketOf(m))
<1> DEFINE before(i) == IF i = 0 THEN Modulus - 1 ELSE i - 1
<1>1. ASSUME NEW i \in Index
      PROVE  before(i) \in Index /\ SlotOf(i) = before(i) % Slots
  <2>1. i + Modulus - 1 \in 0 .. 2 * Modulus - 1
    BY Sizes DEF Index
  <2>2. (i + Modulus - 1) % Modulus = IF i + Modulus - 1 < Modulus THEN i + Modulus - 1 ELSE i - 1
    BY <2>1, WrapOnce, Sizes DEF Index
  <2>3. (i + Modulus - 1) % Modulus = before(i)
    BY <2>2, Sizes DEF Index
  <2>4. QED
    BY <2>3, Sizes DEF SlotOf, Index
<1> DEFINE a == before(TicketOf(n))  b == before(TicketOf(m))  d == m - n
<1>2. TicketOf(n) \in Index /\ TicketOf(m) \in Index
  BY PositionOfTicket, Sizes
<1>3. a \in Nat /\ b \in Nat /\ d \in 1 .. Slots - 1 /\ (b = a + d \/ b = a + d - Modulus)
  <2>1. TicketOf(n) = IF start + n < Modulus THEN start + n ELSE start + n - Modulus
    BY TicketCases, Sizes
  <2>2. TicketOf(m) = IF start + m < Modulus THEN start + m ELSE start + m - Modulus
    BY TicketCases, Sizes
  <2>3. d \in 1 .. Slots - 1
    BY Sizes
  <2>4. QED
    BY <1>1, <1>2, <2>1, <2>2, <2>3, Sizes DEF Index
<1>4. SlotOf(TicketOf(n)) = a % Slots /\ SlotOf(TicketOf(m)) = b % Slots
  BY <1>1, <1>2
<1> HIDE DEF before, a, b, d
<1>5. PICK laps \in 2 .. Modulus : Modulus = laps * Slots
  BY RingAssumption
<1>6. /\ a = Slots * (a \div Slots) + (a % Slots) /\ b = Slots * (b \div Slots) + (b % Slots)
      /\ a \div Slots \in Nat /\ b \div Slots \in Nat
  BY <1>3, Division, Sizes
<1>7. ASSUME a % Slots = b % Slots
      PROVE  FALSE
  <2> DEFINE q == (b \div Slots) - (a \div Slots)
  <2>1. q \in Int /\ q + laps \in Int
    BY <1>5, <1>6
  <2>2. b - a = Slots * q
    <3>1. Slots * q = Slots * (b \div Slots) - Slots * (a \div Slots)
      BY <1>6, Sizes
    <3>2. a % Slots \in Nat /\ b % Slots \in Nat /\ Slots * (b \div Slots) \in Nat /\ Slots * (a \div Slots) \in Nat
      BY <1>3, <1>6, Sizes
    <3>3. QED
      BY <1>3, <1>6, <1>7, <3>1, <3>2
  <2> HIDE DEF q
  <2>3. \A k \in Int : d # Slots * k
    <3>1. ASSUME NEW k \in Int
          PROVE  d # Slots * k
      <4>1. CASE k <= 0
        <5>1. Slots * k <= 0
          BY <4>1, Sizes
        <5>2. QED
          BY <1>3, <5>1
      <4>2. CASE k >= 1
        <5>1. Slots * k >= Slots
          BY <4>2, Sizes
        <5>2. QED
          BY <1>3, <5>1, Sizes
      <4>3. QED
        BY <4>1, <4>2
    <3>2. QED
      BY <3>1
  <2>4. CASE b = a + d
    <3>1. d = Slots * q
      BY <1>3, <2>2, <2>4
    <3>2. QED
      BY <2>1, <2>3, <3>1
  <2>5. CASE b = a + d - Modulus
    <3>1. d = Slots * q + Modulus
      BY <1>3, <2>1, <2>2, <2>5, Sizes
    <3>2. Slots * (q + laps) = Slots * q + laps * Slots
      BY <1>5, <2>1, Sizes
    <3>3. d = Slots * (q + laps)
      BY <1>5, <3>1, <3>2
    <3>4. QED
      BY <2>1, <2>3, <3>3
  <2>6. QED
    BY <1>3, <2>4, <2>5
<1>8. QED
  BY <1>4, <1>7

\* A caller past the claim rewrites a slot that no ticket less than a ring older has.
LEMMA StampsApart ==
  ASSUME IInv, NEW p \in Producers, InCall(p), NEW n \in 1 .. returned, calls < n + Slots
  PROVE  SlotOf(TicketOf(n)) # SlotOf(ticket[p])
<1>1. /\ calls = returned + 1 /\ calls \in 1 .. MaxCalls /\ returned \in Nat
      /\ ticket[p] = TicketOf(calls)
  BY TicketHolder
<1>2. start \in Index
  BY DEF IInv, TypeOK
<1>3. n \in 1 .. Modulus - 1 /\ calls \in 1 .. Modulus - 1 /\ n < calls
  BY <1>1, Sizes
<1>4. QED
  BY <1>1, <1>2, <1>3, SlotsApart

LEMMA StampStep ==
  ASSUME LInv, Next
  PROVE  StampInv'
<1>0. /\ IInv /\ StampInv /\ commit \in [SlotIndex -> Index] /\ returned \in Nat /\ calls \in Nat
      /\ pc \in [Producers -> {"outside", "claim", "invalidate", "fill", "publish"}]
      /\ \A n \in 1 .. returned : SlotOf(TicketOf(n)) \in SlotIndex
  <2>1. IInv /\ StampInv /\ TypeOK
    BY DEF LInv, IInv
  <2>2. returned \in Nat /\ calls \in Nat /\ returned <= calls
    BY <2>1, CallBounds DEF IInv, TypeOK
  <2>3. \A n \in 1 .. returned : TicketOf(n) \in Index
    BY <2>1, <2>2, CallBounds DEF IInv
  <2>4. \A n \in 1 .. returned : SlotOf(TicketOf(n)) \in SlotIndex
    BY <2>3, TicketTypes
  <2>5. QED
    BY <2>1, <2>2, <2>4 DEF TypeOK
<1>1. /\ start' = start /\ \A n : TicketOf(n)' = TicketOf(n)
      /\ \A i : SlotOf(i)' = SlotOf(i)
  BY DEF Next, Queue, Enter, Claim, Invalidate, Fill, Commit, Publish, Drain, Snapshot, Finish, ReadBefore, Copy,
     ReadAfter, FocusChange, TicketOf, SlotOf
<1>2. CASE Drain \/ FocusChange
  <2>1. UNCHANGED <<commit, returned, calls, pc, ticket>>
    BY <1>2 DEF Drain, Snapshot, Finish, ReadBefore, Copy, ReadAfter, FocusChange, ring, producer
  <2>2. QED
    BY <1>0, <1>1, <2>1 DEF StampInv
<1>3. ASSUME NEW p \in Producers, Enter(p) \/ Claim(p) \/ Fill(p)
      PROVE  StampInv'
  <2>1. commit' = commit /\ returned' = returned /\ calls' \in {calls, calls + 1}
    BY <1>3 DEF Enter, Claim, Fill, ring
  <2>2. \A n \in 1 .. returned' : calls' < n + Slots => commit'[SlotOf(TicketOf(n))] = TicketOf(n)
    <3>1. ASSUME NEW n \in 1 .. returned, calls' < n + Slots
          PROVE  commit[SlotOf(TicketOf(n))] = TicketOf(n)
      <4>1. calls < n + Slots
        BY <1>0, <2>1, <3>1, Sizes
      <4>2. QED
        BY <1>0, <4>1 DEF StampInv
    <3>2. QED
      BY <2>1, <3>1
  <2>3. \A q \in Producers : pc'[q] = "publish" => pc[q] = "publish" /\ ticket'[q] = ticket[q]
    <3>1. /\ \A q \in Producers : q # p => pc'[q] = pc[q] /\ ticket'[q] = ticket[q]
          /\ pc'[p] # "publish"
      BY <1>0, <1>3 DEF Enter, Claim, Fill, IInv, TypeOK
    <3>2. QED
      BY <3>1
  <2>4. QED
    BY <1>0, <1>1, <2>1, <2>2, <2>3 DEF StampInv
<1>4. ASSUME NEW p \in Producers, Invalidate(p) \/ Commit(p)
      PROVE  StampInv'
  <2>0. InCall(p) /\ UNCHANGED <<returned, calls, ticket>>
    BY <1>4 DEF Invalidate, Commit, InCall
  <2>1. /\ SlotOf(ticket[p]) \in SlotIndex
        /\ \A q \in Producers : q # p => pc[q] = "outside"
    BY <1>0, <2>0, TicketHolder
  <2>2. \A s \in SlotIndex : s # SlotOf(ticket[p]) => commit'[s] = commit[s]
    BY <1>0, <1>4 DEF Invalidate, Commit
  <2>3. \A n \in 1 .. returned : calls < n + Slots => commit'[SlotOf(TicketOf(n))] = TicketOf(n)
    BY <1>0, <2>0, <2>2, StampsApart DEF StampInv
  <2>4. \A q \in Producers : q # p => pc'[q] # "publish"
    BY <1>0, <1>4, <2>1 DEF Invalidate, Commit
  <2>5. pc'[p] = "publish" => commit'[SlotOf(ticket[p])] = ticket[p]
    BY <1>0, <1>4, <2>1 DEF Invalidate, Commit
  <2>6. QED
    BY <1>1, <2>0, <2>3, <2>4, <2>5 DEF StampInv
<1>5. ASSUME NEW p \in Producers, Publish(p)
      PROVE  StampInv'
  <2>0. InCall(p) /\ pc[p] = "publish" /\ returned' = returned + 1 /\ UNCHANGED <<commit, calls, ticket>>
    BY <1>5 DEF Publish, InCall
  <2>1. /\ calls = returned + 1 /\ ticket[p] = TicketOf(calls)
        /\ \A q \in Producers : q # p => pc[q] = "outside"
    BY <1>0, <2>0, TicketHolder
  <2>2. commit[SlotOf(TicketOf(calls))] = TicketOf(calls)
    BY <1>0, <2>0, <2>1 DEF StampInv
  <2>3. ASSUME NEW n \in 1 .. returned', calls < n + Slots
        PROVE  commit[SlotOf(TicketOf(n))] = TicketOf(n)
    <3>1. CASE n = calls
      BY <2>2, <3>1
    <3>2. CASE n # calls
      <4>1. n \in 1 .. returned
        BY <1>0, <2>0, <2>1, <3>2
      <4>2. QED
        BY <1>0, <2>3, <4>1 DEF StampInv
    <3>3. QED
      BY <3>1, <3>2
  <2>4. \A q \in Producers : pc'[q] # "publish"
    BY <1>0, <1>5, <2>1 DEF Publish
  <2>5. QED
    BY <1>1, <2>0, <2>3, <2>4 DEF StampInv
<1>6. QED
  BY <1>2, <1>3, <1>4, <1>5 DEF Next, Queue

LEMMA OrderStep ==
  ASSUME LInv, Next
  PROVE  OrderInv'
<1>0. /\ IInv /\ OrderInv /\ fired.copy \in [Fields -> Nat] /\ Position(read) \in Nat /\ Position(t) \in Nat
      /\ Position(snapshot) \in Nat
  <2>1. IInv /\ OrderInv
    BY DEF LInv
  <2>2. fired.copy \in [Fields -> 0 .. MaxCalls]
    BY <2>1 DEF IInv, TypeOK
  <2>3. fired.copy \in [Fields -> Nat]
    BY <2>2, Sizes
  <2>4. QED
    BY <2>1, <2>3, Cursors
<1>1. IInv' /\ start' = start /\ \A i : Position(i)' = Position(i)
  <2>1. start' = start
    BY DEF Next, Queue, Enter, Claim, Invalidate, Fill, Commit, Publish, Drain, Snapshot, Finish, ReadBefore, Copy,
       ReadAfter, FocusChange
  <2>2. IInv'
    BY <1>0, NextInv
  <2>3. QED
    BY <2>1, <2>2 DEF Position, Distance
<1>2. CASE UNCHANGED host
  BY <1>0, <1>1, <1>2 DEF OrderInv, host
<1>3. CASE Snapshot
  <2>1. fired' = fired /\ hpc = "elsewhere" /\ hpc' = "scan" /\ seed' # -1
    BY <1>0, <1>3 DEF Snapshot, IInv, TypeOK, Index
  <2>2. CASE seed = -1
    <3>1. 1 <= Position(t)'
      BY <1>1, <2>1 DEF IInv, CursorInv
    <3>2. 1 <= Position(t') /\ Position(t') \in Nat
      BY <1>1, <3>1, Cursors, TicketOfPosition DEF IInv, TypeOK
    <3>3. QED
      BY <1>0, <1>1, <2>1, <2>2, <3>2 DEF OrderInv
  <2>3. CASE seed # -1
    <3>1. Position(t') > Position(read)
      <4>1. seed' = seed /\ UNCHANGED <<firedCount, muted, torn>> /\ overruns' = overruns + Overrun(Distance(read, write_index))
        BY <1>3, <2>3 DEF Snapshot
      <4>2. Distance(read, write_index) \in Nat /\ Overrun(Distance(read, write_index)) \in Nat
        <5>1. Distance(read, write_index) \in Nat
          BY <1>0, TicketTypes, Cursors DEF Index
        <5>2. QED
          BY <5>1, Sizes DEF Overrun
      <4>3. Position(read) - Position(seed) = firedCount + muted + torn + overruns
        BY <1>0, <2>1, <2>3 DEF IInv, CursorInv
      <4>4. Position(t') - 1 - Position(seed) = firedCount + muted + torn + overruns'
        BY <1>1, <2>1, <2>3, <4>1 DEF IInv, CursorInv
      <4>5. /\ Position(t') \in Nat /\ Position(seed) \in Nat
            /\ firedCount \in Nat /\ torn \in Nat /\ overruns \in Nat /\ muted \in Nat
        <5>1. t' \in Index /\ start \in Index
          BY <1>0, <1>1 DEF IInv, TypeOK
        <5>2. QED
          BY <1>0, <2>3, <5>1, TicketOfPosition, Cursors
      <4>6. QED
        BY <1>0, <4>1, <4>2, <4>3, <4>4, <4>5
    <3>2. Position(t') \in Nat
      BY <1>0, <1>1, TicketOfPosition DEF IInv, TypeOK
    <3>3. \A f \in Fields : fired'.copy[f] < Position(t')
      <4>1. \A f \in Fields : fired.copy[f] <= Position(read) /\ fired.copy[f] \in Nat
        BY <1>0, <2>1, <2>3 DEF OrderInv
      <4>2. QED
        BY <1>0, <2>1, <3>1, <3>2, <4>1
    <3>4. QED
      BY <1>1, <2>1, <3>3 DEF OrderInv
  <2>4. QED
    BY <2>2, <2>3
<1>4. CASE Finish
  <2>1. /\ hpc = "scan" /\ hpc' = "elsewhere" /\ fired' = fired /\ seed' = seed /\ read' = snapshot /\ ~InWindow(t)
    BY <1>4 DEF Finish
  <2>2. seed # -1 /\ Position(t) = Position(snapshot) + 1
    BY <1>0, <2>1, Window
  <2>3. QED
    BY <1>0, <1>1, <2>1, <2>2 DEF OrderInv
<1>5. CASE ReadBefore \/ Copy
  <2>1. /\ hpc \in {"scan", "copy"} /\ hpc' \in {"scan", "copy"} /\ fired' = fired
        /\ t' = t \/ (hpc = "scan" /\ InWindow(t) /\ t' = Successor(t))
    BY <1>5 DEF ReadBefore, Copy
  <2>2. Position(t') >= Position(t) /\ Position(t') \in Nat
    BY <1>0, <2>1, Window
  <2>3. QED
    BY <1>0, <1>1, <2>1, <2>2 DEF OrderInv
<1>6. CASE ReadAfter
  <2>1. /\ hpc = "copy" /\ hpc' = "scan" /\ uncopied = {} /\ t' = Successor(t)
        /\ fired' = fired \/ (commit[SlotOf(t)] = t /\ fired' = [ticket |-> t, copy |-> copy])
    BY <1>6 DEF ReadAfter
  <2>2. Position(t') = Position(t) + 1
    BY <1>0, <2>1, Window DEF IInv, CursorInv
  <2>3. fired' # fired => \A f \in Fields : fired'.copy[f] = Position(t)
    BY <1>0, <2>1 DEF IInv, CopyInv
  <2>4. \A f \in Fields : fired'.copy[f] <= Position(t) /\ fired'.copy[f] \in Nat
    <3>1. CASE fired' = fired
      BY <1>0, <2>1, <3>1 DEF OrderInv
    <3>2. CASE fired' # fired
      BY <1>0, <2>3, <3>2
    <3>3. QED
      BY <3>1, <3>2
  <2>5. \A f \in Fields : fired'.copy[f] < Position(t')
    BY <1>0, <2>2, <2>4
  <2>6. QED
    BY <1>1, <2>1, <2>5 DEF OrderInv
<1>7. QED
  BY <1>2, <1>3, <1>4, <1>5, <1>6 DEF Next, Drain, FocusChange

LEMMA LInitInv ==
  ASSUME Init
  PROVE  LInv
<1>1. IInv
  BY InitInv
<1>2. StampInv
  <2>1. returned = 0 /\ \A p \in Producers : pc[p] = "outside"
    BY DEF Init, ProducerInit
  <2>2. QED
    BY <2>1 DEF StampInv
<1>3. OrderInv
  <2>1. hpc = "elsewhere" /\ seed = -1 /\ \A f \in Fields : fired.copy[f] = 0
    BY DEF Init, Blank
  <2>2. QED
    BY <2>1 DEF OrderInv
<1>4. QED
  BY <1>1, <1>2, <1>3 DEF LInv

LEMMA LNextInv ==
  ASSUME LInv, [Next]_vars
  PROVE  LInv'
<1>1. IInv'
  BY NextInv DEF LInv
<1>2. CASE Next
  BY <1>1, <1>2, StampStep, OrderStep DEF LInv
<1>3. CASE UNCHANGED vars
  <2>1. UNCHANGED <<start, commit, returned, calls, pc, ticket, hpc, fired, seed, read, t>>
    BY <1>3 DEF vars, ring, producer, host
  <2>2. StampInv'
    BY <2>1 DEF LInv, StampInv, TicketOf, SlotOf
  <2>3. OrderInv'
    BY <2>1 DEF LInv, OrderInv, Position, Distance
  <2>4. QED
    BY <1>1, <2>2, <2>3 DEF LInv
<1>4. QED
  BY <1>2, <1>3

\* A ticket whose stamp the host does not find is one ring behind the newest claim.
LEMMA DropsAreLate ==
  ASSUME LInv, hpc # "elsewhere", Position(t) <= Position(snapshot), commit[SlotOf(t)] # t
  PROVE  calls - Position(t) >= Slots
<1>1. IInv /\ StampInv
  BY DEF LInv
<1>2. Position(t) \in 1 .. returned /\ returned \in Nat /\ calls \in Nat
  <2>1. /\ Position(t) \in Nat /\ Position(snapshot) \in Nat /\ returned \in Nat /\ seed # -1
    BY <1>1, Cursors, Window
  <2>2. 1 <= Position(t) /\ Position(snapshot) <= returned
    BY <1>1, <2>1 DEF IInv, CursorInv
  <2>3. calls \in Nat
    BY <1>1 DEF IInv, TypeOK
  <2>4. QED
    BY <2>1, <2>2, <2>3
<1>3. TicketOf(Position(t)) = t
  BY <1>1, Cursors, TicketOfPosition
<1>4. ~(calls < Position(t) + Slots)
  BY <1>1, <1>2, <1>3 DEF StampInv
<1>5. QED
  BY <1>2, <1>4, Sizes

\* The invariant with what order and drops need: published stamps stay for a whole ring,
\* and the pulse fired last is behind the host's cursor.
THEOREM LastingStamps == Spec => []LInv
  BY LInitInv, LNextInv, PTL DEF Spec

\* Pulses reach the runtime in the order they were queued, none of them twice, and one is
\* dropped as torn only when the ticket a whole ring later has been claimed.
THEOREM InOrder == Spec => InOrderUnlessLapped
<1>1. ASSUME LInv, [Next]_vars
      PROVE  [/\ torn' # torn => calls - Distance(start, t) >= Slots
              /\ fired' # fired => \A f \in Fields : fired'.copy[f] > fired.copy[f]]_vars
  <2>0. IInv
    BY <1>1 DEF LInv
  <2>1. CASE UNCHANGED <<torn, fired>>
    BY <2>1
  <2>2. CASE ReadBefore
    <3>1. hpc = "scan" /\ InWindow(t) /\ fired' = fired /\ (torn' # torn => commit[SlotOf(t)] # t)
      BY <2>2 DEF ReadBefore
    <3>2. Position(t) <= Position(snapshot)
      BY <2>0, <3>1, Window
    <3>3. QED
      BY <1>1, <3>1, <3>2, DropsAreLate DEF Position
  <2>3. CASE ReadAfter
    <3>1. /\ hpc = "copy" /\ uncopied = {}
          /\ torn' # torn => commit[SlotOf(t)] # t
          /\ fired' # fired => commit[SlotOf(t)] = t /\ fired' = [ticket |-> t, copy |-> copy]
      BY <2>3 DEF ReadAfter
    <3>2. Position(t) <= Position(snapshot) /\ Position(t) \in Nat
      BY <2>0, <3>1, Window, Cursors DEF IInv, CursorInv
    <3>3. torn' # torn => calls - Position(t) >= Slots
      BY <1>1, <3>1, <3>2, DropsAreLate
    <3>4. fired' # fired => \A f \in Fields : fired'.copy[f] = Position(t)
      BY <2>0, <3>1 DEF IInv, CopyInv
    <3>5. \A f \in Fields : fired.copy[f] < Position(t)
      BY <1>1, <3>1 DEF LInv, OrderInv
    <3>6. fired' # fired => \A f \in Fields : fired'.copy[f] > fired.copy[f]
      BY <3>4, <3>5
    <3>7. QED
      BY <3>3, <3>6 DEF Position
  <2>4. CASE Next /\ ~ReadBefore /\ ~ReadAfter
    <3>1. UNCHANGED <<torn, fired>>
      BY <2>4 DEF Next, Drain, Snapshot, Finish, Copy, FocusChange, host
    <3>2. QED
      BY <3>1
  <2>5. QED
    BY <1>1, <2>1, <2>2, <2>3, <2>4 DEF vars, host
<1>2. QED
  BY <1>1, LastingStamps, PTL DEF Spec, InOrderUnlessLapped

=============================================================================
