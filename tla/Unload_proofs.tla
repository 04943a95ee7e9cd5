----------------------------- MODULE Unload_proofs -----------------------------
(***************************************************************************)
(* Proofs about the hooks the mod leaves behind, for any number of hooks   *)
(* that are ever made, of clients of the command server and of looks of    *)
(* prove_quiescent: once retire() has succeeded every target has the       *)
(* engine's bytes again, but for the cases RetiredForGood names; the frame *)
(* hook is never one of them, and the server's thread is joined before.    *)
(***************************************************************************)
EXTENDS Unload, SequenceTheorems, TLAPS

-----------------------------------------------------------------------------
(* The inductive invariant *)

HookRecords == [target : Targets, saved : Ids \cup {Engine}, kind : Kinds, enabled : BOOLEAN, late : BOOLEAN]
Made == 1 .. Len(hooks)
Pending(th) == IF job[th].at \in {"record", "adopt"} THEN 1 ELSE 0

\* The hooks ever made are a list, and so are the adopted ones, which with those on their
\* way into the registry are as many.
ListInv ==
  /\ hooks \in Seq(HookRecords) /\ m_hooks \in Seq(Nat) /\ m_mid_hooks \in Seq(Nat)
  /\ \A i \in 1 .. Len(m_hooks) : m_hooks[i] \in Made
  /\ \A i \in 1 .. Len(m_mid_hooks) : m_mid_hooks[i] \in Made
  /\ \A th \in Threads : job[th].at \in {"record", "adopt"} => job[th].id \in Made
  /\ Len(m_hooks) + Len(m_mid_hooks) + Pending("supervisor") + Pending("game") = Len(hooks)

\* A thread is in an install only for a target of its batch; the supervisor's thread has
\* batches in two of its steps only.
BatchInv ==
  /\ todo \in [Threads -> Seq(Targets)]
  /\ \A th \in Threads :
       /\ job[th].at # "idle" => todo[th] # <<>> /\ job[th].target \in Targets
       /\ todo[th] # <<>> => batch[th] # "none"
  /\ step \notin {"frame", "mods"} => todo["supervisor"] = <<>>

\* A target's bytes are the engine's or the jump of a hook on that target, which is in place
\* unless two were stacked; what a hook saved is the engine's or an earlier hook's jump.
CodeInv ==
  /\ \A t \in Targets : code[t] # Engine =>
       code[t] \in Made /\ hooks[code[t]].target = t /\ (Stacked(t) \/ hooks[code[t]].enabled)
  /\ \A id \in Made : hooks[id].saved # Engine =>
       hooks[id].saved \in Made /\ hooks[id].saved # id /\ hooks[hooks[id].saved].target = hooks[id].target

\* A hook that is not late is owned by the registry. Before the retirement only a hook on its
\* way there is late, and from the seal on one at most: that of an install past its test.
LateInv ==
  /\ \A id \in Made : ~hooks[id].late => \/ \E i \in 1 .. Len(m_hooks) : m_hooks[i] = id
                                         \/ \E i \in 1 .. Len(m_mid_hooks) : m_mid_hooks[i] = id
  /\ ~retire_started => \A id \in Made : hooks[id].late =>
       \E th \in Threads : job[th].at \in {"record", "adopt"} /\ job[th].id = id
  /\ sealed => \A a, b \in Made : hooks[a].late /\ hooks[b].late => a = b
  /\ sealed /\ job["game"].at = "create" => \A id \in Made : ~hooks[id].late

\* As long as no disable has failed, what retire() has passed is disabled, and in the end
\* every hook that is not late.
RetireInv ==
  /\ mux # Nobody => walked <= Len(m_hooks) + Len(m_mid_hooks)
  /\ mux # Nobody /\ retire_ok => \A i \in 1 .. walked : ~hooks[Adopted[i]].enabled
  /\ retire_started /\ mux = Nobody /\ retire_ok => \A id \in Made : ~hooks[id].late => ~hooks[id].enabled

\* How far the shutdown is, and what it has done by then.
StepInv ==
  /\ sealed => step \in {"remove", "retire", "check", "quiesce", "unmapped", "dormant"}
  /\ step \in {"remove", "retire", "check", "quiesce", "unmapped"} => sealed
  /\ retire_started => sealed /\ step # "remove"
  /\ step \in {"check", "quiesce", "unmapped"} => retire_started /\ mux = Nobody
  /\ mux # Nobody => retire_started /\ step = "retire"
  /\ step \notin Over => attempts < MaxAttempts

\* The crash filter is the mod's after its removal only by a reassert that had begun before.
FilterInv ==
  /\ step \in {"mods", "start", "poll", "stop", "seal", "remove"} => installed
  /\ step \in {"retire", "check", "quiesce", "unmapped"} =>
       ~installed /\ (gpc = "claim" \/ filter = "ours" => overtaken)

IInv ==
  /\ TypeOK
  /\ ListInv
  /\ BatchInv
  /\ CodeInv
  /\ LateInv
  /\ RetireInv
  /\ StepInv
  /\ FilterInv

-----------------------------------------------------------------------------
(* What a step can do to the hooks *)

LEMMA Bounds ==
  /\ MaxHooks \in Nat \ {0} /\ MaxAttempts \in Nat \ {0} /\ MaxClients \in Nat
  /\ Threads = {"supervisor", "game"} /\ Targets = {"Update", "Trace", "Entry", "Texture", "Buffer"}
  BY RegistryAssumption, ServerAssumption, UnloadAssumption

\* Where the hooks can change.
LEMMA HookSteps ==
  ASSUME Next
  PROVE  \/ UNCHANGED hookVars
         \/ \E th \in Threads : Install(th) /\ (InstallNext(th) \/ Installing(th) \/ InstallReturns(th))
         \/ Seal \/ Retire
<1>1. CASE Supervisor
  <2>1. CASE Install("supervisor")
    BY <2>1, Bounds DEF Install, ScanMisses
  <2>2. CASE Supervisor /\ ~Install("supervisor")
    BY <2>2 DEF Supervisor, install_bootstrap_gate, AwaitHit, Release, AwaitClient, HookFrame, Register, InstallFilter,
       on_initialize, StartServer, Poll, StopServer, RemoveFilter, Check, prove_quiescent
  <2>3. QED
    BY <1>1, <2>1, <2>2
<1>2. CASE Game
  <2>1. CASE Install("game")
    BY <2>1, Bounds DEF Install, ScanMisses
  <2>2. CASE Game /\ ~Install("game")
    BY <2>2 DEF Game, ReachEntry, gate_veh, LoadGameserver, frame_tick_detour, reassert, Claim, ResourceWatch,
       FireRedirect, on_frame, find, original, game
  <2>3. QED
    BY <1>2, <2>1, <2>2
<1>3. CASE Server
  BY <1>3 DEF Server
<1>4. QED
  BY <1>1, <1>2, <1>3 DEF Next

LEMMA AdoptedIsMade ==
  ASSUME ListInv, NEW i \in 1 .. Len(m_hooks) + Len(m_mid_hooks)
  PROVE  /\ Len(Adopted) = Len(m_hooks) + Len(m_mid_hooks)
         /\ i <= Len(m_hooks) => Adopted[i] = m_hooks[i]
         /\ i > Len(m_hooks) => i - Len(m_hooks) \in 1 .. Len(m_mid_hooks) /\ Adopted[i] = m_mid_hooks[i - Len(m_hooks)]
         /\ Adopted[i] \in Made
<1>1. m_hooks \in Seq(Nat) /\ m_mid_hooks \in Seq(Nat)
  BY DEF ListInv
<1>2. Len(m_hooks) \in Nat /\ Len(m_mid_hooks) \in Nat
  BY <1>1
<1>3. /\ Len(Adopted) = Len(m_hooks) + Len(m_mid_hooks)
      /\ Adopted[i] = IF i <= Len(m_hooks) THEN m_hooks[i] ELSE m_mid_hooks[i - Len(m_hooks)]
  BY <1>1, ConcatProperties DEF Adopted
<1>4. i > Len(m_hooks) => i - Len(m_hooks) \in 1 .. Len(m_mid_hooks)
  BY <1>2
<1>5. i <= Len(m_hooks) => i \in 1 .. Len(m_hooks)
  BY <1>2
<1>6. QED
  BY <1>2, <1>3, <1>4, <1>5 DEF ListInv

Jobs == [at : {"idle", "create", "record", "adopt", "done", "failed"},
         target : Targets \cup {"none"}, kind : Kinds, id : Ids \cup {0}]

LEMMA Fields ==
  ASSUME IInv
  PROVE  /\ code \in [Targets -> Ids \cup {Engine}] /\ job \in [Threads -> Jobs]
         /\ hooks \in Seq(HookRecords) /\ Len(hooks) \in Nat /\ Len(hooks) <= MaxHooks
         /\ m_hooks \in Seq(Nat) /\ m_mid_hooks \in Seq(Nat)
         /\ Len(m_hooks) \in Nat /\ Len(m_mid_hooks) \in Nat
         /\ m_targets \subseteq Targets /\ walked \in 0 .. MaxHooks /\ mux \in Threads \cup {Nobody}
         /\ \A id \in Made : hooks[id] \in HookRecords
<1>1. /\ code \in [Targets -> Ids \cup {Engine}] /\ job \in [Threads -> Jobs] /\ Len(hooks) <= MaxHooks
      /\ m_targets \subseteq Targets /\ walked \in 0 .. MaxHooks /\ mux \in Threads \cup {Nobody}
  BY DEF IInv, TypeOK, HooksTypeOK, Jobs
<1>2. /\ hooks \in Seq(HookRecords) /\ m_hooks \in Seq(Nat) /\ m_mid_hooks \in Seq(Nat)
  BY DEF IInv, ListInv
<1>3. Len(hooks) \in Nat /\ Len(m_hooks) \in Nat /\ Len(m_mid_hooks) \in Nat
  BY <1>2
<1>4. \A id \in Made : hooks[id] \in HookRecords
  BY <1>2 DEF Made
<1>5. QED
  BY <1>1, <1>2, <1>3, <1>4

\* The effect of disable: one hook is no longer enabled, its target has what it saved.
LEMMA Disabled ==
  ASSUME IInv, NEW id \in Made, disable(id)
  PROVE  /\ hooks' \in Seq(HookRecords) /\ Len(hooks') = Len(hooks) /\ hooks[id].target \in Targets
         /\ code' = [code EXCEPT ![hooks[id].target] = hooks[id].saved]
         /\ \A h \in Made : /\ hooks'[h].target = hooks[h].target /\ hooks'[h].saved = hooks[h].saved
                            /\ hooks'[h].late = hooks[h].late
                            /\ hooks'[h].enabled <=> (hooks[h].enabled /\ h # id)
<1>1. hooks \in Seq(HookRecords) /\ hooks[id] \in HookRecords /\ id \in 1 .. Len(hooks)
  BY Fields DEF Made
<1>2. /\ code' = [code EXCEPT ![hooks[id].target] = hooks[id].saved]
      /\ hooks' = [hooks EXCEPT ![id] = [@ EXCEPT !.enabled = FALSE]]
  BY DEF disable
<1>3. [hooks[id] EXCEPT !.enabled = FALSE] \in HookRecords
  BY <1>1 DEF HookRecords
<1>4. hooks' \in Seq(HookRecords) /\ Len(hooks') = Len(hooks)
  BY <1>1, <1>2, <1>3, ExceptSeq
<1>5. \A h \in Made : hooks'[h] = IF h = id THEN [hooks[id] EXCEPT !.enabled = FALSE] ELSE hooks[h]
  BY <1>1, <1>2, <1>3, ExceptSeq DEF Made
<1>6. \A h \in Made : hooks[h] \in HookRecords
  BY Fields
<1>7. hooks[id].target \in Targets
  BY <1>1 DEF HookRecords
<1>8. ASSUME NEW h \in Made
      PROVE  /\ hooks'[h].target = hooks[h].target /\ hooks'[h].saved = hooks[h].saved
             /\ hooks'[h].late = hooks[h].late
             /\ hooks'[h].enabled <=> (hooks[h].enabled /\ h # id)
  <2>1. CASE h = id
    BY <1>1, <1>5, <2>1 DEF HookRecords
  <2>2. CASE h # id
    BY <1>5, <1>6, <2>2 DEF HookRecords
  <2>3. QED
    BY <2>1, <2>2
<1>9. QED
  BY <1>2, <1>4, <1>7, <1>8

\* The effect of a create that succeeds: one hook more, late, which jumps from its target.
LEMMA Created ==
  ASSUME IInv, NEW th \in Threads, create(th)
  PROVE  /\ job[th].at = "create" /\ UNCHANGED <<registry, sealed, retirement, mux>>
         /\ \A o \in Threads : o # th => job'[o] = job[o]
         /\ job' \in [Threads -> Jobs] /\ job'[th].target = job[th].target
         /\ \/ UNCHANGED <<code, hooks>> /\ job'[th].at = "failed"
            \/ /\ Len(hooks) < MaxHooks /\ hooks' \in Seq(HookRecords) /\ Len(hooks') = Len(hooks) + 1
               /\ \A h \in Made : hooks'[h] = hooks[h]
               /\ hooks'[Len(hooks) + 1] = [target |-> job[th].target, saved |-> code[job[th].target],
                                            kind |-> job[th].kind, enabled |-> TRUE, late |-> TRUE]
               /\ code' = [code EXCEPT ![job[th].target] = Len(hooks) + 1]
               /\ job[th].target \in Targets
               /\ job'[th].at \in {"record", "adopt"} /\ job'[th].id = Len(hooks) + 1
<1>1. /\ job \in [Threads -> Jobs] /\ hooks \in Seq(HookRecords) /\ code \in [Targets -> Ids \cup {Engine}]
      /\ Len(hooks) \in Nat /\ job[th] \in Jobs
  BY Fields
<1>2. job[th].at = "create" /\ UNCHANGED <<registry, sealed, retirement, mux>>
  BY DEF create
<1>3. job[th].target \in Targets /\ job[th].kind \in Kinds
  BY <1>1, <1>2 DEF IInv, BatchInv, Jobs
<1>4. CASE job' = [job EXCEPT ![th].at = "failed"] /\ UNCHANGED patches
  <2>1. job' = [job EXCEPT ![th] = [job[th] EXCEPT !.at = "failed"]]
    BY <1>4
  <2>2. [job[th] EXCEPT !.at = "failed"] \in Jobs
    BY <1>1 DEF Jobs
  <2>3. /\ job'[th] = [job[th] EXCEPT !.at = "failed"] /\ job' \in [Threads -> Jobs]
        /\ \A o \in Threads : o # th => job'[o] = job[o]
    BY <1>1, <2>1, <2>2
  <2>4. job'[th].at = "failed" /\ job'[th].target = job[th].target
    BY <1>1, <2>3 DEF Jobs
  <2>5. QED
    BY <1>2, <1>4, <2>3, <2>4 DEF patches
<1>5. CASE ~(job' = [job EXCEPT ![th].at = "failed"] /\ UNCHANGED patches)
  <2> DEFINE place == IF job[th].kind = "inline" THEN "record" ELSE "adopt"
             new == [target |-> job[th].target, saved |-> code[job[th].target], kind |-> job[th].kind,
                     enabled |-> TRUE, late |-> TRUE]
  <2>1. /\ Len(hooks) < MaxHooks /\ hooks' = Append(hooks, new)
        /\ code' = [code EXCEPT ![job[th].target] = Len(hooks) + 1]
        /\ job' = [job EXCEPT ![th].at = place, ![th].id = Len(hooks) + 1]
    BY <1>5 DEF create
  <2>2. Len(hooks) + 1 \in Ids
    BY <1>1, <2>1, Bounds DEF Ids
  <2>3. place \in {"record", "adopt"}
    OBVIOUS
  <2>4. new \in HookRecords
    BY <1>1, <1>3 DEF HookRecords
  <2>5. /\ hooks' \in Seq(HookRecords) /\ Len(hooks') = Len(hooks) + 1 /\ hooks'[Len(hooks) + 1] = new
        /\ \A h \in Made : hooks'[h] = hooks[h]
    BY <1>1, <2>1, <2>4, AppendProperties DEF Made
  <2> HIDE DEF place, new
  <2>6. job' = [job EXCEPT ![th] = [job[th] EXCEPT !.at = place, !.id = Len(hooks) + 1]]
    BY <1>1, <2>1
  <2>7. [job[th] EXCEPT !.at = place, !.id = Len(hooks) + 1] \in Jobs
    BY <1>1, <2>2, <2>3 DEF Jobs
  <2>8. /\ job' \in [Threads -> Jobs] /\ job'[th] = [job[th] EXCEPT !.at = place, !.id = Len(hooks) + 1]
        /\ \A o \in Threads : o # th => job'[o] = job[o]
    BY <1>1, <2>6, <2>7
  <2>9. job'[th].at = place /\ job'[th].id = Len(hooks) + 1 /\ job'[th].target = job[th].target
    BY <1>1, <2>8 DEF Jobs
  <2>10. QED
    BY <1>2, <1>3, <2>1, <2>3, <2>5, <2>8, <2>9 DEF new
<1>6. QED
  BY <1>4, <1>5

\* The effect of adopt: the registry owns the hook, which is late no longer, unless the
\* retirement has begun; then it may have been disabled.
LEMMA Adopts ==
  ASSUME IInv, NEW th \in Threads, adopt(th)
  PROVE  /\ job[th].at = "adopt" /\ mux = Nobody /\ job[th].id \in Made
         /\ UNCHANGED <<m_targets, sealed, retirement, mux>>
         /\ job' \in [Threads -> Jobs] /\ job'[th].at = "done" /\ job'[th].target = job[th].target
         /\ \A o \in Threads : o # th => job'[o] = job[o]
         /\ hooks' \in Seq(HookRecords) /\ Len(hooks') = Len(hooks)
         /\ \A h \in Made : /\ hooks'[h].target = hooks[h].target /\ hooks'[h].saved = hooks[h].saved
                            /\ hooks'[h].late <=> (hooks[h].late /\ (h # job[th].id \/ retire_started))
                            /\ hooks'[h].enabled => hooks[h].enabled
         /\ \/ code' = code /\ \A h \in Made : hooks'[h].enabled = hooks[h].enabled
            \/ disable(job[th].id)
         /\ \/ m_hooks' = Append(m_hooks, job[th].id) /\ m_mid_hooks' = m_mid_hooks
            \/ m_mid_hooks' = Append(m_mid_hooks, job[th].id) /\ m_hooks' = m_hooks
<1> DEFINE id == job[th].id
<1>1. /\ job[th].at = "adopt" /\ mux = Nobody /\ UNCHANGED <<m_targets, sealed, retirement, mux>>
      /\ job' = [job EXCEPT ![th] = [job[th] EXCEPT !.at = "done"]]
      /\ \/ m_hooks' = Append(m_hooks, id) /\ m_mid_hooks' = m_mid_hooks
         \/ m_mid_hooks' = Append(m_mid_hooks, id) /\ m_hooks' = m_hooks
  BY DEF adopt, Free
<1>2. id \in Made
  BY <1>1 DEF IInv, ListInv
<1>3. job \in [Threads -> Jobs] /\ job[th] \in Jobs
  BY Fields
<1>4. [job[th] EXCEPT !.at = "done"] \in Jobs
  BY <1>3 DEF Jobs
<1>5. /\ job' \in [Threads -> Jobs] /\ job'[th] = [job[th] EXCEPT !.at = "done"]
      /\ \A o \in Threads : o # th => job'[o] = job[o]
  BY <1>1, <1>3, <1>4
<1>6. job'[th].at = "done" /\ job'[th].target = job[th].target
  BY <1>3, <1>5 DEF Jobs
<1>7. CASE retire_started /\ disable(id)
  <2>1. /\ hooks' \in Seq(HookRecords) /\ Len(hooks') = Len(hooks)
        /\ \A h \in Made : /\ hooks'[h].target = hooks[h].target /\ hooks'[h].saved = hooks[h].saved
                           /\ hooks'[h].late = hooks[h].late
                           /\ hooks'[h].enabled <=> (hooks[h].enabled /\ h # id)
    BY <1>2, <1>7, Disabled
  <2>2. QED
    BY <1>1, <1>2, <1>5, <1>6, <1>7, <2>1
<1>8. CASE retire_started /\ UNCHANGED patches
  <2>1. hooks' = hooks /\ code' = code
    BY <1>8 DEF patches
  <2>2. QED
    BY <1>1, <1>2, <1>5, <1>6, <1>8, <2>1, Fields
<1>9. CASE ~retire_started /\ hooks' = [hooks EXCEPT ![id].late = FALSE] /\ UNCHANGED code
  <2>1. /\ hooks \in Seq(HookRecords) /\ hooks[id] \in HookRecords /\ id \in 1 .. Len(hooks)
        /\ \A h \in Made : hooks[h] \in HookRecords
    BY <1>2, Fields DEF Made
  <2>2. hooks' = [hooks EXCEPT ![id] = [hooks[id] EXCEPT !.late = FALSE]]
    BY <1>9
  <2>3. [hooks[id] EXCEPT !.late = FALSE] \in HookRecords
    BY <2>1 DEF HookRecords
  <2> HIDE DEF id
  <2>4. /\ hooks' \in Seq(HookRecords) /\ Len(hooks') = Len(hooks)
        /\ \A h \in Made : hooks'[h] = IF h = id THEN [hooks[id] EXCEPT !.late = FALSE] ELSE hooks[h]
    BY <2>1, <2>2, <2>3, ExceptSeq DEF Made
  <2>5. ASSUME NEW h \in Made
        PROVE  /\ hooks'[h].target = hooks[h].target /\ hooks'[h].saved = hooks[h].saved
               /\ hooks'[h].late <=> (hooks[h].late /\ h # id)
               /\ hooks'[h].enabled = hooks[h].enabled
    <3>1. CASE h = id
      BY <2>1, <2>4, <3>1 DEF HookRecords
    <3>2. CASE h # id
      BY <2>1, <2>4, <3>2 DEF HookRecords
    <3>3. QED
      BY <3>1, <3>2
  <2>6. QED
    BY <1>1, <1>2, <1>5, <1>6, <1>9, <2>4, <2>5 DEF id
<1>10. QED
  BY <1>7, <1>8, <1>9 DEF adopt

\* The effect of a first test of install, of record and of the return to the mod.
LEMMA Refusals ==
  ASSUME IInv, NEW th \in Threads, InstallNext(th)
  PROVE  /\ UNCHANGED <<patches, registry, sealed, retirement, mux, mods>>
         /\ todo[th] # <<>> /\ job[th].at = "idle" /\ job' \in [Threads -> Jobs]
         /\ \A o \in Threads : o # th => job'[o] = job[o]
         /\ job'[th].at \in {"failed", "create"} /\ job'[th].target \in Targets
         /\ job'[th].at = "create" => ~sealed
<1>1. /\ job \in [Threads -> Jobs] /\ todo[th] \in Seq(Targets) /\ batch \in [Threads -> DOMAIN Batch]
  BY Fields DEF IInv, BatchInv, TypeOK
<1>2. /\ todo[th] # <<>> /\ install(th, Head(todo[th]), KindOf(batch[th])) /\ UNCHANGED mods
  BY DEF InstallNext
<1> DEFINE t == Head(todo[th])
           kind == KindOf(batch[th])
           place == IF Refused(t, kind) THEN "failed" ELSE "create"
           new == [at |-> place, target |-> t, kind |-> kind, id |-> 0]
<1>3. t \in Targets /\ kind \in Kinds
  BY <1>1, <1>2, HeadTailProperties DEF KindOf, Kinds
<1>4. place \in {"failed", "create"} /\ (place = "create" => ~sealed)
  BY DEF Refused
<1>5. /\ job[th].at = "idle" /\ job' = [job EXCEPT ![th] = new]
      /\ UNCHANGED <<patches, registry, sealed, retirement, mux>>
  BY <1>2 DEF install
<1> HIDE DEF t, kind, place
<1>6. new \in Jobs
  BY <1>3, <1>4 DEF Jobs
<1>7. new.at = place /\ new.target = t
  OBVIOUS
<1> HIDE DEF new
<1>8. job' \in [Threads -> Jobs] /\ job'[th] = new /\ \A o \in Threads : o # th => job'[o] = job[o]
  BY <1>1, <1>5, <1>6
<1>9. QED
  BY <1>2, <1>3, <1>4, <1>5, <1>7, <1>8

LEMMA Records ==
  ASSUME IInv, NEW th \in Threads, record(th)
  PROVE  /\ UNCHANGED <<patches, m_hooks, m_mid_hooks, sealed, retirement, mux>>
         /\ job[th].at = "record" /\ job' \in [Threads -> Jobs] /\ m_targets' \subseteq Targets
         /\ \A o \in Threads : o # th => job'[o] = job[o]
         /\ job'[th].at = "adopt" /\ job'[th].target = job[th].target /\ job'[th].id = job[th].id
<1>1. job \in [Threads -> Jobs] /\ job[th] \in Jobs /\ m_targets \subseteq Targets
  BY Fields
<1>2. /\ UNCHANGED <<patches, m_hooks, m_mid_hooks, sealed, retirement, mux>>
      /\ job[th].at = "record" /\ job' = [job EXCEPT ![th] = [job[th] EXCEPT !.at = "adopt"]]
      /\ m_targets' = m_targets \cup {job[th].target}
  BY DEF record
<1>3. job[th].target \in Targets
  BY <1>2 DEF IInv, BatchInv
<1>4. [job[th] EXCEPT !.at = "adopt"] \in Jobs
  BY <1>1 DEF Jobs
<1>5. job' \in [Threads -> Jobs] /\ job'[th] = [job[th] EXCEPT !.at = "adopt"] /\ \A o \in Threads : o # th => job'[o] = job[o]
  BY <1>1, <1>2, <1>4
<1>6. job'[th].at = "adopt" /\ job'[th].target = job[th].target /\ job'[th].id = job[th].id
  BY <1>1, <1>5 DEF Jobs
<1>7. QED
  BY <1>1, <1>2, <1>3, <1>5, <1>6

LEMMA Returns ==
  ASSUME IInv, NEW th \in Threads, InstallReturns(th)
  PROVE  /\ UNCHANGED <<patches, registry, sealed, retirement, mux, batch, registered>>
         /\ job[th].at \in {"done", "failed"} /\ job' \in [Threads -> Jobs] /\ job'[th].at = "idle"
         /\ \A o \in Threads : o # th => job'[o] = job[o] /\ todo'[o] = todo[o]
         /\ todo' \in [Threads -> Seq(Targets)] /\ todo[th] # <<>> /\ batch[th] # "none"
         /\ Len(todo'[th]) <= Len(todo[th])
         /\ {fire_hooked', watch_hooked'} \subseteq BOOLEAN
<1>1. /\ job \in [Threads -> Jobs] /\ todo \in [Threads -> Seq(Targets)] /\ todo[th] \in Seq(Targets)
      /\ fire_hooked \in BOOLEAN /\ watch_hooked \in BOOLEAN
  BY Fields DEF IInv, BatchInv, TypeOK
<1>2. /\ UNCHANGED <<patches, registry, sealed, retirement, mux, batch, registered>>
      /\ job[th].at \in {"done", "failed"} /\ job' = [job EXCEPT ![th] = NoJob]
  BY DEF InstallReturns, Answered
<1>3. todo[th] # <<>> /\ batch[th] # "none"
  BY <1>2 DEF IInv, BatchInv
<1>4. NoJob \in Jobs /\ NoJob.at = "idle"
  BY DEF NoJob, Jobs, Kinds
<1>5. job' \in [Threads -> Jobs] /\ job'[th].at = "idle" /\ \A o \in Threads : o # th => job'[o] = job[o]
  BY <1>1, <1>2, <1>4
<1> DEFINE rest == IF batch[th] = "watch" /\ ~Installed(th) THEN <<>> ELSE Tail(todo[th])
<1>6. todo' = [todo EXCEPT ![th] = rest]
  BY DEF InstallReturns
<1>7. rest \in Seq(Targets) /\ Len(rest) <= Len(todo[th])
  <2>1. Tail(todo[th]) \in Seq(Targets) /\ Len(Tail(todo[th])) = Len(todo[th]) - 1 /\ Len(todo[th]) \in Nat
    BY <1>1, <1>3, HeadTailProperties
  <2>2. <<>> \in Seq(Targets) /\ Len(<<>>) = 0
    OBVIOUS
  <2>3. QED
    BY <2>1, <2>2
<1> HIDE DEF rest
<1>8. todo' \in [Threads -> Seq(Targets)] /\ todo'[th] = rest /\ \A o \in Threads : o # th => todo'[o] = todo[o]
  BY <1>1, <1>6, <1>7
<1>9. fire_hooked' \in BOOLEAN
  <2>1. fire_hooked' = IF batch[th] = "fire" /\ Counted(th) THEN Installed(th) ELSE fire_hooked
    BY DEF InstallReturns
  <2>2. Installed(th) \in BOOLEAN
    BY DEF Installed
  <2>3. QED
    BY <1>1, <2>1, <2>2
<1>10. watch_hooked' \in BOOLEAN
  <2>1. watch_hooked' = IF batch[th] = "watch" THEN Installed(th) /\ Len(todo[th]) = 1 ELSE watch_hooked
    BY DEF InstallReturns
  <2>2. (Installed(th) /\ Len(todo[th]) = 1) \in BOOLEAN
    OBVIOUS
  <2>3. QED
    BY <1>1, <2>1, <2>2
<1>11. QED
  BY <1>2, <1>3, <1>5, <1>7, <1>8, <1>9, <1>10

\* The effect of the retirement's walk: one hook on, which is disabled if it was not.
LEMMA Walks ==
  ASSUME IInv, RetireNext("supervisor")
  PROVE  /\ UNCHANGED <<registry, sealed, retire_started, mux, job>>
         /\ mux = "supervisor" /\ walked < Len(m_hooks) + Len(m_mid_hooks) /\ walked' = walked + 1
         /\ Adopted[walked + 1] \in Made
         /\ \/ /\ disable(Adopted[walked + 1]) /\ retire_ok' = retire_ok
            \/ /\ UNCHANGED patches
               /\ retire_ok' = FALSE \/ (retire_ok' = retire_ok /\ ~hooks[Adopted[walked + 1]].enabled)
<1>1. Len(m_hooks) \in Nat /\ Len(m_mid_hooks) \in Nat /\ walked \in Nat
  BY Fields, Bounds
<1>2. Len(Adopted) = Len(m_hooks) + Len(m_mid_hooks)
  BY Fields, ConcatProperties DEF Adopted
<1>3. /\ UNCHANGED <<registry, sealed, retire_started, mux, job>>
      /\ mux = "supervisor" /\ walked < Len(Adopted) /\ walked' = walked + 1
  BY DEF RetireNext
<1>4. walked + 1 \in 1 .. Len(m_hooks) + Len(m_mid_hooks)
  BY <1>1, <1>2, <1>3
<1>5. Adopted[walked + 1] \in Made
  BY <1>4, AdoptedIsMade DEF IInv
<1>6. QED
  BY <1>2, <1>3, <1>5 DEF RetireNext

-----------------------------------------------------------------------------
(* The lists *)

Arriving(th) == job[th].at \in {"record", "adopt"}

\* Nothing is patched or adopted, and nobody gets on or off the way into the registry.
Still ==
  /\ UNCHANGED <<code, hooks, m_hooks, m_mid_hooks>>
  /\ \A th \in Threads : /\ Arriving(th)' <=> Arriving(th)
                         /\ Arriving(th) => job'[th].id = job[th].id

LEMMA PatchSteps ==
  ASSUME IInv, Next
  PROVE  \/ Still
         \/ \E th \in Threads : create(th) /\ hooks' # hooks
         \/ \E th \in Threads : adopt(th)
         \/ step = "retire" /\ RetireNext("supervisor")
<1>1. CASE UNCHANGED hookVars
  BY <1>1 DEF Still, Arriving, hookVars, patches, registry
<1>2. ASSUME NEW th \in Threads, InstallNext(th)
      PROVE  Still
  BY <1>2, Refusals DEF Still, Arriving, patches, registry
<1>3. ASSUME NEW th \in Threads, create(th), hooks' = hooks
      PROVE  Still
  <2>1. Len(hooks') # Len(hooks) + 1
    BY <1>3, Fields
  <2>2. /\ UNCHANGED <<code, hooks, registry>> /\ job'[th].at = "failed" /\ job[th].at = "create"
        /\ \A o \in Threads : o # th => job'[o] = job[o]
    BY <1>3, <2>1, Created
  <2>3. QED
    BY <2>2 DEF Still, Arriving, registry
<1>4. ASSUME NEW th \in Threads, record(th)
      PROVE  Still
  BY <1>4, Records DEF Still, Arriving, patches
<1>5. ASSUME NEW th \in Threads, InstallReturns(th)
      PROVE  Still
  BY <1>5, Returns DEF Still, Arriving, patches, registry
<1>6. CASE Seal
  BY <1>6 DEF Seal, seal, Still, Arriving, patches, registry
<1>7. CASE Retire /\ ~RetireNext("supervisor")
  BY <1>7 DEF Retire, retire, RetireReturn, Still, Arriving, patches, registry
<1>8. CASE Retire /\ RetireNext("supervisor")
  BY <1>8 DEF Retire
<1>9. QED
  BY <1>1, <1>2, <1>3, <1>4, <1>5, <1>6, <1>7, <1>8, HookSteps DEF Installing

LEMMA Grown ==
  ASSUME IInv, NEW th \in Threads, create(th), hooks' # hooks
  PROVE  /\ job[th].at = "create" /\ UNCHANGED <<registry, sealed, retirement, mux>>
         /\ \A o \in Threads : o # th => job'[o] = job[o]
         /\ Len(hooks) < MaxHooks /\ hooks' \in Seq(HookRecords) /\ Len(hooks') = Len(hooks) + 1
         /\ \A h \in Made : h \in Made' /\ hooks'[h] = hooks[h]
         /\ Made' = Made \cup {Len(hooks) + 1} /\ Len(hooks) + 1 \notin Made
         /\ hooks'[Len(hooks) + 1] = [target |-> job[th].target, saved |-> code[job[th].target],
                                      kind |-> job[th].kind, enabled |-> TRUE, late |-> TRUE]
         /\ code' = [code EXCEPT ![job[th].target] = Len(hooks) + 1] /\ job[th].target \in Targets
         /\ hooks'[Len(hooks) + 1].late /\ Arriving(th)' /\ job'[th].id = Len(hooks) + 1
<1>1. /\ job[th].at = "create" /\ UNCHANGED <<registry, sealed, retirement, mux>>
      /\ \A o \in Threads : o # th => job'[o] = job[o]
      /\ Len(hooks) < MaxHooks /\ hooks' \in Seq(HookRecords) /\ Len(hooks') = Len(hooks) + 1
      /\ \A h \in Made : hooks'[h] = hooks[h]
      /\ hooks'[Len(hooks) + 1] = [target |-> job[th].target, saved |-> code[job[th].target],
                                   kind |-> job[th].kind, enabled |-> TRUE, late |-> TRUE]
      /\ code' = [code EXCEPT ![job[th].target] = Len(hooks) + 1] /\ job[th].target \in Targets
      /\ job'[th].at \in {"record", "adopt"} /\ job'[th].id = Len(hooks) + 1
  BY Created
<1>2. Len(hooks) \in Nat
  BY Fields
<1>3. Made' = Made \cup {Len(hooks) + 1} /\ Len(hooks) + 1 \notin Made
  BY <1>1, <1>2 DEF Made
<1>4. hooks'[Len(hooks) + 1].late
  BY <1>1
<1>5. QED
  BY <1>1, <1>3, <1>4 DEF Arriving

LEMMA Pendings ==
  /\ Pending("supervisor") \in {0, 1} /\ Pending("game") \in {0, 1}
  /\ \A th \in Threads : Pending(th) = IF Arriving(th) THEN 1 ELSE 0
  BY DEF Pending, Arriving

LEMMA ListStep ==
  ASSUME IInv, Next
  PROVE  ListInv'
<1>0. /\ hooks \in Seq(HookRecords) /\ m_hooks \in Seq(Nat) /\ m_mid_hooks \in Seq(Nat)
      /\ Len(hooks) \in Nat /\ Len(m_hooks) \in Nat /\ Len(m_mid_hooks) \in Nat
      /\ "supervisor" \in Threads /\ "game" \in Threads /\ \A th \in Threads : th = "supervisor" \/ th = "game"
  BY Fields, Bounds
<1>a. /\ \A i \in 1 .. Len(m_hooks) : m_hooks[i] \in Made
      /\ \A i \in 1 .. Len(m_mid_hooks) : m_mid_hooks[i] \in Made
      /\ \A th \in Threads : Arriving(th) => job[th].id \in Made
      /\ Len(m_hooks) + Len(m_mid_hooks) + Pending("supervisor") + Pending("game") = Len(hooks)
  BY DEF IInv, ListInv, Arriving
<1>1. CASE Still
  <2>1. /\ Pending("supervisor")' = Pending("supervisor") /\ Pending("game")' = Pending("game")
    BY <1>0, <1>1 DEF Still, Pending, Arriving
  <2>2. \A th \in Threads : Arriving(th)' => job'[th].id \in Made
    BY <1>a, <1>1 DEF Still
  <2>3. hooks' = hooks /\ m_hooks' = m_hooks /\ m_mid_hooks' = m_mid_hooks
    BY <1>1 DEF Still
  <2>4. QED
    BY <1>0, <1>a, <2>1, <2>2, <2>3 DEF ListInv, Made, Arriving
<1>2. ASSUME NEW th \in Threads, create(th), hooks' # hooks
      PROVE  ListInv'
  <2>1. /\ Arriving(th)' /\ ~Arriving(th) /\ \A o \in Threads : o # th => job'[o] = job[o]
        /\ m_hooks' = m_hooks /\ m_mid_hooks' = m_mid_hooks /\ Len(hooks') = Len(hooks) + 1
        /\ hooks' \in Seq(HookRecords) /\ Made \subseteq Made' /\ job'[th].id \in Made'
    BY <1>2, Grown DEF registry, Arriving
  <2>2. Pending(th)' = 1 /\ Pending(th) = 0 /\ \A o \in Threads : o # th => Pending(o)' = Pending(o)
    BY <2>1 DEF Pending, Arriving
  <2>3. Pending("supervisor")' + Pending("game")' = Pending("supervisor") + Pending("game") + 1
    BY <1>0, <2>2, Pendings
  <2>4. \A o \in Threads : Arriving(o)' => job'[o].id \in Made'
    BY <1>a, <2>1 DEF Arriving
  <2>5. Len(m_hooks') + Len(m_mid_hooks') + Pending("supervisor")' + Pending("game")' = Len(hooks')
    <3>1. /\ Pending("supervisor") \in Nat /\ Pending("game") \in Nat
          /\ Pending("supervisor")' \in Nat /\ Pending("game")' \in Nat
      BY DEF Pending
    <3>2. PICK p \in Nat, q \in Nat, p1 \in Nat, q1 \in Nat :
            /\ p = Pending("supervisor") /\ q = Pending("game")
            /\ p1 = Pending("supervisor")' /\ q1 = Pending("game")'
      BY <3>1
    <3>3. p1 + q1 = p + q + 1
      BY <2>3, <3>2
    <3>4. Len(m_hooks) + Len(m_mid_hooks) + p + q = Len(hooks)
      BY <1>a, <3>2
    <3>5. Len(m_hooks') + Len(m_mid_hooks') + p1 + q1 = Len(hooks')
      <4>1. m_hooks' = m_hooks /\ m_mid_hooks' = m_mid_hooks /\ Len(hooks') = Len(hooks) + 1
        BY <2>1
      <4>2. Len(hooks) \in Nat /\ Len(m_hooks) \in Nat /\ Len(m_mid_hooks) \in Nat
        BY <1>0
      <4> QED
        BY <3>3, <3>4, <4>1, <4>2
    <3>6. QED
      BY <3>2, <3>5
  <2>6. /\ \A i \in 1 .. Len(m_hooks') : m_hooks'[i] \in Made'
        /\ \A i \in 1 .. Len(m_mid_hooks') : m_mid_hooks'[i] \in Made'
    BY <1>a, <2>1
  <2>7. QED
    BY <1>0, <2>1, <2>4, <2>5, <2>6 DEF ListInv, Arriving
<1>3. ASSUME NEW th \in Threads, adopt(th)
      PROVE  ListInv'
  <2>1. /\ Arriving(th) /\ ~Arriving(th)' /\ \A o \in Threads : o # th => job'[o] = job[o]
        /\ hooks' \in Seq(HookRecords) /\ Len(hooks') = Len(hooks) /\ job[th].id \in Made
        /\ \/ m_hooks' = Append(m_hooks, job[th].id) /\ m_mid_hooks' = m_mid_hooks
           \/ m_mid_hooks' = Append(m_mid_hooks, job[th].id) /\ m_hooks' = m_hooks
    BY <1>3, Adopts DEF Arriving
  <2>2. Pending(th) = 1 /\ Pending(th)' = 0 /\ \A o \in Threads : o # th => Pending(o)' = Pending(o)
    BY <2>1 DEF Pending, Arriving
  <2>3. Pending("supervisor")' + Pending("game")' + 1 = Pending("supervisor") + Pending("game")
    BY <1>0, <2>2, Pendings
  <2>4. Made' = Made /\ \A o \in Threads : Arriving(o)' => job'[o].id \in Made'
    BY <1>a, <2>1 DEF Made, Arriving
  <2>5. job[th].id \in Nat
    BY <1>0, <2>1 DEF Made
  <2>6. /\ m_hooks' \in Seq(Nat) /\ m_mid_hooks' \in Seq(Nat)
        /\ Len(m_hooks') + Len(m_mid_hooks') = Len(m_hooks) + Len(m_mid_hooks) + 1
        /\ \A i \in 1 .. Len(m_hooks') : m_hooks'[i] \in Made
        /\ \A i \in 1 .. Len(m_mid_hooks') : m_mid_hooks'[i] \in Made
    <3>1. CASE m_hooks' = Append(m_hooks, job[th].id) /\ m_mid_hooks' = m_mid_hooks
      BY <1>0, <1>a, <2>1, <2>5, <3>1, AppendProperties
    <3>2. CASE m_mid_hooks' = Append(m_mid_hooks, job[th].id) /\ m_hooks' = m_hooks
      BY <1>0, <1>a, <2>1, <2>5, <3>2, AppendProperties
    <3>3. QED
      BY <2>1, <3>1, <3>2
  <2>7. Len(m_hooks') + Len(m_mid_hooks') + Pending("supervisor")' + Pending("game")' = Len(hooks')
    <3>1. /\ Pending("supervisor")' \in {0, 1} /\ Pending("game")' \in {0, 1} /\ Len(m_hooks') \in Nat /\ Len(m_mid_hooks') \in Nat
      BY <2>6 DEF Pending
    <3>2. QED
      BY <1>0, <1>a, <2>1, <2>3, <2>6, <3>1, Pendings
  <2>8. QED
    BY <2>1, <2>4, <2>6, <2>7 DEF ListInv, Arriving
<1>4. CASE RetireNext("supervisor")
  <2>1. /\ UNCHANGED <<m_hooks, m_mid_hooks, job>> /\ hooks' \in Seq(HookRecords) /\ Len(hooks') = Len(hooks)
    <3>1. CASE disable(Adopted[walked + 1])
      BY <1>4, <3>1, Walks, Disabled DEF registry
    <3>2. CASE UNCHANGED patches
      BY <1>0, <1>4, <3>2, Walks DEF registry, patches
    <3>3. QED
      BY <1>4, <3>1, <3>2, Walks
  <2>2. Pending("supervisor")' = Pending("supervisor") /\ Pending("game")' = Pending("game") /\ Made' = Made
    BY <2>1 DEF Pending, Made
  <2>3. QED
    BY <1>0, <1>a, <2>1, <2>2 DEF ListInv, Arriving
<1>5. QED
  BY <1>1, <1>2, <1>3, <1>4, PatchSteps

-----------------------------------------------------------------------------
(* The bytes of the targets *)

LEMMA StackedStays ==
  ASSUME IInv, hooks' \in Seq(HookRecords), Made \subseteq Made', NEW t,
         \A h \in Made : hooks'[h].target = hooks[h].target, Stacked(t)
  PROVE  Stacked(t)'
<1>1. DOMAIN hooks = Made /\ DOMAIN hooks' = Made'
  BY Fields DEF Made
<1>2. PICK a, b \in Made : a # b /\ hooks[a].target = t /\ hooks[b].target = t
  BY <1>1 DEF Stacked
<1>3. QED
  BY <1>1, <1>2 DEF Stacked

LEMMA DisableKeepsCode ==
  ASSUME IInv, NEW id \in Made, disable(id)
  PROVE  CodeInv'
<1>1. /\ hooks' \in Seq(HookRecords) /\ Made' = Made /\ hooks[id].target \in Targets
      /\ code' = [code EXCEPT ![hooks[id].target] = hooks[id].saved]
      /\ \A h \in Made : /\ hooks'[h].target = hooks[h].target /\ hooks'[h].saved = hooks[h].saved
                         /\ hooks'[h].enabled <=> (hooks[h].enabled /\ h # id)
  BY Disabled DEF Made
<1>2. /\ code \in [Targets -> Ids \cup {Engine}] /\ DOMAIN hooks = Made
  BY Fields DEF Made
<1>3. ASSUME NEW t \in Targets, code'[t] # Engine
      PROVE  code'[t] \in Made /\ hooks'[code'[t]].target = t /\ (Stacked(t)' \/ hooks'[code'[t]].enabled)
  <2>1. CASE t = hooks[id].target
    <3>1. code'[t] = hooks[id].saved
      BY <1>1, <1>2, <2>1
    <3>2. /\ code'[t] \in Made /\ code'[t] # id /\ hooks[code'[t]].target = t
      BY <1>3, <2>1, <3>1 DEF IInv, CodeInv
    <3>3. Stacked(t)
      BY <1>2, <2>1, <3>2 DEF Stacked
    <3>4. QED
      BY <1>1, <3>2, <3>3, StackedStays
  <2>2. CASE t # hooks[id].target
    <3>1. code'[t] = code[t]
      BY <1>1, <1>2, <2>2
    <3>2. code[t] \in Made /\ hooks[code[t]].target = t /\ (Stacked(t) \/ hooks[code[t]].enabled)
      BY <1>3, <3>1 DEF IInv, CodeInv
    <3>3. hooks[code[t]].enabled => hooks'[code[t]].enabled
      BY <1>1, <2>2, <3>2
    <3>4. QED
      BY <1>1, <3>1, <3>2, <3>3, StackedStays
  <2>3. QED
    BY <2>1, <2>2
<1>4. \A h \in Made : hooks[h].saved # Engine =>
        hooks[h].saved \in Made /\ hooks[h].saved # h /\ hooks[hooks[h].saved].target = hooks[h].target
  BY DEF IInv, CodeInv
<1>5. \A h \in Made' : hooks'[h].saved # Engine =>
        hooks'[h].saved \in Made' /\ hooks'[h].saved # h /\ hooks'[hooks'[h].saved].target = hooks'[h].target
  BY <1>1, <1>4
<1>6. QED
  BY <1>1, <1>3, <1>5 DEF CodeInv

LEMMA CodeStep ==
  ASSUME IInv, Next
  PROVE  CodeInv'
<1>0. /\ code \in [Targets -> Ids \cup {Engine}] /\ DOMAIN hooks = Made /\ Len(hooks) \in Nat
  BY Fields DEF Made
<1>a. /\ \A t \in Targets : code[t] # Engine =>
           code[t] \in Made /\ hooks[code[t]].target = t /\ (Stacked(t) \/ hooks[code[t]].enabled)
      /\ \A h \in Made : hooks[h].saved # Engine =>
           hooks[h].saved \in Made /\ hooks[h].saved # h /\ hooks[hooks[h].saved].target = hooks[h].target
  BY DEF IInv, CodeInv
<1>1. CASE UNCHANGED <<code, hooks>>
  BY <1>1 DEF IInv, CodeInv, Made, Stacked
<1>2. ASSUME NEW th \in Threads, create(th), hooks' # hooks
      PROVE  CodeInv'
  <2> DEFINE id == Len(hooks) + 1
             target == job[th].target
  <2>1. /\ hooks' \in Seq(HookRecords) /\ Made' = Made \cup {id} /\ id \notin Made /\ target \in Targets
        /\ \A h \in Made : hooks'[h] = hooks[h]
        /\ hooks'[id] = [target |-> target, saved |-> code[target], kind |-> job[th].kind, enabled |-> TRUE, late |-> TRUE]
        /\ code' = [code EXCEPT ![target] = id]
    BY <1>2, Grown
  <2>2. hooks'[id].target = target /\ hooks'[id].saved = code[target] /\ hooks'[id].enabled
    BY <2>1
  <2> HIDE DEF id, target
  <2>3. ASSUME NEW t \in Targets, code'[t] # Engine
        PROVE  code'[t] \in Made' /\ hooks'[code'[t]].target = t /\ (Stacked(t)' \/ hooks'[code'[t]].enabled)
    <3>1. CASE t = target
      <4>1. code'[t] = id
        BY <1>0, <2>1, <3>1
      <4>2. QED
        BY <2>1, <2>2, <3>1, <4>1
    <3>2. CASE t # target
      <4>1. code'[t] = code[t]
        BY <1>0, <2>1, <3>2
      <4>2. code[t] \in Made /\ hooks[code[t]].target = t /\ (Stacked(t) \/ hooks[code[t]].enabled)
        BY <1>a, <2>3, <4>1
      <4>3. Stacked(t) => Stacked(t)'
        BY <2>1, StackedStays
      <4>4. QED
        BY <2>1, <4>1, <4>2, <4>3
    <3>3. QED
      BY <3>1, <3>2
  <2>4. ASSUME NEW h \in Made', hooks'[h].saved # Engine
        PROVE  hooks'[h].saved \in Made' /\ hooks'[h].saved # h /\ hooks'[hooks'[h].saved].target = hooks'[h].target
    <3>1. CASE h = id
      <4>1. code[target] \in Made /\ hooks[code[target]].target = target
        BY <1>a, <2>1, <2>2, <2>4, <3>1
      <4>2. QED
        BY <2>1, <2>2, <3>1, <4>1
    <3>2. CASE h # id
      <4>1. h \in Made /\ hooks'[h] = hooks[h]
        BY <2>1, <3>2
      <4>2. QED
        BY <1>a, <2>1, <2>4, <4>1
    <3>3. QED
      BY <3>1, <3>2
  <2>5. QED
    BY <2>3, <2>4 DEF CodeInv
<1>3. ASSUME NEW th \in Threads, adopt(th)
      PROVE  CodeInv'
  <2>1. CASE disable(job[th].id)
    BY <1>3, <2>1, Adopts, DisableKeepsCode
  <2>2. CASE code' = code /\ \A h \in Made : hooks'[h].enabled = hooks[h].enabled
    <3>1. /\ hooks' \in Seq(HookRecords) /\ Made' = Made
          /\ \A h \in Made : hooks'[h].target = hooks[h].target /\ hooks'[h].saved = hooks[h].saved
      BY <1>3, Adopts DEF Made
    <3>2. \A t \in Targets : Stacked(t) => Stacked(t)'
      BY <3>1, StackedStays
    <3>3. \A t \in Targets : code'[t] # Engine =>
            code'[t] \in Made' /\ hooks'[code'[t]].target = t /\ (Stacked(t)' \/ hooks'[code'[t]].enabled)
      BY <1>a, <2>2, <3>1, <3>2
    <3>4. \A h \in Made' : hooks'[h].saved # Engine =>
            hooks'[h].saved \in Made' /\ hooks'[h].saved # h /\ hooks'[hooks'[h].saved].target = hooks'[h].target
      BY <1>a, <3>1
    <3>5. QED
      BY <3>3, <3>4 DEF CodeInv
  <2>3. QED
    BY <1>3, <2>1, <2>2, Adopts
<1>4. CASE RetireNext("supervisor")
  <2>1. CASE disable(Adopted[walked + 1])
    BY <1>4, <2>1, Walks, DisableKeepsCode
  <2>2. CASE UNCHANGED patches
    BY <1>1, <2>2 DEF patches
  <2>3. QED
    BY <1>4, <2>1, <2>2, Walks
<1>5. QED
  BY <1>1, <1>2, <1>3, <1>4, PatchSteps DEF Still

-----------------------------------------------------------------------------
(* The steps of the supervisor and the threads' batches *)

\* What a step of the supervisor, or of nobody, does to the retirement.
LEMMA RetirementSteps ==
  ASSUME IInv, Next
  PROVE  UNCHANGED <<retire_started, walked, retire_ok, mux>> \/ Retire
<1>1. CASE UNCHANGED hookVars
  BY <1>1 DEF hookVars, retirement
<1>2. ASSUME NEW th \in Threads, InstallNext(th) \/ Installing(th) \/ InstallReturns(th)
      PROVE  UNCHANGED <<retire_started, walked, retire_ok, mux>>
  BY <1>2 DEF InstallNext, install, Installing, create, record, adopt, InstallReturns, retirement
<1>3. CASE Seal
  BY <1>3 DEF Seal, seal, retirement
<1>4. QED
  BY <1>1, <1>2, <1>3, HookSteps

LEMMA SealSteps ==
  ASSUME IInv, Next
  PROVE  sealed' = sealed \/ Seal
<1>1. CASE UNCHANGED hookVars
  BY <1>1 DEF hookVars
<1>2. ASSUME NEW th \in Threads, InstallNext(th) \/ Installing(th) \/ InstallReturns(th)
      PROVE  sealed' = sealed
  BY <1>2 DEF InstallNext, install, Installing, create, record, adopt, InstallReturns
<1>3. CASE Retire
  BY <1>3 DEF Retire, retire, RetireNext, RetireReturn
<1>4. QED
  BY <1>1, <1>2, <1>3, HookSteps

LEMMA StepStep ==
  ASSUME IInv, Next
  PROVE  StepInv'
<1> USE DEF IInv, StepInv
<1>1. CASE Seal
  <2>1. step = "seal" /\ step' = "remove" /\ sealed' = TRUE /\ UNCHANGED <<retire_started, mux, attempts>>
    BY <1>1 DEF Seal, seal, To, Quiet, retirement
  <2>2. QED
    BY <2>1 DEF Over
<1>2. CASE Retire
  <2>1. /\ step = "retire" /\ UNCHANGED <<sealed, attempts>>
        /\ \/ step' = step /\ retire_started'
           \/ step' = step /\ mux # Nobody /\ retire_started' = retire_started
           \/ step' = "check" /\ mux # Nobody /\ retire_started' = retire_started /\ mux' = Nobody
    BY <1>2 DEF Retire, retire, RetireNext, RetireReturn, Quiet, Nobody, retirement
  <2>2. QED
    BY <2>1 DEF Over
<1>3. CASE ~Seal /\ ~Retire
  <2>1. UNCHANGED <<sealed, retire_started, mux>>
    BY <1>3, SealSteps, RetirementSteps
  <2>2. CASE UNCHANGED <<step, attempts>>
    BY <2>1, <2>2
  <2>3. CASE RemoveFilter
    BY <2>1, <2>3 DEF RemoveFilter, To, Quiet, Over
  <2>4. CASE Check
    BY <2>1, <2>4 DEF Check, To, Quiet, Over
  <2>5. CASE prove_quiescent
    <3>1. /\ step = "quiesce" /\ attempts \in Nat /\ attempts < MaxAttempts
      BY <2>5 DEF prove_quiescent, TypeOK, Over
    <3>2. \/ step' = "unmapped"
          \/ attempts' = attempts + 1 /\ step' = (IF attempts + 1 = MaxAttempts THEN "dormant" ELSE step)
      BY <2>5 DEF prove_quiescent, LastAttempt
    <3>3. step' \notin Over => attempts' < MaxAttempts
      BY <3>1, <3>2, Bounds DEF Over
    <3>4. QED
      BY <2>1, <3>1, <3>2, <3>3
  <2>6. CASE Supervisor /\ ~RemoveFilter /\ ~Check /\ ~prove_quiescent /\ step' # step
    <3>1. /\ step \in {"arm", "await_hit", "release", "await_client", "frame", "register", "filter", "mods", "start", "poll", "stop"}
          /\ step' \in {"await_hit", "release", "await_client", "frame", "register", "filter", "mods", "start", "poll", "stop",
                        "seal", "dormant"}
          /\ attempts' = attempts
      BY <1>3, <2>6 DEF Supervisor, install_bootstrap_gate, AwaitHit, Release, AwaitClient, HookFrame, Register, InstallFilter,
         on_initialize, StartServer, Poll, StopServer, Install, To, Quiet
    <3>2. QED
      BY <2>1, <3>1 DEF Over
  <2>7. CASE Supervisor /\ step' = step /\ ~prove_quiescent
    <3>1. attempts' = attempts
      BY <2>7 DEF Supervisor, install_bootstrap_gate, AwaitHit, Release, AwaitClient, HookFrame, Register, InstallFilter,
         on_initialize, StartServer, Poll, StopServer, Seal, RemoveFilter, Retire, Check, Install, Quiet
    <3>2. QED
      BY <2>2, <2>7, <3>1
  <2>8. CASE Game \/ Server
    <3>1. UNCHANGED <<step, attempts>>
      BY <2>8 DEF Game, ReachEntry, gate_veh, LoadGameserver, frame_tick_detour, reassert, Claim, ResourceWatch,
         FireRedirect, on_frame, find, original, game, Install, Server
    <3>2. QED
      BY <2>2, <3>1
  <2>9. QED
    BY <2>3, <2>4, <2>5, <2>6, <2>7, <2>8 DEF Next
<1>4. QED
  BY <1>1, <1>2, <1>3

LEMMA Batches ==
  ASSUME NEW b \in {"frame", "fire", "watch"}
  PROVE  Batch[b] \in Seq(Targets) /\ b # "none" /\ b \in DOMAIN Batch /\ Len(Batch[b]) <= 2
<1>1. <<"Trace", "Entry">> \in Seq(Targets) /\ <<"Texture", "Buffer">> \in Seq(Targets) /\ <<"Update">> \in Seq(Targets)
  BY Bounds
<1>2. Len(<<"Trace", "Entry">>) = 2 /\ Len(<<"Texture", "Buffer">>) = 2 /\ Len(<<"Update">>) = 1
  OBVIOUS
<1>3. b \in DOMAIN Batch /\ b # "none"
  BY DEF Batch
<1>4. CASE b = "frame"
  <2>1. Batch[b] = <<"Update">>
    BY <1>4 DEF Batch
  <2>2. Batch[b] \in Seq(Targets)
    BY <1>1, <2>1
  <2>3. Len(Batch[b]) <= 2
    BY <1>2, <2>1
  <2>4. QED
    BY <1>3, <2>2, <2>3
<1>5. CASE b = "fire"
  <2>1. Batch[b] = <<"Trace", "Entry">>
    BY <1>5 DEF Batch
  <2>2. Batch[b] \in Seq(Targets)
    BY <1>1, <2>1
  <2>3. Len(Batch[b]) <= 2
    BY <1>2, <2>1
  <2>4. QED
    BY <1>3, <2>2, <2>3
<1>6. CASE b = "watch"
  <2>1. Batch[b] = <<"Texture", "Buffer">>
    BY <1>6 DEF Batch
  <2>2. Batch[b] \in Seq(Targets)
    BY <1>1, <2>1
  <2>3. Len(Batch[b]) <= 2
    BY <1>2, <2>1
  <2>4. QED
    BY <1>3, <2>2, <2>3
<1>7. QED
  BY <1>4, <1>5, <1>6

\* Where the batches change: an install, the start of a batch, and its end.
LEMMA BatchSteps ==
  ASSUME Next
  PROVE  \/ UNCHANGED <<job, todo, batch>>
         \/ \E th \in Threads : Install(th)
         \/ \E th \in Threads, b \in {"frame", "fire", "watch"} : StartBatch(th, b) /\ UNCHANGED job
         \/ \E th \in Threads : BatchDone(th) /\ UNCHANGED job
<1>1. "supervisor" \in Threads /\ "game" \in Threads
  BY Bounds
<1>2. CASE Supervisor /\ ~Install("supervisor")
  <2>1. CASE AwaitClient
    BY <1>1, <2>1 DEF AwaitClient, hookVars
  <2>2. CASE InstallFilter
    BY <1>1, <2>2 DEF InstallFilter, hookVars
  <2>3. CASE HookFrame
    BY <1>1, <2>3 DEF HookFrame, hookVars
  <2>4. CASE on_initialize
    BY <1>1, <2>4 DEF on_initialize, hookVars
  <2>5. CASE Supervisor /\ ~Install("supervisor") /\ ~AwaitClient /\ ~InstallFilter /\ ~HookFrame /\ ~on_initialize
    BY <2>5 DEF Supervisor, install_bootstrap_gate, AwaitHit, Release, Register, StartServer, Poll, StopServer, Seal, seal,
       RemoveFilter, Retire, retire, RetireNext, RetireReturn, Check, prove_quiescent, hookVars, mods
  <2>6. QED
    BY <1>2, <2>1, <2>2, <2>3, <2>4, <2>5
<1>3. CASE Game /\ ~Install("game")
  <2>1. CASE ResourceWatch
    BY <1>1, <2>1 DEF ResourceWatch, on_frame, game, hookVars
  <2>2. CASE FireRedirect
    BY <1>1, <2>2 DEF FireRedirect, on_frame, game, hookVars
  <2>3. CASE Game /\ ~Install("game") /\ ~ResourceWatch /\ ~FireRedirect
    BY <2>3 DEF Game, ReachEntry, gate_veh, LoadGameserver, frame_tick_detour, reassert, Claim, find, original, game,
       hookVars, mods
  <2>4. QED
    BY <1>3, <2>1, <2>2, <2>3
<1>4. CASE Server
  BY <1>4 DEF Server, hookVars, mods
<1>5. QED
  BY <1>1, <1>2, <1>3, <1>4 DEF Next

\* Every thread's batch holds what its install needs.
BatchOf(th) ==
  /\ job[th].at # "idle" => todo[th] # <<>> /\ job[th].target \in Targets
  /\ todo[th] # <<>> => batch[th] # "none"

LEMMA BatchOfStep ==
  ASSUME IInv, Next
  PROVE  /\ todo' \in [Threads -> Seq(Targets)] /\ job' \in [Threads -> Jobs] /\ batch' \in [Threads -> DOMAIN Batch]
         /\ \A th \in Threads : BatchOf(th)' /\ Len(todo'[th]) <= 2
<1>0. /\ todo \in [Threads -> Seq(Targets)] /\ job \in [Threads -> Jobs] /\ batch \in [Threads -> DOMAIN Batch]
      /\ \A th \in Threads : Len(todo[th]) <= 2 /\ BatchOf(th) /\ Len(todo[th]) \in Nat
  <2>1. /\ todo \in [Threads -> Seq(Targets)] /\ \A th \in Threads : BatchOf(th)
    BY DEF IInv, BatchInv, BatchOf
  <2>2. batch \in [Threads -> DOMAIN Batch] /\ \A th \in Threads : Len(todo[th]) <= 2
    BY DEF IInv, TypeOK
  <2>3. QED
    BY <2>1, <2>2, Fields
<1>1. CASE UNCHANGED <<job, todo, batch>>
  BY <1>0, <1>1 DEF BatchOf
<1>2. ASSUME NEW th \in Threads, Install(th)
      PROVE  /\ todo' \in [Threads -> Seq(Targets)] /\ job' \in [Threads -> Jobs] /\ batch' = batch
             /\ \A o \in Threads : o # th => todo'[o] = todo[o] /\ job'[o] = job[o]
             /\ BatchOf(th)' /\ Len(todo'[th]) <= 2
  <2>1. CASE InstallNext(th)
    <3>1. /\ todo' = todo /\ batch' = batch /\ job' \in [Threads -> Jobs] /\ todo[th] # <<>> /\ job'[th].target \in Targets
          /\ \A o \in Threads : o # th => job'[o] = job[o]
      BY <2>1, Refusals DEF mods
    <3>2. QED
      BY <1>0, <3>1 DEF BatchOf
  <2>2. CASE ScanMisses(th)
    <3>1. /\ todo[th] # <<>> /\ job[th] = NoJob /\ UNCHANGED <<job, batch>>
          /\ todo' = [todo EXCEPT ![th] = IF Len(@) = Len(Batch["fire"]) THEN <<>> ELSE Tail(@)]
      BY <2>2 DEF ScanMisses, hookVars
    <3> DEFINE rest == IF Len(todo[th]) = Len(Batch["fire"]) THEN <<>> ELSE Tail(todo[th])
    <3>2. rest \in Seq(Targets) /\ Len(rest) <= 2
      <4>1. Tail(todo[th]) \in Seq(Targets) /\ Len(Tail(todo[th])) = Len(todo[th]) - 1
        BY <1>0, <3>1, HeadTailProperties
      <4>2. <<>> \in Seq(Targets) /\ Len(<<>>) = 0
        OBVIOUS
      <4>3. QED
        BY <1>0, <4>1, <4>2
    <3>3. todo' = [todo EXCEPT ![th] = rest]
      BY <3>1
    <3> HIDE DEF rest
    <3>4. todo' \in [Threads -> Seq(Targets)] /\ todo'[th] = rest /\ \A o \in Threads : o # th => todo'[o] = todo[o]
      BY <1>0, <3>2, <3>3
    <3>5. job'[th].at = "idle" /\ batch'[th] # "none"
      BY <1>0, <3>1 DEF NoJob, BatchOf
    <3>6. QED
      BY <1>0, <3>1, <3>2, <3>4, <3>5 DEF BatchOf
  <2>3. CASE Installing(th) /\ UNCHANGED mods
    <3>1. job[th].at \in {"create", "record", "adopt"}
      BY <2>3 DEF Installing, create, record, adopt
    <3>2. todo[th] # <<>> /\ job[th].target \in Targets
      BY <1>0, <3>1 DEF BatchOf
    <3>3. /\ job' \in [Threads -> Jobs] /\ job'[th].target = job[th].target
          /\ \A o \in Threads : o # th => job'[o] = job[o]
      BY <2>3, Created, Records, Adopts DEF Installing
    <3>4. todo' = todo /\ batch' = batch
      BY <2>3 DEF mods
    <3>5. QED
      BY <1>0, <3>2, <3>3, <3>4 DEF BatchOf
  <2>4. CASE InstallReturns(th)
    <3>1. /\ batch' = batch /\ job' \in [Threads -> Jobs] /\ job'[th].at = "idle"
          /\ \A o \in Threads : o # th => job'[o] = job[o] /\ todo'[o] = todo[o]
          /\ todo' \in [Threads -> Seq(Targets)] /\ batch[th] # "none" /\ Len(todo'[th]) <= Len(todo[th])
      BY <2>4, Returns
    <3>2. Len(todo'[th]) <= 2
      <4>1. Len(todo'[th]) \in Nat
        BY <3>1
      <4>2. QED
        BY <1>0, <3>1, <4>1
    <3>3. QED
      BY <3>1, <3>2 DEF BatchOf
  <2>5. QED
    BY <1>2, <2>1, <2>2, <2>3, <2>4 DEF Install
<1>3. ASSUME NEW th \in Threads, NEW b \in {"frame", "fire", "watch"}, StartBatch(th, b), UNCHANGED job
      PROVE  /\ todo' \in [Threads -> Seq(Targets)] /\ batch' \in [Threads -> DOMAIN Batch]
             /\ \A o \in Threads : BatchOf(o)' /\ Len(todo'[o]) <= 2
  <2>1. /\ batch[th] = "none" /\ batch' = [batch EXCEPT ![th] = b] /\ todo' = [todo EXCEPT ![th] = Batch[b]]
    BY <1>3 DEF StartBatch
  <2>2. job[th].at = "idle"
    BY <1>0, <2>1 DEF BatchOf
  <2>3. Batch[b] \in Seq(Targets) /\ b # "none" /\ b \in DOMAIN Batch /\ Len(Batch[b]) <= 2
    BY Batches
  <2>4. /\ todo' \in [Threads -> Seq(Targets)] /\ batch' \in [Threads -> DOMAIN Batch]
        /\ todo'[th] = Batch[b] /\ batch'[th] = b
        /\ \A o \in Threads : o # th => todo'[o] = todo[o] /\ batch'[o] = batch[o]
    BY <1>0, <2>1, <2>3
  <2>5. QED
    BY <1>0, <1>3, <2>2, <2>3, <2>4 DEF BatchOf
<1>4. ASSUME NEW th \in Threads, BatchDone(th), UNCHANGED job
      PROVE  /\ todo' = todo /\ batch' \in [Threads -> DOMAIN Batch]
             /\ \A o \in Threads : BatchOf(o)'
  <2>1. todo[th] = <<>> /\ batch' = [batch EXCEPT ![th] = "none"] /\ todo' = todo
    BY <1>4 DEF BatchDone
  <2>2. "none" \in DOMAIN Batch
    BY DEF Batch
  <2>3. /\ batch' \in [Threads -> DOMAIN Batch] /\ \A o \in Threads : o # th => batch'[o] = batch[o]
    BY <1>0, <2>1, <2>2
  <2>4. QED
    BY <1>0, <1>4, <2>1, <2>3 DEF BatchOf
<1>5. CASE \E th \in Threads : Install(th)
  <2>1. PICK th \in Threads : Install(th)
    BY <1>5
  <2>2. \A o \in Threads : o # th => BatchOf(o)' /\ Len(todo'[o]) <= 2
    BY <1>0, <1>2, <2>1 DEF BatchOf
  <2>3. QED
    BY <1>0, <1>2, <2>1, <2>2
<1>6. QED
  BY <1>0, <1>1, <1>3, <1>4, <1>5, BatchSteps

\* An idle thread without a batch does nothing in an install.
LEMMA NothingToInstall ==
  ASSUME IInv, NEW th \in Threads, todo[th] = <<>>
  PROVE  ~Install(th) /\ job[th].at = "idle"
<1>1. job[th].at = "idle"
  BY DEF IInv, BatchInv
<1>2. ~InstallNext(th) /\ ~ScanMisses(th)
  BY DEF InstallNext, ScanMisses
<1>3. ~Installing(th) /\ ~InstallReturns(th)
  BY <1>1 DEF Installing, create, record, adopt, InstallReturns, Answered
<1>4. QED
  BY <1>1, <1>2, <1>3 DEF Install

LEMMA BatchStep ==
  ASSUME IInv, Next
  PROVE  BatchInv'
<1>0. "supervisor" \in Threads /\ "game" \in Threads /\ todo \in [Threads -> Seq(Targets)]
  BY Bounds DEF IInv, BatchInv
<1>1. step' \notin {"frame", "mods"} => todo'["supervisor"] = <<>>
  <2>1. SUFFICES ASSUME step' \notin {"frame", "mods"}
                 PROVE  todo'["supervisor"] = <<>>
    OBVIOUS
  <2>2. CASE step \notin {"frame", "mods"}
    <3>1. todo["supervisor"] = <<>> /\ ~Install("supervisor")
      BY <1>0, <2>2, NothingToInstall DEF IInv, BatchInv
    <3>2. CASE Game
      <4>1. CASE ResourceWatch \/ FireRedirect
        <5>1. todo' = todo \/ \E b \in {"watch", "fire"} : todo' = [todo EXCEPT !["game"] = Batch[b]]
          BY <4>1 DEF ResourceWatch, FireRedirect, on_frame, StartBatch, BatchDone
        <5>2. QED
          BY <1>0, <3>1, <5>1
      <4>2. CASE Install("game")
        <5>1. todo' = todo \/ \E rest : todo' = [todo EXCEPT !["game"] = rest]
          BY <4>2 DEF Install, InstallNext, ScanMisses, Installing, InstallReturns, mods
        <5>2. QED
          BY <1>0, <3>1, <5>1
      <4>3. CASE Game /\ ~ResourceWatch /\ ~FireRedirect /\ ~Install("game")
        <5>1. todo' = todo
          BY <4>3 DEF Game, ReachEntry, gate_veh, LoadGameserver, frame_tick_detour, reassert, Claim, find, original, mods
        <5>2. QED
          BY <3>1, <5>1
      <4>4. QED
        BY <3>2, <4>1, <4>2, <4>3
    <3>3. CASE Supervisor
      <4>1. todo' = todo
        BY <2>1, <2>2, <3>1, <3>3 DEF Supervisor, install_bootstrap_gate, AwaitHit, Release, AwaitClient, HookFrame, Register,
           InstallFilter, on_initialize, StartServer, Poll, StopServer, Seal, RemoveFilter, Retire, Check,
           prove_quiescent, mods, To
      <4>2. QED
        BY <3>1, <4>1
    <3>4. CASE Server
      BY <3>1, <3>4 DEF Server, mods
    <3>5. QED
      BY <3>2, <3>3, <3>4 DEF Next
  <2>3. CASE step \in {"frame", "mods"}
    <3>1. HookFrame \/ on_initialize
      BY <2>1, <2>3 DEF Next, Supervisor, install_bootstrap_gate, AwaitHit, Release, AwaitClient, Register, InstallFilter,
         StartServer, Poll, StopServer, Seal, RemoveFilter, Retire, Check, prove_quiescent, To, Install,
         Game, ReachEntry, gate_veh, LoadGameserver, frame_tick_detour, reassert, Claim, ResourceWatch, FireRedirect,
         on_frame, find, original, game, Server
    <3>2. \/ todo["supervisor"] = <<>> /\ todo' = todo
          \/ batch["supervisor"] = "none" /\ todo' = todo
      BY <3>1 DEF HookFrame, on_initialize, BatchDone
    <3>3. QED
      BY <1>0, <3>2 DEF IInv, BatchInv
  <2>4. QED
    BY <2>2, <2>3
<1>2. QED
  BY <1>1, BatchOfStep DEF BatchInv, BatchOf

-----------------------------------------------------------------------------
(* The crash filter *)

LEMMA FilterStep ==
  ASSUME IInv, Next
  PROVE  FilterInv'
<1> USE DEF IInv, FilterInv
<1>1. CASE RemoveFilter
  <2>1. /\ step = "remove" /\ step' = "retire" /\ installed' = FALSE /\ gpc' = gpc
        /\ IF installed THEN filter' = "engine" /\ overtaken' = (gpc = "claim") ELSE UNCHANGED <<filter, overtaken>>
    BY <1>1 DEF RemoveFilter, To, Quiet
  <2>2. QED
    BY <2>1
<1>2. CASE InstallFilter
  BY <1>2 DEF InstallFilter, To
<1>3. CASE Supervisor /\ ~RemoveFilter /\ ~InstallFilter
  <2>1. UNCHANGED <<installed, filter, overtaken, gpc>>
    BY <1>3 DEF Supervisor, install_bootstrap_gate, AwaitHit, Release, AwaitClient, HookFrame, Register, on_initialize,
       StartServer, Poll, StopServer, Seal, Retire, Check, prove_quiescent, Install, Quiet, crash
  <2>2. /\ step' \in {"mods", "start", "poll", "stop", "seal", "remove"} => step \in {"mods", "start", "poll", "stop", "seal"} \/ step' = step
        /\ step' \in {"retire", "check", "quiesce", "unmapped"} => step \in {"retire", "check", "quiesce"} \/ step' = step
    BY <1>3 DEF Supervisor, install_bootstrap_gate, AwaitHit, Release, AwaitClient, HookFrame, Register, on_initialize,
       StartServer, Poll, StopServer, Seal, Retire, Check, prove_quiescent, Install, To
  <2>3. QED
    BY <2>1, <2>2
<1>4. CASE Game
  <2>1. step' = step /\ installed' = installed /\ overtaken' = overtaken
    BY <1>4 DEF Game, ReachEntry, gate_veh, LoadGameserver, frame_tick_detour, reassert, Claim, ResourceWatch,
       FireRedirect, on_frame, find, original, game, Install, crash
  <2>2. gpc' = "claim" => gpc = "claim" \/ installed
    BY <1>4 DEF Game, ReachEntry, gate_veh, LoadGameserver, frame_tick_detour, reassert, Claim, ResourceWatch,
       FireRedirect, on_frame, find, original, Install, GStep
  <2>3. filter' = filter \/ gpc = "claim"
    BY <1>4 DEF Game, ReachEntry, gate_veh, LoadGameserver, frame_tick_detour, reassert, Claim, ResourceWatch,
       FireRedirect, on_frame, find, original, Install, GStep, crash
  <2>4. QED
    BY <2>1, <2>2, <2>3
<1>5. CASE Server
  BY <1>5 DEF Server, crash
<1>6. QED
  BY <1>1, <1>2, <1>3, <1>4, <1>5 DEF Next

-----------------------------------------------------------------------------
(* The hooks that come late *)

\* From the seal on no install gets past its test, and the supervisor's thread has none.
LEMMA SealedCreates ==
  ASSUME IInv, Next, sealed
  PROVE  /\ job["supervisor"].at = "idle"
         /\ job'["game"].at = "create" => job["game"].at = "create"
<1>0. "supervisor" \in Threads /\ "game" \in Threads
  BY Bounds
<1>1. todo["supervisor"] = <<>>
  BY DEF IInv, StepInv, BatchInv
<1>2. job["supervisor"].at = "idle"
  BY <1>0, <1>1, NothingToInstall
<1>3. ASSUME job'["game"].at = "create"
      PROVE  job["game"].at = "create"
  <2>1. CASE UNCHANGED hookVars
    BY <1>3, <2>1 DEF hookVars
  <2>2. ASSUME NEW th \in Threads, InstallNext(th)
        PROVE  job["game"].at = "create"
    BY <1>0, <1>3, <2>2, Refusals
  <2>3. ASSUME NEW th \in Threads, create(th)
        PROVE  job["game"].at = "create"
    BY <1>0, <1>3, <2>3, Created
  <2>4. ASSUME NEW th \in Threads, record(th)
        PROVE  job["game"].at = "create"
    BY <1>0, <1>3, <2>4, Records
  <2>5. ASSUME NEW th \in Threads, adopt(th)
        PROVE  job["game"].at = "create"
    BY <1>0, <1>3, <2>5, Adopts
  <2>6. ASSUME NEW th \in Threads, InstallReturns(th)
        PROVE  job["game"].at = "create"
    BY <1>0, <1>3, <2>6, Returns
  <2>7. CASE Seal \/ Retire
    BY <1>3, <2>7 DEF Seal, seal, Retire, retire, RetireNext, RetireReturn
  <2>8. QED
    BY <2>1, <2>2, <2>3, <2>4, <2>5, <2>6, <2>7, HookSteps DEF Installing
<1>4. QED
  BY <1>2, <1>3

Owned(id) ==
  \/ \E i \in 1 .. Len(m_hooks) : m_hooks[i] = id
  \/ \E i \in 1 .. Len(m_mid_hooks) : m_mid_hooks[i] = id

LEMMA LateStep ==
  ASSUME IInv, Next
  PROVE  LateInv'
<1>0. /\ "supervisor" \in Threads /\ "game" \in Threads /\ \A th \in Threads : th = "supervisor" \/ th = "game"
      /\ m_hooks \in Seq(Nat) /\ m_mid_hooks \in Seq(Nat) /\ Len(m_hooks) \in Nat /\ Len(m_mid_hooks) \in Nat
  BY Bounds, Fields
<1>a. /\ \A id \in Made : ~hooks[id].late => Owned(id)
      /\ ~retire_started => \A id \in Made : hooks[id].late => \E th \in Threads : Arriving(th) /\ job[th].id = id
      /\ sealed => \A a, b \in Made : hooks[a].late /\ hooks[b].late => a = b
      /\ sealed /\ job["game"].at = "create" => \A id \in Made : ~hooks[id].late
  BY DEF IInv, LateInv, Owned, Arriving
<1>b. retire_started => retire_started'
  <2>1. CASE Retire
    BY <2>1 DEF Retire, retire, RetireNext, RetireReturn, retirement
  <2>2. QED
    BY <2>1, RetirementSteps
<1>c. sealed /\ job'["game"].at = "create" => job["game"].at = "create"
  BY SealedCreates
<1>1. SUFFICES /\ \A id \in Made' : ~hooks'[id].late => Owned(id)'
               /\ ~retire_started' => \A id \in Made' : hooks'[id].late => \E th \in Threads : Arriving(th)' /\ job'[th].id = id
               /\ sealed' => \A a, b \in Made' : hooks'[a].late /\ hooks'[b].late => a = b
               /\ sealed' /\ job'["game"].at = "create" => \A id \in Made' : ~hooks'[id].late
  BY DEF LateInv, Owned, Arriving
<1>2. CASE Still
  <2>1. /\ hooks' = hooks /\ Made' = Made /\ \A id : Owned(id)' <=> Owned(id)
        /\ \A th \in Threads : (Arriving(th)' <=> Arriving(th)) /\ (Arriving(th) => job'[th].id = job[th].id)
    BY <1>2 DEF Still, Made, Owned
  <2>2. CASE Seal
    <3>1. step = "seal" /\ job' = job
      BY <2>2 DEF Seal, seal, To
    <3>2. ~retire_started /\ ~Arriving("supervisor")
      <4>1. ~retire_started
        BY <3>1 DEF IInv, StepInv
      <4>2. todo["supervisor"] = <<>>
        BY <3>1 DEF IInv, BatchInv
      <4>3. QED
        BY <1>0, <4>1, <4>2, NothingToInstall DEF Arriving
    <3>3. \A id \in Made : hooks[id].late => Arriving("game") /\ job["game"].id = id
      BY <1>0, <1>a, <3>2
    <3>4. Arriving("game") => job["game"].at # "create"
      BY DEF Arriving
    <3>5. QED
      BY <1>a, <2>1, <3>1, <3>2, <3>3, <3>4
  <2>3. CASE ~Seal
    <3>1. sealed' = sealed
      BY <2>3, SealSteps
    <3>2. QED
      BY <1>a, <1>b, <1>c, <2>1, <3>1
  <2>4. QED
    BY <2>2, <2>3
<1>3. ASSUME NEW th \in Threads, create(th), hooks' # hooks
      PROVE  /\ \A id \in Made' : ~hooks'[id].late => Owned(id)'
             /\ ~retire_started' => \A id \in Made' : hooks'[id].late => \E o \in Threads : Arriving(o)' /\ job'[o].id = id
             /\ sealed' => \A a, b \in Made' : hooks'[a].late /\ hooks'[b].late => a = b
             /\ sealed' /\ job'["game"].at = "create" => \A id \in Made' : ~hooks'[id].late
  <2> DEFINE new == Len(hooks) + 1
  <2>1. /\ job[th].at = "create" /\ UNCHANGED <<m_hooks, m_mid_hooks, sealed, retire_started>>
        /\ \A o \in Threads : o # th => job'[o] = job[o]
        /\ \A h \in Made : hooks'[h] = hooks[h]
        /\ Made' = Made \cup {new} /\ new \notin Made
        /\ hooks'[new].late /\ Arriving(th)' /\ job'[th].id = new
    BY <1>3, Grown DEF registry, retirement
  <2> HIDE DEF new
  <2>2. \A id : Owned(id)' <=> Owned(id)
    BY <2>1 DEF Owned
  <2>3. \A id \in Made' : ~hooks'[id].late => Owned(id)'
    BY <1>a, <2>1, <2>2
  <2>4. ~retire_started' => \A id \in Made' : hooks'[id].late => \E o \in Threads : Arriving(o)' /\ job'[o].id = id
    <3>1. SUFFICES ASSUME ~retire_started, NEW id \in Made, hooks[id].late
                   PROVE  \E o \in Threads : Arriving(o)' /\ job'[o].id = id
      BY <2>1
    <3>2. PICK o \in Threads : Arriving(o) /\ job[o].id = id
      BY <1>a, <3>1
    <3>3. o # th
      BY <2>1, <3>2 DEF Arriving
    <3>4. QED
      BY <2>1, <3>2, <3>3 DEF Arriving
  <2>5. sealed => th = "game" /\ \A id \in Made : ~hooks[id].late
    <3>1. sealed => job["supervisor"].at = "idle"
      BY SealedCreates
    <3>2. QED
      BY <1>0, <1>a, <2>1, <3>1
  <2>6. sealed' => \A a, b \in Made' : hooks'[a].late /\ hooks'[b].late => a = b
    BY <2>1, <2>5
  <2>7. sealed' => job'["game"].at # "create"
    BY <2>1, <2>5 DEF Arriving
  <2>8. QED
    BY <2>3, <2>4, <2>6, <2>7
<1>4. ASSUME NEW th \in Threads, adopt(th)
      PROVE  /\ \A id \in Made' : ~hooks'[id].late => Owned(id)'
             /\ ~retire_started' => \A id \in Made' : hooks'[id].late => \E o \in Threads : Arriving(o)' /\ job'[o].id = id
             /\ sealed' => \A a, b \in Made' : hooks'[a].late /\ hooks'[b].late => a = b
             /\ sealed' /\ job'["game"].at = "create" => \A id \in Made' : ~hooks'[id].late
  <2> DEFINE own == job[th].id
  <2>1. /\ own \in Made /\ sealed' = sealed /\ retire_started' = retire_started
        /\ job'[th].at = "done" /\ \A o \in Threads : o # th => job'[o] = job[o]
        /\ Len(hooks') = Len(hooks)
        /\ \A h \in Made : hooks'[h].late <=> (hooks[h].late /\ (h # own \/ retire_started))
        /\ \/ m_hooks' = Append(m_hooks, own) /\ m_mid_hooks' = m_mid_hooks
           \/ m_mid_hooks' = Append(m_mid_hooks, own) /\ m_hooks' = m_hooks
    BY <1>4, Adopts DEF retirement
  <2>2. Made' = Made /\ own \in Nat
    BY <2>1, Fields DEF Made
  <2> HIDE DEF own
  <2>3. \A id : Owned(id) \/ id = own => Owned(id)'
    <3>1. CASE m_hooks' = Append(m_hooks, own) /\ m_mid_hooks' = m_mid_hooks
      <4>1. /\ Len(m_hooks') = Len(m_hooks) + 1 /\ m_hooks'[Len(m_hooks) + 1] = own
            /\ \A i \in 1 .. Len(m_hooks) : m_hooks'[i] = m_hooks[i]
        BY <1>0, <2>2, <3>1, AppendProperties
      <4>2. Len(m_hooks) + 1 \in 1 .. Len(m_hooks') /\ \A i \in 1 .. Len(m_hooks) : i \in 1 .. Len(m_hooks')
        BY <1>0, <4>1
      <4>3. QED
        BY <3>1, <4>1, <4>2 DEF Owned
    <3>2. CASE m_mid_hooks' = Append(m_mid_hooks, own) /\ m_hooks' = m_hooks
      <4>1. /\ Len(m_mid_hooks') = Len(m_mid_hooks) + 1 /\ m_mid_hooks'[Len(m_mid_hooks) + 1] = own
            /\ \A i \in 1 .. Len(m_mid_hooks) : m_mid_hooks'[i] = m_mid_hooks[i]
        BY <1>0, <2>2, <3>2, AppendProperties
      <4>2. Len(m_mid_hooks) + 1 \in 1 .. Len(m_mid_hooks') /\ \A i \in 1 .. Len(m_mid_hooks) : i \in 1 .. Len(m_mid_hooks')
        BY <1>0, <4>1
      <4>3. QED
        BY <3>2, <4>1, <4>2 DEF Owned
    <3>3. QED
      BY <2>1, <3>1, <3>2
  <2>4. \A id \in Made' : ~hooks'[id].late => Owned(id)'
    BY <1>a, <2>1, <2>2, <2>3
  <2>5. ~retire_started' => \A id \in Made' : hooks'[id].late => \E o \in Threads : Arriving(o)' /\ job'[o].id = id
    <3>1. SUFFICES ASSUME ~retire_started, NEW id \in Made, hooks[id].late, id # own
                   PROVE  \E o \in Threads : Arriving(o)' /\ job'[o].id = id
      BY <2>1, <2>2
    <3>2. PICK o \in Threads : Arriving(o) /\ job[o].id = id
      BY <1>a, <3>1
    <3>3. o # th
      BY <3>1, <3>2 DEF own
    <3>4. QED
      BY <2>1, <3>2, <3>3 DEF Arriving
  <2>6. sealed' => \A a, b \in Made' : hooks'[a].late /\ hooks'[b].late => a = b
    BY <1>a, <2>1, <2>2
  <2>7. sealed' /\ job'["game"].at = "create" => \A id \in Made' : ~hooks'[id].late
    BY <1>a, <1>c, <2>1, <2>2
  <2>8. QED
    BY <2>4, <2>5, <2>6, <2>7
<1>5. CASE RetireNext("supervisor")
  <2>1. /\ UNCHANGED <<m_hooks, m_mid_hooks, sealed, retire_started, job>>
        /\ Made' = Made /\ \A h \in Made : hooks'[h].late = hooks[h].late
    <3>1. CASE disable(Adopted[walked + 1])
      BY <1>5, <3>1, Walks, Disabled DEF registry, Made
    <3>2. CASE UNCHANGED patches
      BY <1>5, <3>2, Walks DEF registry, patches, Made
    <3>3. QED
      BY <1>5, <3>1, <3>2, Walks
  <2>2. /\ \A id : Owned(id)' <=> Owned(id)
        /\ \A th \in Threads : Arriving(th)' <=> Arriving(th)
    BY <2>1 DEF Owned, Arriving
  <2>3. QED
    BY <1>a, <2>1, <2>2
<1>6. QED
  BY <1>2, <1>3, <1>4, <1>5, PatchSteps

-----------------------------------------------------------------------------
(* The walk of the retirement *)

LEMMA RetireStep ==
  ASSUME IInv, Next
  PROVE  RetireInv'
<1>0. /\ m_hooks \in Seq(Nat) /\ m_mid_hooks \in Seq(Nat) /\ Len(m_hooks) \in Nat /\ Len(m_mid_hooks) \in Nat
      /\ walked \in Nat
  BY Fields, Bounds
<1>a. /\ mux # Nobody => walked <= Len(m_hooks) + Len(m_mid_hooks)
      /\ mux # Nobody /\ retire_ok => \A i \in 1 .. walked : ~hooks[Adopted[i]].enabled
      /\ retire_started /\ mux = Nobody /\ retire_ok => \A id \in Made : ~hooks[id].late => ~hooks[id].enabled
  BY DEF IInv, RetireInv
<1>b. /\ Len(Adopted) = Len(m_hooks) + Len(m_mid_hooks)
      /\ \A i \in 1 .. Len(Adopted) : Adopted[i] \in Made
  <2>1. Len(Adopted) = Len(m_hooks) + Len(m_mid_hooks)
    BY <1>0, ConcatProperties DEF Adopted
  <2>2. QED
    BY <2>1, AdoptedIsMade DEF IInv
<1>1. CASE Still /\ UNCHANGED <<retire_started, walked, retire_ok, mux>>
  BY <1>1 DEF Still, IInv, RetireInv, Adopted, Made
<1>2. CASE Still /\ Retire /\ ~RetireNext("supervisor")
  <2>1. UNCHANGED <<hooks, m_hooks, m_mid_hooks>> /\ Adopted' = Adopted /\ Made' = Made
    BY <1>2 DEF Still, Adopted, Made
  <2>2. CASE retire("supervisor")
    <3>1. mux' = "supervisor" /\ walked' = 0
      BY <2>2 DEF retire
    <3>2. mux' # Nobody /\ 1 .. walked' = {}
      BY <3>1 DEF Nobody
    <3>3. QED
      BY <1>0, <2>1, <3>1, <3>2 DEF RetireInv
  <2>3. CASE RetireReturn("supervisor")
    <3>1. mux = "supervisor" /\ walked = Len(Adopted) /\ mux' = Nobody /\ retire_ok' = retire_ok
      BY <2>3 DEF RetireReturn, retirement
    <3>2. mux # Nobody
      BY <3>1 DEF Nobody
    <3>3. ASSUME NEW id \in Made, ~hooks[id].late
          PROVE  \E i \in 1 .. Len(Adopted) : Adopted[i] = id
      <4>1. \/ \E i \in 1 .. Len(m_hooks) : m_hooks[i] = id
            \/ \E i \in 1 .. Len(m_mid_hooks) : m_mid_hooks[i] = id
        BY <3>3 DEF IInv, LateInv
      <4>2. \A i \in 1 .. Len(m_hooks) + Len(m_mid_hooks) :
               Adopted[i] = IF i <= Len(m_hooks) THEN m_hooks[i] ELSE m_mid_hooks[i - Len(m_hooks)]
        BY <1>0, ConcatProperties DEF Adopted
      <4>3. CASE \E i \in 1 .. Len(m_hooks) : m_hooks[i] = id
        <5>1. PICK i \in 1 .. Len(m_hooks) : m_hooks[i] = id
          BY <4>3
        <5>2. i \in 1 .. Len(m_hooks) + Len(m_mid_hooks) /\ i <= Len(m_hooks)
          BY <1>0
        <5>3. QED
          BY <1>b, <4>2, <5>1, <5>2
      <4>4. CASE \E i \in 1 .. Len(m_mid_hooks) : m_mid_hooks[i] = id
        <5>1. PICK i \in 1 .. Len(m_mid_hooks) : m_mid_hooks[i] = id
          BY <4>4
        <5>2. /\ Len(m_hooks) + i \in 1 .. Len(m_hooks) + Len(m_mid_hooks) /\ ~(Len(m_hooks) + i <= Len(m_hooks))
              /\ (Len(m_hooks) + i) - Len(m_hooks) = i
          BY <1>0
        <5>3. Adopted[Len(m_hooks) + i] = id
          BY <4>2, <5>1, <5>2
        <5>4. QED
          BY <1>b, <5>2, <5>3
      <4>5. QED
        BY <4>1, <4>3, <4>4
    <3>4. retire_ok => \A id \in Made : ~hooks[id].late => ~hooks[id].enabled
      BY <1>a, <3>1, <3>2, <3>3
    <3>5. QED
      BY <2>1, <3>1, <3>4 DEF RetireInv
  <2>4. QED
    BY <1>2, <2>2, <2>3 DEF Retire
<1>3. ASSUME NEW th \in Threads, create(th), hooks' # hooks
      PROVE  RetireInv'
  <2>1. /\ UNCHANGED <<m_hooks, m_mid_hooks, retire_started, walked, retire_ok, mux>>
        /\ \A h \in Made : hooks'[h] = hooks[h]
        /\ Made' = Made \cup {Len(hooks) + 1} /\ hooks'[Len(hooks) + 1].late
    BY <1>3, Grown DEF registry, retirement
  <2>2. Adopted' = Adopted
    BY <2>1 DEF Adopted
  <2>3. mux # Nobody => \A i \in 1 .. walked : Adopted[i] \in Made
    BY <1>0, <1>a, <1>b
  <2>4. mux # Nobody /\ retire_ok => \A i \in 1 .. walked : ~hooks'[Adopted[i]].enabled
    BY <1>a, <2>1, <2>3
  <2>5. retire_started /\ mux = Nobody /\ retire_ok => \A id \in Made' : ~hooks'[id].late => ~hooks'[id].enabled
    BY <1>a, <2>1
  <2>6. QED
    BY <1>a, <2>1, <2>2, <2>4, <2>5 DEF RetireInv
<1>4. ASSUME NEW th \in Threads, adopt(th)
      PROVE  RetireInv'
  <2>1. /\ mux = Nobody /\ UNCHANGED <<retire_started, walked, retire_ok, mux>> /\ Len(hooks') = Len(hooks)
        /\ \A h \in Made : /\ hooks'[h].late <=> (hooks[h].late /\ (h # job[th].id \/ retire_started))
                           /\ hooks'[h].enabled => hooks[h].enabled
    BY <1>4, Adopts DEF retirement
  <2>2. Made' = Made
    BY <2>1 DEF Made
  <2>3. retire_started /\ retire_ok => \A id \in Made : ~hooks'[id].late => ~hooks'[id].enabled
    BY <1>a, <2>1
  <2>4. QED
    BY <2>1, <2>2, <2>3 DEF RetireInv
<1>5. CASE RetireNext("supervisor")
  <2>1. /\ UNCHANGED <<m_hooks, m_mid_hooks, retire_started, mux>> /\ mux = "supervisor"
        /\ walked < Len(m_hooks) + Len(m_mid_hooks) /\ walked' = walked + 1 /\ Adopted[walked + 1] \in Made
    BY <1>5, Walks DEF registry
  <2>2. Adopted' = Adopted /\ mux # Nobody
    BY <2>1 DEF Adopted, Nobody
  <2>3. \A i \in 1 .. walked : Adopted[i] \in Made
    BY <1>0, <1>a, <1>b, <2>2
  <2>4. /\ retire_ok' => retire_ok
        /\ \A h \in Made : hooks'[h].enabled => hooks[h].enabled
        /\ retire_ok' => ~hooks'[Adopted[walked + 1]].enabled
    <3>1. CASE disable(Adopted[walked + 1]) /\ retire_ok' = retire_ok
      BY <2>1, <3>1, Disabled
    <3>2. CASE /\ UNCHANGED patches
               /\ retire_ok' = FALSE \/ (retire_ok' = retire_ok /\ ~hooks[Adopted[walked + 1]].enabled)
      BY <3>2 DEF patches
    <3>3. QED
      BY <1>5, <3>1, <3>2, Walks
  <2>5. retire_ok' => \A i \in 1 .. walked' : ~hooks'[Adopted[i]].enabled
    <3>1. SUFFICES ASSUME retire_ok', NEW i \in 1 .. walked + 1
                   PROVE  ~hooks'[Adopted[i]].enabled
      BY <2>1
    <3>2. CASE i = walked + 1
      BY <2>4, <3>1, <3>2
    <3>3. CASE i # walked + 1
      <4>1. i \in 1 .. walked
        BY <1>0, <3>3
      <4>2. QED
        BY <1>a, <2>2, <2>3, <2>4, <3>1, <4>1
    <3>4. QED
      BY <3>2, <3>3
  <2>6. QED
    BY <1>0, <2>1, <2>2, <2>5 DEF RetireInv
<1>6. CASE Still /\ RetireNext("supervisor")
  BY <1>5, <1>6
<1>7. QED
  BY <1>1, <1>2, <1>3, <1>4, <1>5, PatchSteps, RetirementSteps

-----------------------------------------------------------------------------
(* Types *)

LEMMA DisableTypes ==
  ASSUME IInv, NEW id \in Made, disable(id)
  PROVE  code' \in [Targets -> Ids \cup {Engine}] /\ Len(hooks') <= MaxHooks
<1>1. code' = [code EXCEPT ![hooks[id].target] = hooks[id].saved] /\ Len(hooks') = Len(hooks)
  BY Disabled
<1>2. hooks[id] \in HookRecords /\ code \in [Targets -> Ids \cup {Engine}] /\ Len(hooks) <= MaxHooks
  BY Fields
<1>3. hooks[id].saved \in Ids \cup {Engine}
  BY <1>2 DEF HookRecords
<1>4. QED
  BY <1>1, <1>2, <1>3

LEMMA CodeTypes ==
  ASSUME IInv, Next
  PROVE  code' \in [Targets -> Ids \cup {Engine}] /\ Len(hooks') <= MaxHooks
<1>0. code \in [Targets -> Ids \cup {Engine}] /\ Len(hooks) \in Nat /\ Len(hooks) <= MaxHooks
  BY Fields
<1>1. CASE UNCHANGED <<code, hooks>>
  BY <1>0, <1>1
<1>2. ASSUME NEW th \in Threads, create(th), hooks' # hooks
      PROVE  code' \in [Targets -> Ids \cup {Engine}] /\ Len(hooks') <= MaxHooks
  <2>1. /\ Len(hooks) < MaxHooks /\ Len(hooks') = Len(hooks) + 1
        /\ code' = [code EXCEPT ![job[th].target] = Len(hooks) + 1]
    BY <1>2, Grown
  <2>2. Len(hooks) + 1 \in Ids
    BY <1>0, <2>1, Bounds DEF Ids
  <2>3. Len(hooks') <= MaxHooks
    BY <1>0, <2>1, Bounds
  <2>4. QED
    BY <1>0, <2>1, <2>2, <2>3
<1>3. ASSUME NEW th \in Threads, adopt(th)
      PROVE  code' \in [Targets -> Ids \cup {Engine}] /\ Len(hooks') <= MaxHooks
  <2>1. job[th].id \in Made /\ Len(hooks') = Len(hooks) /\ (code' = code \/ disable(job[th].id))
    BY <1>3, Adopts
  <2>2. QED
    BY <1>0, <2>1, DisableTypes
<1>4. CASE RetireNext("supervisor")
  <2>1. Adopted[walked + 1] \in Made /\ (disable(Adopted[walked + 1]) \/ UNCHANGED patches)
    BY <1>4, Walks
  <2>2. QED
    BY <1>1, <2>1, DisableTypes DEF patches
<1>5. QED
  BY <1>1, <1>2, <1>3, <1>4, PatchSteps DEF Still

LEMMA HooksTypes ==
  ASSUME IInv, Next
  PROVE  HooksTypeOK'
<1>0. ListInv'
  BY ListStep
<1>1. code' \in [Targets -> Ids \cup {Engine}] /\ Len(hooks') <= MaxHooks
  BY CodeTypes
<1>2. \A id \in DOMAIN hooks' :
        hooks'[id] \in [target : Targets, saved : Ids \cup {Engine}, kind : Kinds, enabled : BOOLEAN, late : BOOLEAN]
  <2>1. hooks' \in Seq(HookRecords)
    BY <1>0 DEF ListInv
  <2>2. \A id \in DOMAIN hooks' : hooks'[id] \in HookRecords
    BY <2>1
  <2>3. QED
    BY <2>2 DEF HookRecords
<1>3. /\ \A i \in DOMAIN m_hooks' : m_hooks'[i] \in DOMAIN hooks'
      /\ \A i \in DOMAIN m_mid_hooks' : m_mid_hooks'[i] \in DOMAIN hooks'
  BY <1>0 DEF ListInv, Made
<1>4. m_targets' \subseteq Targets
  <2>1. m_targets \subseteq Targets
    BY Fields
  <2>2. ASSUME NEW th \in Threads, InstallNext(th) \/ Installing(th) \/ InstallReturns(th)
        PROVE  m_targets' \subseteq Targets
    BY <2>1, <2>2, Refusals, Created, Records, Adopts, Returns DEF Installing, registry
  <2>3. CASE UNCHANGED hookVars \/ Seal \/ Retire
    BY <2>1, <2>3 DEF hookVars, registry, Seal, seal, Retire, retire, RetireNext, RetireReturn
  <2>4. QED
    BY <2>2, <2>3, HookSteps
<1>5. sealed' \in BOOLEAN
  <2>1. sealed \in BOOLEAN
    BY DEF IInv, TypeOK, HooksTypeOK
  <2>2. QED
    BY <2>1, SealSteps DEF Seal, seal
<1>6. /\ retire_started' \in BOOLEAN /\ retire_ok' \in BOOLEAN /\ mux' \in Threads \cup {Nobody}
  <2>1. /\ retire_started \in BOOLEAN /\ retire_ok \in BOOLEAN /\ mux \in Threads \cup {Nobody} /\ "supervisor" \in Threads
    BY Bounds DEF IInv, TypeOK, HooksTypeOK
  <2>2. CASE Retire
    BY <2>1, <2>2 DEF Retire, retire, RetireNext, RetireReturn, retirement
  <2>3. QED
    BY <2>1, <2>2, RetirementSteps
<1>7. walked' \in 0 .. MaxHooks
  <2>1. walked \in 0 .. MaxHooks /\ Len(m_hooks) \in Nat /\ Len(m_mid_hooks) \in Nat /\ Len(hooks) <= MaxHooks /\ Len(hooks) \in Nat
    BY Fields
  <2>2. CASE RetireNext("supervisor")
    <3>1. walked < Len(m_hooks) + Len(m_mid_hooks) /\ walked' = walked + 1
      BY <2>2, Walks
    <3>2. Len(m_hooks) + Len(m_mid_hooks) <= Len(hooks)
      <4>1. Len(m_hooks) + Len(m_mid_hooks) + Pending("supervisor") + Pending("game") = Len(hooks)
        BY DEF IInv, ListInv
      <4>2. QED
        BY <2>1, <4>1, Pendings
    <3>3. QED
      BY <2>1, <3>1, <3>2, Bounds
  <2>3. CASE Retire /\ ~RetireNext("supervisor")
    BY <2>1, <2>3, Bounds DEF Retire, retire, RetireReturn, retirement
  <2>4. QED
    BY <2>1, <2>2, <2>3, RetirementSteps
<1>8. job' \in [Threads -> Jobs]
  BY BatchOfStep
<1>9. {sealed', retire_started', retire_ok'} \subseteq BOOLEAN
  BY <1>5, <1>6
<1>10. QED
  BY <1>1, <1>2, <1>3, <1>4, <1>6, <1>7, <1>8, <1>9 DEF HooksTypeOK, Jobs

LEMMA ServerTypes ==
  ASSUME ServerTypeOK, server_loop \/ Connect \/ start \/ StartFails \/ stop \/ StopStep \/ UNCHANGED serverVars
  PROVE  ServerTypeOK'
<1>0. /\ g_running \in BOOLEAN /\ g_unload \in BOOLEAN /\ g_listen \in BOOLEAN /\ joinable \in BOOLEAN
      /\ backlog \in Seq(Requests) /\ clients \in 0 .. MaxClients /\ request \in Requests
  BY DEF ServerTypeOK
<1>1. backlog' \in Seq(Requests)
  <2>1. \/ backlog' = backlog \/ backlog' = <<>> \/ (backlog # <<>> /\ backlog' = Tail(backlog))
        \/ \E r \in Requests : backlog' = Append(backlog, r)
    BY DEF server_loop, Listen, ListenFails, Known, TestRunning, accept, AcceptFails, receive, handle_client, CloseListener,
       ServerEnds, Connect, start, StartFails, stop, StopStep, Look, Poke, Forget, CloseDoomed, join, serverVars, Requests
  <2>2. backlog # <<>> => Tail(backlog) \in Seq(Requests)
    BY <1>0, HeadTailProperties
  <2>3. \A r \in Requests : Append(backlog, r) \in Seq(Requests)
    BY <1>0, AppendProperties
  <2>4. <<>> \in Seq(Requests)
    OBVIOUS
  <2>5. QED
    BY <1>0, <2>1, <2>2, <2>3, <2>4
<1>2. clients' \in 0 .. MaxClients
  <2>1. clients' = clients \/ (clients < MaxClients /\ clients' = clients + 1)
    BY DEF server_loop, Listen, ListenFails, Known, TestRunning, accept, AcceptFails, receive, handle_client, CloseListener,
       ServerEnds, Connect, start, StartFails, stop, StopStep, Look, Poke, Forget, CloseDoomed, join, serverVars, serverThread
  <2>2. QED
    BY <1>0, <2>1, Bounds
<1>3. request' \in Requests
  <2>1. request' = request \/ (backlog # <<>> /\ request' = Head(backlog))
    BY DEF server_loop, Listen, ListenFails, Known, TestRunning, accept, AcceptFails, receive, handle_client, CloseListener,
       ServerEnds, Connect, start, StartFails, stop, StopStep, Look, Poke, Forget, CloseDoomed, join, serverVars, serverThread
  <2>2. QED
    BY <1>0, <2>1, HeadTailProperties
<1>4. /\ g_running' \in {g_running, TRUE, FALSE} /\ g_listen' \in {g_listen, TRUE, FALSE} /\ joinable' \in {joinable, TRUE, FALSE}
      /\ g_unload' \in {g_unload, g_unload \/ request = "unload"}
  BY DEF server_loop, Listen, ListenFails, Known, TestRunning, accept, AcceptFails, receive, handle_client, CloseListener,
     ServerEnds, Connect, start, StartFails, stop, StopStep, Look, Poke, Forget, CloseDoomed, join, serverVars
<1>5. socket' = socket \/ socket' \in {"listening", "closed"}
  BY DEF server_loop, Listen, ListenFails, Known, TestRunning, accept, AcceptFails, receive, handle_client, CloseListener,
     ServerEnds, Connect, start, StartFails, stop, StopStep, Look, Poke, Forget, CloseDoomed, join, serverVars
<1>6. spc' = spc \/ spc' \in ServerSteps
  BY DEF server_loop, Listen, ListenFails, Known, TestRunning, accept, AcceptFails, receive, handle_client, CloseListener,
     ServerEnds, Connect, start, StartFails, stop, StopStep, Look, Poke, Forget, CloseDoomed, join, serverVars, serverThread,
     SStep, ServerSteps
<1>7. stopping' = stopping \/ stopping' \in {"look", "poke", "forget", "closing", "join", "stopped"}
  BY DEF server_loop, Listen, ListenFails, Known, TestRunning, accept, AcceptFails, receive, handle_client, CloseListener,
     ServerEnds, Connect, start, StartFails, stop, StopStep, Look, Poke, Forget, CloseDoomed, join, serverVars, Stopping
<1>8. {g_running', g_unload', g_listen', joinable'} \subseteq BOOLEAN
  <2>1. g_running' \in BOOLEAN /\ g_listen' \in BOOLEAN /\ joinable' \in BOOLEAN
    BY <1>0, <1>4
  <2>2. CASE g_unload' = g_unload
    BY <1>0, <2>1, <2>2
  <2>3. CASE g_unload' = (g_unload \/ request = "unload")
    <3>1. g_unload' \in BOOLEAN
      BY <2>3, Zenon
    <3>2. QED
      BY <2>1, <3>1
  <2>4. QED
    BY <1>4, <2>2, <2>3, Zenon
<1>9. /\ socket' \in {"none", "listening", "closed"} /\ spc' \in ServerSteps
      /\ stopping' \in {"no", "look", "poke", "forget", "closing", "join", "stopped"}
  BY <1>5, <1>6, <1>7 DEF ServerTypeOK
<1>10. QED
  BY <1>1, <1>2, <1>3, <1>8, <1>9 DEF ServerTypeOK

LEMMA ServerDoes ==
  ASSUME Next
  PROVE  server_loop \/ Connect \/ start \/ StartFails \/ stop \/ StopStep \/ UNCHANGED serverVars
<1>1. CASE Supervisor
  BY <1>1 DEF Supervisor, install_bootstrap_gate, AwaitHit, Release, AwaitClient, HookFrame, Register, InstallFilter,
     on_initialize, StartServer, Poll, StopServer, Seal, RemoveFilter, Retire, Check, prove_quiescent, Install
<1>2. CASE Game
  BY <1>2 DEF Game, ReachEntry, gate_veh, LoadGameserver, frame_tick_detour, reassert, Claim, ResourceWatch, FireRedirect,
     on_frame, find, original, game, Install
<1>3. CASE Server
  BY <1>3 DEF Server
<1>4. QED
  BY <1>1, <1>2, <1>3 DEF Next

LEMMA StepTypes ==
  ASSUME IInv, Next
  PROVE  step' \in SupervisorSteps /\ attempts' \in 0 .. MaxAttempts
<1>0. step \in SupervisorSteps /\ attempts \in 0 .. MaxAttempts
  BY DEF IInv, TypeOK
<1>1. CASE prove_quiescent
  <2>1. step = "quiesce" /\ step' \in {"unmapped", "dormant", step}
        /\ (attempts' = attempts \/ attempts' = attempts + 1)
    BY <1>1 DEF prove_quiescent
  <2>2. attempts < MaxAttempts
    BY <2>1 DEF IInv, StepInv, Over
  <2>3. attempts' \in 0 .. MaxAttempts
    BY <1>0, <2>1, <2>2, Bounds
  <2>4. QED
    BY <1>0, <2>1, <2>3 DEF SupervisorSteps, Over
<1>2. CASE Supervisor /\ ~prove_quiescent
  <2>1. attempts' = attempts
    BY <1>2 DEF Supervisor, install_bootstrap_gate, AwaitHit, Release, AwaitClient, HookFrame, Register, InstallFilter,
       on_initialize, StartServer, Poll, StopServer, Seal, RemoveFilter, Retire, Check, Install, Quiet
  <2>2. \/ step' = step
        \/ step' \in {"await_hit", "release", "await_client", "frame", "register", "filter", "mods", "start", "poll",
                      "stop", "seal", "remove", "retire", "check", "quiesce", "dormant"}
    BY <1>2 DEF Supervisor, install_bootstrap_gate, AwaitHit, Release, AwaitClient, HookFrame, Register, InstallFilter,
       on_initialize, StartServer, Poll, StopServer, Seal, RemoveFilter, Retire, Check, Install, To
  <2>3. QED
    BY <1>0, <2>1, <2>2 DEF SupervisorSteps, Over
<1>3. CASE Game \/ Server
  <2>1. step' = step /\ attempts' = attempts
    BY <1>3 DEF Game, ReachEntry, gate_veh, LoadGameserver, frame_tick_detour, reassert, Claim, ResourceWatch,
       FireRedirect, on_frame, find, original, game, Install, Server
  <2>2. QED
    BY <1>0, <2>1
<1>4. QED
  BY <1>1, <1>2, <1>3 DEF Next

GameSteps == {"entry", "parked", "engine", "reassert", "claim", "watch", "fire", "find", "call"}

LEMMA GameTypes ==
  ASSUME IInv, Next
  PROVE  gpc' \in GameSteps /\ gate' \in {"open", "armed", "released"} /\ filter' \in {"engine", "ours"}
<1>0. gpc \in GameSteps /\ gate \in {"open", "armed", "released"} /\ filter \in {"engine", "ours"}
  BY DEF IInv, TypeOK, GameSteps
<1>1. CASE Supervisor
  <2>1. gpc' = gpc
    BY <1>1 DEF Supervisor, install_bootstrap_gate, AwaitHit, Release, AwaitClient, HookFrame, Register, InstallFilter,
       on_initialize, StartServer, Poll, StopServer, Seal, RemoveFilter, Retire, Check, prove_quiescent, Install, Quiet
  <2>2. gate' = gate \/ gate' \in {"open", "armed", "released"}
    BY <1>1 DEF Supervisor, install_bootstrap_gate, AwaitHit, Release, AwaitClient, HookFrame, Register, InstallFilter,
       on_initialize, StartServer, Poll, StopServer, Seal, RemoveFilter, Retire, Check, prove_quiescent, Install, Released
  <2>3. filter' = filter \/ filter' \in {"engine", "ours"}
    BY <1>1 DEF Supervisor, install_bootstrap_gate, AwaitHit, Release, AwaitClient, HookFrame, Register, InstallFilter,
       on_initialize, StartServer, Poll, StopServer, Seal, RemoveFilter, Retire, Check, prove_quiescent, Install, crash
  <2>4. QED
    BY <1>0, <2>1, <2>2, <2>3
<1>2. CASE Game
  <2>1. gpc' = gpc \/ gpc' \in {"parked", "engine", "reassert", "claim", "watch", "fire", "find", "call"}
    BY <1>2 DEF Game, ReachEntry, gate_veh, LoadGameserver, frame_tick_detour, reassert, Claim, ResourceWatch,
       FireRedirect, on_frame, find, original, Install, GStep
  <2>2. gate' = gate \/ gate' = "open"
    BY <1>2 DEF Game, ReachEntry, gate_veh, LoadGameserver, frame_tick_detour, reassert, Claim, ResourceWatch,
       FireRedirect, on_frame, find, original, Install
  <2>3. filter' = filter \/ filter' = "ours"
    BY <1>2 DEF Game, ReachEntry, gate_veh, LoadGameserver, frame_tick_detour, reassert, Claim, ResourceWatch,
       FireRedirect, on_frame, find, original, Install, crash
  <2>4. QED
    BY <1>0, <2>1, <2>2, <2>3 DEF GameSteps
<1>3. CASE Server
  BY <1>0, <1>3 DEF Server, crash
<1>4. QED
  BY <1>1, <1>2, <1>3 DEF Next

LEMMA FlagTypes ==
  ASSUME IInv, Next
  PROVE  {gameserver', registered', fire_hooked', watch_hooked', installed', overtaken'} \subseteq BOOLEAN
<1>0. /\ gameserver \in BOOLEAN /\ registered \in BOOLEAN /\ installed \in BOOLEAN /\ overtaken \in BOOLEAN
      /\ fire_hooked \in BOOLEAN /\ watch_hooked \in BOOLEAN
  BY DEF IInv, TypeOK
<1>1. gameserver' = gameserver \/ gameserver' = TRUE
  <2>1. CASE Supervisor
    BY <2>1 DEF Supervisor, install_bootstrap_gate, AwaitHit, Release, AwaitClient, HookFrame, Register, InstallFilter,
       on_initialize, StartServer, Poll, StopServer, Seal, RemoveFilter, Retire, Check, prove_quiescent, Install
  <2>2. CASE Game
    BY <2>2 DEF Game, ReachEntry, gate_veh, LoadGameserver, frame_tick_detour, reassert, Claim, ResourceWatch,
       FireRedirect, on_frame, find, original, Install
  <2>3. CASE Server
    BY <2>3 DEF Server
  <2>4. QED
    BY <2>1, <2>2, <2>3 DEF Next
<1>2. /\ registered' = registered \/ registered' = TRUE
      /\ {fire_hooked', watch_hooked'} \subseteq BOOLEAN
  <2>1. ASSUME NEW th \in Threads, Install(th)
        PROVE  registered' = registered /\ {fire_hooked', watch_hooked'} \subseteq BOOLEAN
    <3>1. CASE InstallReturns(th)
      BY <3>1, Returns
    <3>2. CASE ~InstallReturns(th)
      <4>1. registered' = registered /\ fire_hooked' = fire_hooked /\ watch_hooked' = watch_hooked
        BY <2>1, <3>2 DEF Install, InstallNext, ScanMisses, mods
      <4>2. QED
        BY <1>0, <4>1
    <3>3. QED
      BY <3>1, <3>2
  <2>2. CASE ~\E th \in Threads : Install(th)
    <3>1. /\ registered' = registered \/ registered' = TRUE
          /\ fire_hooked' = fire_hooked /\ watch_hooked' = watch_hooked
      <4>0. ~Install("supervisor") /\ ~Install("game")
        BY <2>2, Bounds
      <4>1. CASE Supervisor
        BY <4>0, <4>1 DEF Supervisor, install_bootstrap_gate, AwaitHit, Release, AwaitClient, HookFrame, Register, InstallFilter,
           on_initialize, StartServer, Poll, StopServer, Seal, RemoveFilter, Retire, Check, prove_quiescent, mods
      <4>2. CASE Game
        BY <4>0, <4>2 DEF Game, ReachEntry, gate_veh, LoadGameserver, frame_tick_detour, reassert, Claim, ResourceWatch,
           FireRedirect, on_frame, find, original, mods
      <4>3. CASE Server
        BY <4>3 DEF Server, mods
      <4>4. QED
        BY <4>1, <4>2, <4>3 DEF Next
    <3>2. QED
      BY <1>0, <3>1
  <2>3. QED
    BY <2>1, <2>2
<1>3. /\ installed' = installed \/ installed' \in {TRUE, FALSE}
      /\ overtaken' = overtaken \/ overtaken' = (gpc = "claim")
  <2>1. CASE Supervisor
    BY <2>1 DEF Supervisor, install_bootstrap_gate, AwaitHit, Release, AwaitClient, HookFrame, Register, InstallFilter,
       on_initialize, StartServer, Poll, StopServer, Seal, RemoveFilter, Retire, Check, prove_quiescent, Install, crash
  <2>2. CASE Game
    BY <2>2 DEF Game, ReachEntry, gate_veh, LoadGameserver, frame_tick_detour, reassert, Claim, ResourceWatch,
       FireRedirect, on_frame, find, original, Install, crash
  <2>3. CASE Server
    BY <2>3 DEF Server, crash
  <2>4. QED
    BY <2>1, <2>2, <2>3 DEF Next
<1>4. gameserver' \in BOOLEAN /\ registered' \in BOOLEAN /\ installed' \in BOOLEAN
  BY <1>0, <1>1, <1>2, <1>3
<1>5. overtaken' \in BOOLEAN
  <2>1. CASE overtaken' = overtaken
    BY <1>0, <2>1
  <2>2. CASE overtaken' = (gpc = "claim")
    BY <2>2, Zenon
  <2>3. QED
    BY <1>3, <2>1, <2>2, Zenon
<1>6. QED
  BY <1>2, <1>4, <1>5

LEMMA Types ==
  ASSUME IInv, Next
  PROVE  TypeOK'
<1>1. HooksTypeOK'
  BY HooksTypes
<1>2. ServerTypeOK'
  BY ServerTypes, ServerDoes DEF IInv, TypeOK
<1>3. step' \in SupervisorSteps /\ attempts' \in 0 .. MaxAttempts
  BY StepTypes
<1>4. gpc' \in GameSteps /\ gate' \in {"open", "armed", "released"} /\ filter' \in {"engine", "ours"}
  BY GameTypes
<1>5. {gameserver', registered', fire_hooked', watch_hooked', installed', overtaken'} \subseteq BOOLEAN
  BY FlagTypes
<1>6. batch' \in [Threads -> DOMAIN Batch] /\ \A th \in Threads : todo'[th] \in Seq(Targets) /\ Len(todo'[th]) <= 2
  BY BatchOfStep
<1>7. QED
  BY <1>1, <1>2, <1>3, <1>4, <1>5, <1>6 DEF TypeOK, GameSteps

-----------------------------------------------------------------------------
(* The invariant and what it implies *)

LEMMA InitInv ==
  ASSUME Init
  PROVE  IInv
<1>0. HooksInit /\ ServerInit
  BY DEF Init
<1>1. TypeOK
  <2>1. HooksTypeOK
    <3>1. NoJob \in Jobs /\ Len(hooks) = 0 /\ DOMAIN hooks = {} /\ DOMAIN m_hooks = {} /\ DOMAIN m_mid_hooks = {}
      BY <1>0 DEF HooksInit, NoJob, Jobs, Kinds
    <3>2. code \in [Targets -> Ids \cup {Engine}] /\ job \in [Threads -> Jobs] /\ m_targets \subseteq Targets
      BY <1>0, <3>1 DEF HooksInit
    <3>3. Len(hooks) <= MaxHooks /\ walked \in 0 .. MaxHooks /\ mux \in Threads \cup {Nobody}
      BY <1>0, <3>1, Bounds DEF HooksInit
    <3>4. {sealed, retire_started, retire_ok} \subseteq BOOLEAN
      BY <1>0 DEF HooksInit
    <3>5. QED
      BY <3>1, <3>2, <3>3, <3>4 DEF HooksTypeOK, Jobs
  <2>2. ServerTypeOK
    <3>1. {g_running, g_unload, g_listen, joinable} \subseteq BOOLEAN
      BY <1>0 DEF ServerInit
    <3>2. backlog \in Seq(Requests) /\ clients \in 0 .. MaxClients
      BY <1>0, Bounds DEF ServerInit
    <3>3. /\ socket \in {"none", "listening", "closed"} /\ spc \in ServerSteps /\ request \in Requests
          /\ stopping \in {"no", "look", "poke", "forget", "closing", "join", "stopped"}
      BY <1>0 DEF ServerInit, ServerSteps, Requests
    <3>4. QED
      BY <3>1, <3>2, <3>3 DEF ServerTypeOK
  <2>3. step \in SupervisorSteps /\ attempts \in 0 .. MaxAttempts
    BY Bounds DEF Init, SupervisorSteps
  <2>4. gpc \in GameSteps /\ gate \in {"open", "armed", "released"} /\ filter \in {"engine", "ours"}
    BY DEF Init, GameSteps
  <2>5. {gameserver, registered, fire_hooked, watch_hooked, installed, overtaken} \subseteq BOOLEAN
    <3>1. gameserver \in BOOLEAN
      <4>1. CASE gameserver = (gpc = "engine")
        BY <4>1, Zenon
      <4>2. CASE gameserver = FALSE
        BY <4>2
      <4>3. QED
        BY <4>1, <4>2, Zenon DEF Init
    <3>2. QED
      BY <3>1 DEF Init
  <2>6. batch \in [Threads -> DOMAIN Batch] /\ \A th \in Threads : todo[th] \in Seq(Targets) /\ Len(todo[th]) <= 2
    <3>1. "none" \in DOMAIN Batch
      BY DEF Batch
    <3>2. <<>> \in Seq(Targets) /\ Len(<<>>) <= 2
      OBVIOUS
    <3>3. QED
      BY <3>1, <3>2 DEF Init
  <2>7. QED
    BY <2>1, <2>2, <2>3, <2>4, <2>5, <2>6 DEF TypeOK, GameSteps
<1>2. ListInv
  <2>1. \A th \in Threads : job[th].at = "idle"
    BY <1>0 DEF HooksInit, NoJob
  <2>2. Pending("supervisor") = 0 /\ Pending("game") = 0
    BY <2>1, Bounds DEF Pending
  <2>3. hooks = <<>> /\ m_hooks = <<>> /\ m_mid_hooks = <<>>
    BY <1>0 DEF HooksInit
  <2>4. hooks \in Seq(HookRecords) /\ m_hooks \in Seq(Nat) /\ m_mid_hooks \in Seq(Nat)
    BY <2>3
  <2>5. Len(hooks) = 0 /\ Len(m_hooks) = 0 /\ Len(m_mid_hooks) = 0
    BY <2>3
  <2>6. /\ \A i \in 1 .. Len(m_hooks) : m_hooks[i] \in Made
        /\ \A i \in 1 .. Len(m_mid_hooks) : m_mid_hooks[i] \in Made
    BY <2>5
  <2>7. Len(m_hooks) + Len(m_mid_hooks) + Pending("supervisor") + Pending("game") = Len(hooks)
    BY <2>2, <2>5
  <2>8. \A th \in Threads : job[th].at \in {"record", "adopt"} => job[th].id \in Made
    BY <2>1
  <2>9. QED
    BY <2>4, <2>6, <2>7, <2>8 DEF ListInv
<1>3. BatchInv
  <2>1. \A th \in Threads : job[th].at = "idle"
    BY <1>0 DEF HooksInit, NoJob
  <2>2. todo = [th \in Threads |-> <<>>] /\ <<>> \in Seq(Targets)
    BY DEF Init
  <2>3. todo \in [Threads -> Seq(Targets)] /\ \A th \in Threads : todo[th] = <<>>
    BY <2>2
  <2>4. QED
    BY <2>1, <2>3, Bounds DEF BatchInv
<1>4. Made = {}
  BY <1>0 DEF HooksInit, Made
<1>5. CodeInv
  BY <1>0, <1>4 DEF HooksInit, CodeInv
<1>6. LateInv
  BY <1>0, <1>4 DEF HooksInit, LateInv
<1>7. RetireInv
  BY <1>0, <1>4 DEF HooksInit, RetireInv
<1>8. StepInv
  BY <1>0, Bounds DEF HooksInit, Init, StepInv, Over
<1>9. FilterInv
  BY DEF Init, FilterInv
<1>10. QED
  BY <1>1, <1>2, <1>3, <1>5, <1>6, <1>7, <1>8, <1>9 DEF IInv

LEMMA StutterInv ==
  ASSUME IInv, UNCHANGED vars
  PROVE  IInv'
<1>0. /\ UNCHANGED <<code, hooks, m_hooks, m_mid_hooks, m_targets, sealed, retire_started, walked, retire_ok, mux, job>>
      /\ UNCHANGED <<step, attempts, gpc, gate, gameserver, registered, fire_hooked, watch_hooked, todo, batch>>
      /\ UNCHANGED <<installed, filter, overtaken>> /\ UNCHANGED serverVars
  BY DEF vars, hookVars, patches, registry, retirement, mods, crash
<1>1. TypeOK'
  <2>1. HooksTypeOK'
    BY <1>0 DEF IInv, TypeOK, HooksTypeOK
  <2>2. ServerTypeOK'
    BY <1>0, ServerTypes DEF IInv, TypeOK
  <2>3. QED
    BY <1>0, <2>1, <2>2 DEF IInv, TypeOK
<1>2. ListInv'
  BY <1>0 DEF IInv, ListInv, Made, Pending
<1>3. BatchInv'
  BY <1>0 DEF IInv, BatchInv
<1>4. CodeInv'
  BY <1>0 DEF IInv, CodeInv, Made, Stacked
<1>5. LateInv'
  BY <1>0 DEF IInv, LateInv, Made
<1>6. RetireInv'
  BY <1>0 DEF IInv, RetireInv, Made, Adopted
<1>7. StepInv'
  BY <1>0 DEF IInv, StepInv
<1>8. FilterInv'
  BY <1>0 DEF IInv, FilterInv
<1>9. QED
  BY <1>1, <1>2, <1>3, <1>4, <1>5, <1>6, <1>7, <1>8 DEF IInv

LEMMA NextInv ==
  ASSUME IInv, [Next]_vars
  PROVE  IInv'
<1>1. CASE Next
  BY <1>1, Types, ListStep, BatchStep, CodeStep, LateStep, RetireStep, StepStep, FilterStep DEF IInv
<1>2. CASE UNCHANGED vars
  BY <1>2, StutterInv
<1>3. QED
  BY <1>1, <1>2

\* What a target has once the retirement is over: if its hook is not late, it is disabled.
LEMMA RetiredTargets ==
  ASSUME IInv, step \in {"check", "quiesce", "unmapped"}, retire_ok
  PROVE  /\ \A t \in Targets : code[t] # Engine => code[t] \in Made /\ (Stacked(t) \/ hooks[code[t]].late)
         /\ \A a, b \in Made : hooks[a].late /\ hooks[b].late => a = b
         /\ filter = "ours" => overtaken
<1>1. sealed /\ retire_started /\ mux = Nobody
  BY DEF IInv, StepInv
<1>2. \A id \in Made : ~hooks[id].late => ~hooks[id].enabled
  BY <1>1 DEF IInv, RetireInv
<1>3. \A t \in Targets : code[t] # Engine => code[t] \in Made /\ (Stacked(t) \/ hooks[code[t]].late)
  BY <1>2 DEF IInv, CodeInv
<1>4. \A a, b \in Made : hooks[a].late /\ hooks[b].late => a = b
  BY <1>1 DEF IInv, LateInv
<1>5. filter = "ours" => overtaken
  BY DEF IInv, FilterInv
<1>6. QED
  BY <1>3, <1>4, <1>5

LEMMA NothingLeft ==
  ASSUME IInv
  PROVE  RetiredForGood
<1>1. SUFFICES ASSUME step \in {"check", "quiesce", "unmapped"}, retire_ok
               PROVE  /\ \E straggler \in Ids :
                           \A t \in Targets : code[t] # Engine =>
                              Stacked(t) \/ (code[t] = straggler /\ hooks[straggler].late)
                      /\ filter = "ours" => overtaken
  BY DEF RetiredForGood
<1>2. /\ \A t \in Targets : code[t] # Engine => code[t] \in Made /\ (Stacked(t) \/ hooks[code[t]].late)
      /\ \A a, b \in Made : hooks[a].late /\ hooks[b].late => a = b
      /\ filter = "ours" => overtaken
  BY <1>1, RetiredTargets
<1>3. Made \subseteq Ids /\ 1 \in Ids
  <2>1. Len(hooks) \in Nat /\ Len(hooks) <= MaxHooks
    BY Fields
  <2>2. QED
    BY <2>1, Bounds DEF Made, Ids
<1>4. CASE \E id \in Made : hooks[id].late
  <2>1. PICK straggler \in Made : hooks[straggler].late
    BY <1>4
  <2>2. \A t \in Targets : code[t] # Engine => Stacked(t) \/ (code[t] = straggler /\ hooks[straggler].late)
    BY <1>2, <2>1
  <2>3. straggler \in Ids
    BY <1>3, <2>1
  <2>4. QED
    BY <1>2, <2>2, <2>3
<1>5. CASE ~\E id \in Made : hooks[id].late
  <2>1. \A t \in Targets : code[t] # Engine => Stacked(t)
    BY <1>2, <1>5
  <2>2. QED
    BY <1>2, <1>3, <2>1
<1>6. QED
  BY <1>4, <1>5

\* The inductive invariant holds in every state of every behaviour.
THEOREM Invariance == Spec => []IInv
  BY InitInv, NextInv, PTL DEF Spec

\* The registry, the command server, the supervisor and the game's thread keep their types.
THEOREM TypeCorrect == Spec => []TypeOK
<1>1. IInv => TypeOK
  BY DEF IInv
<1>2. QED
  BY <1>1, Invariance, PTL

\* After a retire() that succeeded every target of the engine has its own bytes, but for one
\* that two threads hooked at once and the one of an install that was past the seal's test;
\* the crash filter is the mod's only if a reassert was overtaken by its removal.
THEOREM Retired == Spec => []RetiredForGood
  BY NothingLeft, Invariance, PTL

-----------------------------------------------------------------------------
(* What the unload rests on: the server's thread and the frame hook *)

Early == {"arm", "await_hit", "release", "await_client"}
Starting == Early \cup {"frame", "register", "filter", "mods", "start"}

\* Nobody asks for an unload but through a server that runs, and then stop() joins its thread.
ServerInv ==
  /\ step \in Starting => spc = "none"
  /\ step \in Starting \cup {"poll"} => stopping = "no"
  /\ step = "stop" => g_unload
  /\ sealed \/ step = "seal" => stopping = "stopped"
  /\ spc \in {"none", "open", "failing"} => ~g_unload
  /\ stopping = "no" =>
       /\ spc \notin {"close", "closed"}
       /\ spc = "ended" => ~g_unload
       /\ spc \notin {"none", "failing", "ended"} => g_running
  /\ stopping # "no" => spc # "none"
  /\ spc # "none" /\ stopping # "stopped" => joinable
  /\ stopping = "stopped" => spc = "ended" /\ ~joinable

\* The frame hook is the first install of the supervisor's thread, and of no other.
IsFrameHook(id) == hooks[id].target = "Update"

FrameBatchInv ==
  /\ step = "frame" => Len(todo["supervisor"]) <= 1
  /\ \A th \in Threads :
       /\ batch[th] = "frame" => th = "supervisor" /\ step = "frame"
       /\ \A i \in 1 .. Len(todo[th]) : todo[th][i] = "Update" => batch[th] = "frame"
       /\ job[th].at # "idle" /\ job[th].target = "Update" => batch[th] = "frame"

\* It is made once, and adopted before the mods are registered.
FrameHookInv ==
  /\ \A a, b \in Made : IsFrameHook(a) /\ IsFrameHook(b) => a = b
  /\ \A id \in Made : IsFrameHook(id) =>
       /\ step \notin Early
       /\ step = "frame" /\ todo["supervisor"] # <<>> => job["supervisor"].at \in {"record", "adopt", "done"}
       /\ hooks[id].late => step = "frame" /\ Arriving("supervisor") /\ job["supervisor"].id = id

(***************************************************************************)
(* When the registry is sealed, and the mods, the filter and the hooks go, *)
(* the server's thread has ended: no request is handled any more.          *)
(***************************************************************************)
ServerIsGone == sealed \/ step = "seal" => spc = "ended" /\ ~joinable

(***************************************************************************)
(* Once retire() has succeeded the engine's update is its own again,       *)
(* whatever is left of the other hooks: Update is hooked once, and adopted *)
(* long before.                                                            *)
(***************************************************************************)
RetiredWell == step \in {"check", "quiesce", "unmapped"} /\ retire_ok
FrameHookIsGone == RetiredWell => code["Update"] = Engine

(***************************************************************************)
(* The frame detour does not take the game's thread into the image any     *)
(* more, once it has left.                                                 *)
(***************************************************************************)
StaysOut == [][RetiredWell /\ gpc = "engine" => gpc' = "engine"]_vars

Later == SupervisorSteps \ (Starting \cup {"poll", "stop", "seal"})

LEMMA ServerOrStep ==
  ASSUME IInv, Next
  PROVE  \/ (server_loop \/ Connect) /\ UNCHANGED <<step, sealed>>
         \/ StartServer /\ sealed' = sealed
         \/ Poll /\ sealed' = sealed
         \/ StopServer /\ sealed' = sealed
         \/ Seal
         \/ /\ UNCHANGED <<serverVars, sealed>>
            /\ step' = step \/ (step \in Starting /\ step' \in Starting) \/ (step \in Later /\ step' \in Later)
<1>1. CASE Server
  <2>1. server_loop \/ Connect
    BY <1>1 DEF Server
  <2>2. step' = step /\ sealed' = sealed
    BY <1>1 DEF Server, hookVars
  <2> QED
    BY <2>1, <2>2
<1>2. CASE Game
  <2>1. UNCHANGED <<serverVars, step>>
    BY <1>2 DEF Game, ReachEntry, gate_veh, LoadGameserver, frame_tick_detour, reassert, Claim, ResourceWatch,
       FireRedirect, on_frame, find, original, Install, game
  <2>2. ~Seal
    BY <2>1 DEF Seal, To
  <2> QED
    BY <2>1, <2>2, SealSteps
<1>3. CASE Supervisor /\ ~StartServer /\ ~Poll /\ ~StopServer /\ ~Seal
  <2>1. UNCHANGED serverVars
    BY <1>3 DEF Supervisor, install_bootstrap_gate, AwaitHit, Release, AwaitClient, HookFrame, Register, InstallFilter,
       on_initialize, RemoveFilter, Retire, Check, prove_quiescent, Install
  <2>2. step' = step \/ (step \in Starting /\ step' \in Starting) \/ (step \in Later /\ step' \in Later)
    <3>1. CASE install_bootstrap_gate \/ AwaitHit \/ Release \/ AwaitClient \/ HookFrame \/ Register \/ InstallFilter
               \/ on_initialize
      BY <3>1 DEF install_bootstrap_gate, AwaitHit, Release, AwaitClient, HookFrame, Register, InstallFilter,
         on_initialize, To, Starting, Early
    <3>2. CASE RemoveFilter \/ Retire \/ Check \/ prove_quiescent
      BY <3>2 DEF RemoveFilter, Retire, Check, prove_quiescent, To, Later, SupervisorSteps, Starting, Early, Over
    <3>3. CASE Install("supervisor")
      BY <3>3 DEF Install
    <3> QED
      BY <1>3, <3>1, <3>2, <3>3 DEF Supervisor
  <2> QED
    BY <1>3, <2>1, <2>2, SealSteps
<1>4. CASE StartServer \/ Poll \/ StopServer
  <2>1. ~Seal
    BY <1>4 DEF StartServer, Poll, StopServer, Seal, To
  <2> QED
    BY <1>4, <2>1, SealSteps
<1> QED
  BY <1>1, <1>2, <1>3, <1>4 DEF Next

LEMMA ServerStep ==
  ASSUME IInv, ServerInv, [Next]_vars
  PROVE  ServerInv'
<1>1. /\ sealed => step \in {"remove", "retire", "check", "quiesce", "unmapped", "dormant"}
      /\ step \in SupervisorSteps /\ g_running \in BOOLEAN /\ g_unload \in BOOLEAN /\ joinable \in BOOLEAN
  BY DEF IInv, StepInv, TypeOK, ServerTypeOK
<1>2. CASE server_loop /\ UNCHANGED <<step, sealed>>
  <2>1. UNCHANGED <<stopping, joinable>>
    BY <1>2 DEF server_loop, Listen, ListenFails, Known, TestRunning, accept, AcceptFails, receive, handle_client,
       CloseListener, ServerEnds
  <2>2. \/ spc = "open" /\ spc' = "known" /\ UNCHANGED <<g_running, g_unload>>
        \/ spc = "open" /\ spc' = "failing" /\ g_running' = FALSE /\ UNCHANGED g_unload
        \/ spc = "test" /\ spc' = (IF g_running THEN "accept" ELSE "close") /\ UNCHANGED <<g_running, g_unload>>
        \/ spc = "accept" /\ spc' = (IF g_running THEN "test" ELSE "close") /\ UNCHANGED <<g_running, g_unload>>
        \/ spc \in {"known", "accept", "receive"} /\ spc' \in {"test", "receive", "handle"} /\ UNCHANGED <<g_running, g_unload>>
        \/ spc = "handle" /\ spc' = "test" /\ UNCHANGED g_running
        \/ spc \in {"close", "closed"} /\ spc' \in {"closed", "ended"} /\ UNCHANGED <<g_running, g_unload>>
        \/ spc = "failing" /\ spc' = "ended" /\ UNCHANGED <<g_running, g_unload>>
    BY <1>2 DEF server_loop, Listen, ListenFails, Known, TestRunning, accept, AcceptFails, receive, handle_client,
       CloseListener, ServerEnds, SStep
  <2>3. spc' = "ended" /\ spc = "closed" => stopping # "no"
    BY DEF ServerInv
  <2>4. spc' = "ended" => spc \in {"closed", "failing"}
    BY <1>2 DEF server_loop, Listen, ListenFails, Known, TestRunning, accept, AcceptFails, receive, handle_client,
       CloseListener, ServerEnds, SStep
  <2>5. g_unload' # g_unload => spc = "handle"
    BY <2>2
  <2>6. spc # "none" /\ spc' \notin {"none", "open"} /\ (spc' = "failing" => spc = "open")
    BY <2>2
  <2>7. spc \in {"none", "open", "failing"} \/ spc' \in {"none", "open", "failing"} => ~g_unload'
    BY <2>2, <2>5, <2>6 DEF ServerInv
  <2>8. stopping' = "no" =>
          /\ spc' \notin {"close", "closed"}
          /\ spc' = "ended" => ~g_unload'
          /\ spc' \notin {"none", "failing", "ended"} => g_running'
    <3>1. SUFFICES ASSUME stopping = "no"
                   PROVE  /\ spc' \notin {"close", "closed"}
                          /\ spc' = "ended" => ~g_unload'
                          /\ spc' \notin {"none", "failing", "ended"} => g_running'
      BY <2>1
    <3>2. /\ spc \notin {"close", "closed"}
          /\ spc \notin {"none", "failing", "ended"} => g_running
      BY <3>1 DEF ServerInv
    <3> QED
      BY <2>2, <2>4, <2>7, <3>2
  <2>9. step \notin Starting /\ stopping # "stopped" /\ joinable
    <3>1. step \notin Starting /\ spc # "ended"
      BY <2>2 DEF ServerInv
    <3> QED
      BY <2>6, <3>1 DEF ServerInv
  <2>10. /\ step \in Starting \cup {"poll"} => stopping = "no"
         /\ step = "stop" => g_unload
         /\ sealed \/ step = "seal" => stopping = "stopped"
         /\ g_unload => g_unload'
    BY <1>2, <2>5 DEF ServerInv, server_loop, Listen, ListenFails, Known, TestRunning, accept, AcceptFails, receive,
       handle_client, CloseListener, ServerEnds
  <2> QED
    BY <1>2, <2>1, <2>6, <2>7, <2>8, <2>9, <2>10 DEF ServerInv
<1>3. CASE Connect /\ UNCHANGED <<step, sealed>>
  BY <1>3 DEF Connect, ServerInv
<1>4. CASE StartServer /\ sealed' = sealed
  <2>1. step = "start" /\ ~sealed /\ stopping = "no" /\ spc = "none" /\ ~g_unload
    BY <1>1, <1>4 DEF StartServer, To, ServerInv, Starting, Early
  <2>2. CASE step' = "poll" /\ start
    <3>1. g_running' = TRUE /\ spc' = "open" /\ joinable' = TRUE /\ UNCHANGED <<g_unload, stopping>>
      BY <2>2 DEF start
    <3> QED
      BY <1>4, <2>1, <2>2, <3>1 DEF ServerInv, Starting, Early
  <2>3. CASE step' = "dormant" /\ StartFails
    BY <1>4, <2>1, <2>3 DEF StartFails, serverVars, ServerInv, Starting, Early
  <2> QED
    BY <1>4, <2>2, <2>3 DEF StartServer, To
<1>5. CASE Poll /\ sealed' = sealed
  BY <1>1, <1>5 DEF Poll, To, serverVars, ServerInv, Starting, Early
<1>6. CASE StopServer /\ sealed' = sealed
  <2>1. step = "stop" /\ ~sealed /\ g_unload
    BY <1>1, <1>6 DEF StopServer, ServerInv
  <2>2. CASE stop /\ step' = step
    <3>1. /\ stopping = "no" /\ stopping' = (IF g_running THEN "look" ELSE "stopped") /\ g_running' = FALSE
          /\ UNCHANGED <<g_unload, spc, joinable>>
      BY <2>2 DEF stop, Stopping, serverThread
    <3>2. g_running /\ spc # "none"
      BY <2>1, <3>1 DEF ServerInv
    <3> QED
      BY <1>6, <2>1, <2>2, <3>1, <3>2 DEF ServerInv, Starting, Early
  <2>3. CASE StopStep /\ step' = step
    <3>1. /\ UNCHANGED <<g_unload, spc, g_running>> /\ stopping \notin {"no", "stopped"}
          /\ \/ stopping' \notin {"no", "stopped"} /\ joinable' = joinable
             \/ stopping' = "stopped" /\ joinable' = FALSE /\ (joinable => spc = "ended")
      BY <2>3 DEF StopStep, Look, Poke, Forget, CloseDoomed, join, Stopping, serverThread
    <3> QED
      BY <1>6, <2>1, <2>3, <3>1 DEF ServerInv, Starting, Early
  <2>4. CASE stopping = "stopped" /\ step' = "seal" /\ UNCHANGED serverVars
    BY <1>6, <2>1, <2>4 DEF ServerInv, Starting, Early, serverVars
  <2> QED
    BY <1>6, <2>2, <2>3, <2>4 DEF StopServer
<1>7. CASE Seal
  BY <1>1, <1>7 DEF Seal, seal, To, serverVars, ServerInv, Starting, Early
<1>8. CASE /\ UNCHANGED <<serverVars, sealed>>
           /\ step' = step \/ (step \in Starting /\ step' \in Starting) \/ (step \in Later /\ step' \in Later)
  BY <1>8 DEF serverVars, ServerInv, Starting, Early, Later
<1>9. CASE UNCHANGED vars
  BY <1>9 DEF vars, hookVars, serverVars, ServerInv
<1>10. CASE Next
  <2> HIDE DEF Later
  <2>1. \/ (server_loop \/ Connect) /\ UNCHANGED <<step, sealed>>
        \/ StartServer /\ sealed' = sealed
        \/ Poll /\ sealed' = sealed
        \/ StopServer /\ sealed' = sealed
        \/ Seal
        \/ /\ UNCHANGED <<serverVars, sealed>>
           /\ step' = step \/ (step \in Starting /\ step' \in Starting) \/ (step \in Later /\ step' \in Later)
    BY <1>10, ServerOrStep
  <2> QED
    BY <1>2, <1>3, <1>4, <1>5, <1>6, <1>7, <1>8, <2>1
<1> QED
  BY <1>9, <1>10

-----------------------------------------------------------------------------
(* The frame hook *)

\* No hook is made or adopted.
Kept ==
  /\ Len(hooks') = Len(hooks)
  /\ \A id \in Made : hooks'[id].target = hooks[id].target /\ hooks'[id].late = hooks[id].late

\* The supervisor does not come to the frame hook, leave it or go back before it.
Elsewhere == step' = step \/ (step # "frame" /\ step' # "frame" /\ (step' \in Early => step \in Early))

LEMMA RetireKeeps ==
  ASSUME IInv, Retire
  PROVE  Kept /\ UNCHANGED <<job, todo, batch>> /\ Elsewhere
<1>1. UNCHANGED <<job, todo, batch>> /\ step = "retire" /\ step' \in {"retire", "check"}
  BY DEF Retire, retire, RetireNext, RetireReturn, mods
<1>2. Kept
  <2>1. CASE hooks' = hooks
    BY <2>1 DEF Kept
  <2>2. CASE RetireNext("supervisor") /\ hooks' # hooks
    <3>1. Adopted[walked + 1] \in Made /\ disable(Adopted[walked + 1])
      BY <2>2, Walks DEF patches
    <3> DEFINE id == Adopted[walked + 1]
    <3>2. id \in Made /\ disable(id)
      BY <3>1
    <3> HIDE DEF id
    <3>3. hooks' = [hooks EXCEPT ![id].enabled = FALSE] /\ hooks \in Seq(HookRecords)
      BY <3>2, Fields DEF disable
    <3>4. \A h \in Made : hooks[h] \in HookRecords
      BY Fields
    <3>5. Len(hooks') = Len(hooks)
      BY <3>3
    <3>6. ASSUME NEW h \in Made
          PROVE  hooks'[h].target = hooks[h].target /\ hooks'[h].late = hooks[h].late
      <4>1. hooks'[h] = IF h = id THEN [hooks[id] EXCEPT !.enabled = FALSE] ELSE hooks[h]
        BY <3>2, <3>3 DEF Made
      <4> QED
        BY <3>4, <4>1 DEF HookRecords
    <3> QED
      BY <3>5, <3>6 DEF Kept
  <2> QED
    BY <2>1, <2>2 DEF Retire, retire, RetireReturn, patches
<1> QED
  BY <1>1, <1>2 DEF Elsewhere, Early

\* What a step can do to the batches, and to the supervisor's step as far as the frame hook goes.
LEMMA FrameSteps ==
  ASSUME IInv, Next
  PROVE  \/ \E th \in Threads : Install(th) /\ step' = step
         \/ /\ Kept /\ UNCHANGED job
            /\ \/ UNCHANGED <<todo, batch>> /\ Elsewhere
               \/ StartBatch("supervisor", "frame") /\ step = "await_client" /\ step' = "frame"
               \/ StartBatch("supervisor", "fire") /\ step = "filter" /\ step' = "mods"
               \/ StartBatch("game", "watch") /\ step' = step
               \/ StartBatch("game", "fire") /\ step' = step
               \/ BatchDone("game") /\ step' = step
               \/ BatchDone("supervisor") /\ step \notin Early /\ step' \notin Early \cup {"frame"}
<1>1. "supervisor" \in Threads /\ "game" \in Threads
  BY Bounds
<1>2. ASSUME UNCHANGED hookVars
      PROVE  Kept /\ UNCHANGED job
  BY <1>2 DEF hookVars, patches, Kept
<1>3. CASE \E th \in Threads : Install(th)
  BY <1>3 DEF Install
<1>4. CASE Server
  <2>1. UNCHANGED hookVars /\ UNCHANGED <<todo, batch, step>>
    BY <1>4 DEF Server, mods
  <2> QED
    BY <1>2, <2>1 DEF Elsewhere
<1>5. CASE Game /\ ~Install("game")
  <2>1. UNCHANGED hookVars /\ step' = step
    BY <1>5 DEF Game, ReachEntry, gate_veh, LoadGameserver, frame_tick_detour, reassert, Claim, ResourceWatch, FireRedirect,
       on_frame, find, original, game
  <2>2. CASE ResourceWatch \/ FireRedirect
    <3>1. \/ StartBatch("game", "watch") \/ StartBatch("game", "fire") \/ UNCHANGED <<todo, batch>> \/ BatchDone("game")
      BY <2>2 DEF ResourceWatch, FireRedirect, on_frame
    <3> QED
      BY <1>2, <2>1, <3>1 DEF Elsewhere
  <2>3. CASE ~ResourceWatch /\ ~FireRedirect
    <3>1. UNCHANGED <<todo, batch>>
      BY <1>5, <2>3 DEF Game, ReachEntry, gate_veh, LoadGameserver, frame_tick_detour, reassert, Claim, find, original, mods
    <3> QED
      BY <1>2, <2>1, <3>1 DEF Elsewhere
  <2> QED
    BY <2>2, <2>3
<1>6. CASE Retire
  BY <1>6, RetireKeeps
<1>7. CASE Seal
  <2>1. Kept /\ UNCHANGED <<job, todo, batch>> /\ step = "seal" /\ step' = "remove"
    BY <1>7 DEF Seal, seal, To, mods, patches, Kept
  <2> QED
    BY <2>1 DEF Elsewhere, Early
<1>8. CASE AwaitClient \/ InstallFilter \/ HookFrame \/ on_initialize
  <2>1. UNCHANGED hookVars
    BY <1>8 DEF AwaitClient, InstallFilter, HookFrame, on_initialize
  <2>2. CASE AwaitClient
    BY <1>2, <2>1, <2>2 DEF AwaitClient, To
  <2>3. CASE InstallFilter
    BY <1>2, <2>1, <2>3 DEF InstallFilter, To, Elsewhere, Early
  <2>4. CASE HookFrame
    BY <1>2, <2>1, <2>4 DEF HookFrame, To, Early
  <2>5. CASE on_initialize
    BY <1>2, <2>1, <2>5 DEF on_initialize, To, Elsewhere, Early
  <2> QED
    BY <1>8, <2>2, <2>3, <2>4, <2>5
<1>9. CASE \/ install_bootstrap_gate \/ AwaitHit \/ Release \/ Register \/ StartServer \/ Poll \/ StopServer
           \/ RemoveFilter \/ Check \/ prove_quiescent
  <2>1. UNCHANGED hookVars /\ UNCHANGED <<todo, batch>>
    BY <1>9 DEF install_bootstrap_gate, AwaitHit, Release, Register, StartServer, Poll, StopServer, RemoveFilter, Check,
       prove_quiescent, mods
  <2>2. Elsewhere
    BY <1>9 DEF install_bootstrap_gate, AwaitHit, Release, Register, StartServer, Poll, StopServer, RemoveFilter, Check,
       prove_quiescent, To, Elsewhere, Early
  <2> QED
    BY <1>2, <2>1, <2>2
<1> QED
  BY <1>1, <1>3, <1>4, <1>5, <1>6, <1>7, <1>8, <1>9 DEF Next, Supervisor

\* What is left of a batch was in it.
LEMMA RestOf ==
  ASSUME NEW s \in Seq(Targets), s # <<>>, NEW rest \in {<<>>, Tail(s)}
  PROVE  /\ rest \in Seq(Targets) /\ Len(rest) < Len(s) /\ Len(s) \in Nat /\ Len(rest) \in Nat
         /\ \A i \in 1 .. Len(rest) : \E j \in 1 .. Len(s) : rest[i] = s[j]
<1>1. CASE rest = <<>>
  BY <1>1
<1>2. CASE rest = Tail(s)
  <2>1. Len(s) \in Nat /\ Len(s) > 0 /\ rest \in Seq(Targets) /\ Len(rest) = Len(s) - 1
    BY <1>2, HeadTailProperties
  <2>2. \A i \in 1 .. Len(rest) : i + 1 \in 1 .. Len(s) /\ rest[i] = s[i + 1]
    BY <1>2, <2>1
  <2> QED
    BY <2>1, <2>2
<1> QED
  BY <1>1, <1>2

LEMMA BatchEntries ==
  /\ Len(Batch["frame"]) = 1
  /\ \A b \in {"fire", "watch"} : \A i \in 1 .. Len(Batch[b]) : Batch[b][i] # "Update"
<1>1. Batch["frame"] = <<"Update">> /\ Batch["fire"] = <<"Trace", "Entry">> /\ Batch["watch"] = <<"Texture", "Buffer">>
  BY DEF Batch
<1>2. Len(<<"Update">>) = 1 /\ Len(<<"Trace", "Entry">>) = 2 /\ Len(<<"Texture", "Buffer">>) = 2
  OBVIOUS
<1>3. \A i \in 1 .. 2 : <<"Trace", "Entry">>[i] # "Update" /\ <<"Texture", "Buffer">>[i] # "Update"
  OBVIOUS
<1> QED
  BY <1>1, <1>2, <1>3

LEMMA FrameBatchStep ==
  ASSUME IInv, FrameBatchInv, Next
  PROVE  FrameBatchInv'
<1>0. /\ todo \in [Threads -> Seq(Targets)] /\ job \in [Threads -> Jobs] /\ batch \in [Threads -> DOMAIN Batch]
      /\ \A th \in Threads : (th = "supervisor" \/ th = "game") /\ Len(todo[th]) \in Nat
      /\ \A th \in Threads : todo[th] = <<>> => job[th].at = "idle"
      /\ \A th \in Threads : batch[th] = "none" => todo[th] = <<>>
      /\ "supervisor" \in Threads /\ "game" \in Threads
  <2>1. /\ todo \in [Threads -> Seq(Targets)]
        /\ \A th \in Threads : todo[th] = <<>> => job[th].at = "idle"
        /\ \A th \in Threads : batch[th] = "none" => todo[th] = <<>>
    BY DEF IInv, BatchInv
  <2>2. batch \in [Threads -> DOMAIN Batch]
    BY DEF IInv, TypeOK
  <2> QED
    BY <2>1, <2>2, Fields, Bounds
\* One thread's part.
<1> DEFINE Part(th) == /\ batch[th] = "frame" => th = "supervisor" /\ step = "frame"
                       /\ \A i \in 1 .. Len(todo[th]) : todo[th][i] = "Update" => batch[th] = "frame"
                       /\ job[th].at # "idle" /\ job[th].target = "Update" => batch[th] = "frame"
<1>1. step = "frame" => Len(todo["supervisor"]) <= 1
  BY DEF FrameBatchInv
<1>2. \A th \in Threads : Part(th)
  BY DEF FrameBatchInv
<1>3. ASSUME NEW th \in Threads, Install(th), step' = step
      PROVE  /\ Part(th)' /\ batch' = batch /\ Len(todo'[th]) <= Len(todo[th])
             /\ \A o \in Threads : o # th => job'[o] = job[o] /\ todo'[o] = todo[o]
  <2>1. CASE InstallNext(th)
    <3>1. /\ UNCHANGED <<todo, batch>> /\ todo[th] # <<>> /\ \A o \in Threads : o # th => job'[o] = job[o]
      BY <2>1, Refusals DEF mods
    <3>2. job'[th].target = todo[th][1] /\ 1 \in 1 .. Len(todo[th])
      <4>1. install(th, Head(todo[th]), KindOf(batch[th])) /\ todo[th] \in Seq(Targets)
        BY <1>0, <2>1 DEF InstallNext
      <4>2. Head(todo[th]) = todo[th][1] /\ 1 \in 1 .. Len(todo[th])
        BY <3>1, <4>1, HeadTailProperties
      <4> QED
        BY <1>0, <4>1, <4>2 DEF install
    <3> QED
      BY <1>0, <1>2, <1>3, <3>1, <3>2
  <2>2. CASE ScanMisses(th)
    <3>1. /\ todo[th] # <<>> /\ job[th] = NoJob /\ UNCHANGED <<job, batch>>
          /\ todo' = [todo EXCEPT ![th] = IF Len(@) = Len(Batch["fire"]) THEN <<>> ELSE Tail(@)]
      BY <2>2 DEF ScanMisses, hookVars
    <3>2. todo'[th] \in {<<>>, Tail(todo[th])} /\ \A o \in Threads : o # th => todo'[o] = todo[o]
      BY <1>0, <3>1
    <3>3. /\ Len(todo'[th]) < Len(todo[th]) /\ Len(todo'[th]) \in Nat
          /\ \A i \in 1 .. Len(todo'[th]) : \E j \in 1 .. Len(todo[th]) : todo'[th][i] = todo[th][j]
      BY <1>0, <3>1, <3>2, RestOf
    <3> QED
      BY <1>0, <1>2, <1>3, <3>1, <3>2, <3>3
  <2>3. CASE Installing(th) /\ UNCHANGED mods
    <3>1. job[th].at \in {"create", "record", "adopt"}
      BY <2>3 DEF Installing, create, record, adopt
    <3>2. job'[th].target = job[th].target /\ \A o \in Threads : o # th => job'[o] = job[o]
      BY <2>3, Created, Records, Adopts DEF Installing
    <3>3. todo' = todo /\ batch' = batch
      BY <2>3 DEF mods
    <3> QED
      BY <1>0, <1>2, <1>3, <3>1, <3>2, <3>3
  <2>4. CASE InstallReturns(th)
    <3>1. /\ batch' = batch /\ job'[th].at = "idle" /\ todo[th] # <<>>
          /\ \A o \in Threads : o # th => job'[o] = job[o] /\ todo'[o] = todo[o]
      BY <2>4, Returns
    <3>2. todo'[th] \in {<<>>, Tail(todo[th])}
      BY <1>0, <2>4 DEF InstallReturns
    <3>3. /\ Len(todo'[th]) < Len(todo[th]) /\ Len(todo'[th]) \in Nat
          /\ \A i \in 1 .. Len(todo'[th]) : \E j \in 1 .. Len(todo[th]) : todo'[th][i] = todo[th][j]
      <4>1. todo[th] \in Seq(Targets) /\ todo[th] # <<>>
        BY <1>0, <3>1
      <4> QED
        BY <3>2, <4>1, RestOf
    <3> QED
      <4>1. Part(th) /\ step' = step /\ Len(todo[th]) \in Nat
        BY <1>0, <1>2, <1>3
      <4>2. Part(th)'
        BY <3>1, <3>3, <4>1
      <4> QED
        BY <3>1, <3>3, <4>1, <4>2
  <2> QED
    BY <1>3, <2>1, <2>2, <2>3, <2>4 DEF Install
<1>4. ASSUME NEW th \in Threads, NEW b \in {"frame", "fire", "watch"}, StartBatch(th, b), UNCHANGED job
      PROVE  /\ job'[th].at = "idle" /\ batch'[th] = b /\ todo'[th] = Batch[b]
             /\ \A o \in Threads : o # th => batch'[o] = batch[o] /\ todo'[o] = todo[o]
  BY <1>0, <1>4 DEF StartBatch
<1>5. ASSUME NEW th \in Threads, BatchDone(th), UNCHANGED job
      PROVE  /\ job'[th].at = "idle" /\ batch'[th] = "none" /\ todo' = todo /\ todo[th] = <<>>
             /\ \A o \in Threads : o # th => batch'[o] = batch[o]
  BY <1>0, <1>5 DEF BatchDone
<1>6. CASE \E th \in Threads : Install(th) /\ step' = step
  <2>1. PICK th \in Threads : Install(th) /\ step' = step
    BY <1>6
  <2>2. \A o \in Threads : Part(o)'
    BY <1>2, <1>3, <2>1
  <2>3. Len(todo'["supervisor"]) <= Len(todo["supervisor"]) \/ todo'["supervisor"] = todo["supervisor"]
    BY <1>0, <1>3, <2>1
  <2>4. step' = "frame" => Len(todo'["supervisor"]) <= 1
    <3>1. todo'["supervisor"] \in Seq(Targets)
      BY <1>0, BatchOfStep
    <3>2. Len(todo'["supervisor"]) \in Nat
      BY <3>1
    <3> QED
      BY <1>0, <1>1, <2>1, <2>3, <3>2
  <2> QED
    BY <2>2, <2>4 DEF FrameBatchInv
<1>7. CASE UNCHANGED job /\ UNCHANGED <<todo, batch>> /\ Elsewhere
  BY <1>1, <1>2, <1>7 DEF FrameBatchInv, Elsewhere
<1>8. CASE UNCHANGED job /\ StartBatch("supervisor", "frame") /\ step = "await_client" /\ step' = "frame"
  <2>1. \A o \in Threads : Part(o)'
    BY <1>0, <1>2, <1>4, <1>8
  <2>2. Len(todo'["supervisor"]) <= 1
    <3>1. todo'["supervisor"] = Batch["frame"]
      BY <1>0, <1>4, <1>8
    <3> QED
      BY <3>1, BatchEntries
  <2> QED
    BY <2>1, <2>2 DEF FrameBatchInv
<1>9. CASE /\ UNCHANGED job
           /\ \/ StartBatch("supervisor", "fire") /\ step = "filter" /\ step' = "mods"
              \/ StartBatch("game", "watch") /\ step' = step
              \/ StartBatch("game", "fire") /\ step' = step
  <2>1. PICK th \in Threads, b \in {"fire", "watch"} :
          /\ StartBatch(th, b)
          /\ (step' = step /\ th = "game") \/ (step' # "frame" /\ th = "supervisor")
    <3>1. "fire" \in {"fire", "watch"} /\ "watch" \in {"fire", "watch"}
      OBVIOUS
    <3>2. \/ StartBatch("supervisor", "fire") /\ step' # "frame"
          \/ StartBatch("game", "watch") /\ step' = step
          \/ StartBatch("game", "fire") /\ step' = step
      BY <1>9
    <3> QED
      BY <1>0, <3>1, <3>2
  <2>2. /\ job'[th].at = "idle" /\ batch'[th] = b /\ todo'[th] = Batch[b] /\ b # "frame"
        /\ \A o \in Threads : o # th => batch'[o] = batch[o] /\ todo'[o] = todo[o]
    BY <1>4, <1>9, <2>1
  <2>3. \A i \in 1 .. Len(todo'[th]) : todo'[th][i] # "Update"
    BY <2>2, BatchEntries
  <2>4. \A o \in Threads : Part(o)'
    BY <1>0, <1>2, <1>9, <2>1, <2>2, <2>3
  <2>5. step' = "frame" => Len(todo'["supervisor"]) <= 1
    BY <1>0, <1>1, <2>1, <2>2
  <2> QED
    BY <2>4, <2>5 DEF FrameBatchInv
<1>10. CASE /\ UNCHANGED job
            /\ \/ BatchDone("game") /\ step' = step
               \/ BatchDone("supervisor") /\ step' \notin Early \cup {"frame"}
  <2>1. PICK th \in Threads : BatchDone(th) /\ ((step' = step /\ th = "game") \/ (step' # "frame" /\ th = "supervisor"))
    BY <1>0, <1>10
  <2>2. /\ job'[th].at = "idle" /\ batch'[th] = "none" /\ todo' = todo /\ todo[th] = <<>>
        /\ \A o \in Threads : o # th => batch'[o] = batch[o]
    BY <1>5, <1>10, <2>1
  <2>3. Len(<<>>) = 0
    OBVIOUS
  <2>4. \A o \in Threads : Part(o)'
    BY <1>0, <1>2, <1>10, <2>1, <2>2, <2>3
  <2> QED
    BY <1>1, <2>1, <2>2, <2>4 DEF FrameBatchInv
<1> QED
  <2> HIDE DEF Part
  <2> QED
    BY <1>6, <1>7, <1>8, <1>9, <1>10, FrameSteps

\* What FrameHookInv says of one hook.
SettledHook(id) ==
  /\ step \notin Early
  /\ step = "frame" /\ todo["supervisor"] # <<>> => job["supervisor"].at \in {"record", "adopt", "done"}
  /\ hooks[id].late => step = "frame" /\ Arriving("supervisor") /\ job["supervisor"].id = id

LEMMA FrameHookStep ==
  ASSUME IInv, FrameBatchInv, FrameHookInv, Next
  PROVE  FrameHookInv'
<1>0. /\ job \in [Threads -> Jobs] /\ todo \in [Threads -> Seq(Targets)] /\ Len(hooks) \in Nat
      /\ \A th \in Threads : (th = "supervisor" \/ th = "game") /\ (todo[th] = <<>> => job[th].at = "idle")
      /\ "supervisor" \in Threads /\ "game" \in Threads
  BY Fields, Bounds DEF IInv, BatchInv
<1>1. \A a, b \in Made : IsFrameHook(a) /\ IsFrameHook(b) => a = b
  BY DEF FrameHookInv
<1>2. \A id \in Made : IsFrameHook(id) => SettledHook(id)
  BY DEF FrameHookInv, SettledHook
<1>3. step = "frame" => ~retire_started
  BY DEF IInv, StepInv
<1>4. ASSUME \A a, b \in Made' : IsFrameHook(a)' /\ IsFrameHook(b)' => a = b,
             \A id \in Made' : IsFrameHook(id)' => SettledHook(id)'
      PROVE  FrameHookInv'
  BY <1>4 DEF FrameHookInv, SettledHook
\* While the hooks stay what they are.
<1>5. ASSUME Kept
      PROVE  /\ Made' = Made
             /\ \A id \in Made : IsFrameHook(id)' <=> IsFrameHook(id)
             /\ \A id \in Made : hooks'[id].late <=> hooks[id].late
  BY <1>5 DEF Kept, Made, IsFrameHook
<1>6. ASSUME Kept, \A id \in Made : SettledHook(id) => SettledHook(id)'
      PROVE  FrameHookInv'
  BY <1>1, <1>2, <1>4, <1>5, <1>6
<1>7. CASE Kept /\ UNCHANGED job /\ UNCHANGED <<todo, batch>> /\ Elsewhere
  <2>1. \A id \in Made : SettledHook(id) => SettledHook(id)'
    BY <1>5, <1>7 DEF SettledHook, Elsewhere, Arriving
  <2> QED
    BY <1>6, <1>7, <2>1
<1>8. CASE Kept /\ UNCHANGED job /\ StartBatch("supervisor", "frame") /\ step = "await_client" /\ step' = "frame"
  <2>1. \A id \in Made : ~SettledHook(id)
    BY <1>8 DEF SettledHook, Early
  <2> QED
    BY <1>6, <1>8, <2>1
<1>9. CASE /\ Kept /\ UNCHANGED job
           /\ StartBatch("supervisor", "fire") /\ step = "filter" /\ step' = "mods"
  <2>1. \A id \in Made : SettledHook(id) => SettledHook(id)'
    BY <1>5, <1>9 DEF SettledHook, Early
  <2> QED
    BY <1>6, <1>9, <2>1
<1>10. CASE /\ Kept /\ UNCHANGED job /\ step' = step
            /\ StartBatch("game", "watch") \/ StartBatch("game", "fire") \/ BatchDone("game")
  <2>1. todo'["supervisor"] = todo["supervisor"]
    BY <1>0, <1>10 DEF StartBatch, BatchDone
  <2>2. \A id \in Made : SettledHook(id) => SettledHook(id)'
    BY <1>5, <1>10, <2>1 DEF SettledHook, Arriving
  <2> QED
    BY <1>6, <1>10, <2>2
<1>11. CASE /\ Kept /\ UNCHANGED job
            /\ BatchDone("supervisor") /\ step \notin Early /\ step' \notin Early \cup {"frame"}
  <2>1. ~Arriving("supervisor")
    BY <1>11 DEF BatchDone, Arriving, NoJob
  <2>2. \A id \in Made : SettledHook(id) => SettledHook(id)'
    BY <1>5, <1>11, <2>1 DEF SettledHook
  <2> QED
    BY <1>6, <1>11, <2>2
<1>12. ASSUME NEW th \in Threads, Install(th), step' = step
       PROVE  FrameHookInv'
  \* A thread that is about to make a hook is not the supervisor's with a frame hook before.
  <2>1. ASSUME NEW id \in Made, IsFrameHook(id), th = "supervisor", step = "frame", todo[th] # <<>>
        PROVE  job[th].at \in {"record", "adopt", "done"}
    BY <1>2, <2>1 DEF SettledHook
  <2>2. CASE InstallNext(th)
    <3>1. /\ UNCHANGED <<hooks, todo>> /\ todo[th] # <<>> /\ job[th].at = "idle"
          /\ \A o \in Threads : o # th => job'[o] = job[o]
      BY <2>2, Refusals DEF patches, mods
    <3>2. Kept
      BY <3>1 DEF Kept
    <3>3. ASSUME NEW id \in Made, IsFrameHook(id)
          PROVE  SettledHook(id)'
      <4>1. SettledHook(id)
        BY <1>2, <3>3
      <4>2. CASE th = "supervisor"
        <5>1. step # "frame"
          BY <2>1, <3>1, <3>3, <4>2
        <5> QED
          BY <1>5, <1>12, <3>2, <4>1, <5>1 DEF SettledHook
      <4>3. CASE th = "game"
        BY <1>0, <1>5, <1>12, <3>1, <3>2, <4>1, <4>3 DEF SettledHook, Arriving
      <4> QED
        BY <1>0, <4>2, <4>3
    <3> QED
      BY <1>1, <1>4, <1>5, <3>2, <3>3
  <2>3. CASE ScanMisses(th)
    <3>1. UNCHANGED <<hooks, job>> /\ todo[th] # <<>> /\ \A o \in Threads : o # th => todo'[o] = todo[o]
      BY <1>0, <2>3 DEF ScanMisses, hookVars, patches
    <3>2. Kept
      BY <3>1 DEF Kept
    <3>3. \A id \in Made : SettledHook(id) => SettledHook(id)'
      BY <1>0, <1>5, <1>12, <3>1, <3>2 DEF SettledHook, Arriving
    <3> QED
      BY <1>6, <3>2, <3>3
  <2>4. CASE InstallReturns(th)
    <3>1. /\ hooks' = hooks /\ job[th].at \in {"done", "failed"} /\ todo[th] # <<>>
          /\ \A o \in Threads : o # th => job'[o] = job[o] /\ todo'[o] = todo[o]
      BY <2>4, Returns DEF patches
    <3>2. Kept
      BY <3>1 DEF Kept
    <3>3. th = "supervisor" /\ step = "frame" => todo'[th] = <<>>
      <4>1. SUFFICES ASSUME th = "supervisor", step = "frame"
                     PROVE  todo'[th] = <<>>
        OBVIOUS
      <4>2. todo[th] \in Seq(Targets) /\ Len(todo[th]) <= 1
        BY <1>0, <4>1 DEF FrameBatchInv
      <4>3. Tail(todo[th]) = <<>>
        BY <3>1, <4>2
      <4> QED
        BY <1>0, <2>4, <4>3 DEF InstallReturns
    <3>4. ASSUME NEW id \in Made, SettledHook(id)
          PROVE  SettledHook(id)'
      <4>1. CASE th = "supervisor"
        <5>1. ~Arriving("supervisor")
          BY <3>1, <4>1 DEF Arriving
        <5>2. ~hooks'[id].late
          BY <1>5, <3>2, <3>4, <5>1 DEF SettledHook
        <5> QED
          BY <1>12, <3>3, <3>4, <4>1, <5>2 DEF SettledHook
      <4>2. CASE th = "game"
        BY <1>0, <1>5, <1>12, <3>1, <3>2, <3>4, <4>2 DEF SettledHook, Arriving
      <4> QED
        BY <1>0, <4>1, <4>2
    <3> QED
      BY <1>6, <3>2, <3>4
  <2>5. CASE create(th) /\ UNCHANGED mods /\ hooks' = hooks
    <3>1. /\ job[th].at = "create" /\ todo[th] # <<>> /\ todo' = todo
          /\ \A o \in Threads : o # th => job'[o] = job[o]
      BY <1>0, <2>5, Created DEF mods
    <3>2. Kept
      BY <2>5 DEF Kept
    <3>3. ASSUME NEW id \in Made, IsFrameHook(id)
          PROVE  SettledHook(id)'
      <4>1. SettledHook(id)
        BY <1>2, <3>3
      <4>2. CASE th = "supervisor"
        <5>1. step # "frame"
          BY <2>1, <3>1, <3>3, <4>2
        <5> QED
          BY <1>5, <1>12, <3>2, <4>1, <5>1 DEF SettledHook
      <4>3. CASE th = "game"
        BY <1>0, <1>5, <1>12, <3>1, <3>2, <4>1, <4>3 DEF SettledHook, Arriving
      <4> QED
        BY <1>0, <4>2, <4>3
    <3> QED
      BY <1>1, <1>4, <1>5, <3>2, <3>3
  <2>6. CASE create(th) /\ UNCHANGED mods /\ hooks' # hooks
    <3>0. PICK new \in Nat : new = Len(hooks) + 1
      BY <1>0
    <3>1. /\ job[th].at = "create" /\ todo[th] # <<>> /\ todo' = todo
          /\ \A o \in Threads : o # th => job'[o] = job[o]
          /\ \A h \in Made : hooks'[h] = hooks[h]
          /\ Made' = Made \cup {new} /\ new \notin Made
          /\ hooks'[new].target = job[th].target /\ Arriving(th)' /\ job'[th].id = new
      <4>1. /\ job[th].at = "create" /\ todo' = todo
            /\ \A o \in Threads : o # th => job'[o] = job[o]
            /\ \A h \in Made : hooks'[h] = hooks[h]
            /\ Arriving(th)' /\ job'[th].id = new
        BY <2>6, <3>0, Grown DEF mods
      <4>2. Made' = Made \cup {new} /\ new \notin Made /\ hooks'[new].target = job[th].target
        <5>1. /\ Made' = Made \cup {Len(hooks) + 1} /\ Len(hooks) + 1 \notin Made
              /\ hooks'[Len(hooks) + 1] = [target |-> job[th].target, saved |-> code[job[th].target],
                                           kind |-> job[th].kind, enabled |-> TRUE, late |-> TRUE]
          BY <2>6, Grown
        <5>2. hooks'[new].target = job[th].target
          BY <3>0, <5>1
        <5> QED
          BY <3>0, <5>1, <5>2
      <4>3. todo[th] # <<>>
        BY <1>0, <4>1
      <4> QED
        BY <4>1, <4>2, <4>3
    <3>2. ASSUME NEW id \in Made, IsFrameHook(id)
          PROVE  SettledHook(id)' /\ ~IsFrameHook(new)'
      <4>1. SettledHook(id)
        BY <1>2, <3>2
      <4>2. th # "supervisor" \/ step # "frame"
        BY <2>1, <3>1, <3>2
      <4>3. hooks'[id] = hooks[id]
        BY <3>1, <3>2
      <4>4. ASSUME th = "supervisor"
            PROVE  SettledHook(id)'
        <5>1. step' = step /\ step # "frame" /\ (hooks'[id].late <=> hooks[id].late)
          BY <1>12, <4>2, <4>3, <4>4
        <5> QED
          BY <4>1, <5>1 DEF SettledHook
      <4>5. ASSUME th = "game"
            PROVE  SettledHook(id)'
        <5>1. /\ UNCHANGED <<step, todo>> /\ job'["supervisor"] = job["supervisor"]
              /\ (hooks'[id].late <=> hooks[id].late)
          BY <1>0, <1>12, <3>1, <4>3, <4>5
        <5> QED
          BY <4>1, <5>1 DEF SettledHook, Arriving
      <4>6. job[th].target # "Update"
        BY <3>1, <4>2 DEF FrameBatchInv
      <4> QED
        BY <1>0, <3>1, <4>4, <4>5, <4>6 DEF IsFrameHook
    <3>3. ASSUME IsFrameHook(new)'
          PROVE  SettledHook(new)'
      <4>1. th = "supervisor" /\ step = "frame"
        BY <3>1, <3>3 DEF FrameBatchInv, IsFrameHook
      <4> QED
        BY <1>12, <3>1, <4>1 DEF SettledHook, Early, Arriving
    <3>4. \A id \in Made : IsFrameHook(id)' <=> IsFrameHook(id)
      BY <3>1 DEF IsFrameHook
    <3> QED
      BY <1>1, <1>4, <3>1, <3>2, <3>3, <3>4
  <2>7. CASE record(th) /\ UNCHANGED mods
    <3>1. /\ hooks' = hooks /\ todo' = todo /\ job[th].at = "record" /\ job'[th].at = "adopt" /\ job'[th].id = job[th].id
          /\ \A o \in Threads : o # th => job'[o] = job[o]
      BY <2>7, Records DEF patches, mods
    <3>2. Kept
      BY <3>1 DEF Kept
    <3>3. \A id \in Made : SettledHook(id) => SettledHook(id)'
      BY <1>0, <1>5, <1>12, <3>1, <3>2 DEF SettledHook, Arriving
    <3> QED
      BY <1>6, <3>2, <3>3
  <2>8. CASE adopt(th) /\ UNCHANGED mods
    <3>1. /\ todo' = todo /\ job[th].at = "adopt" /\ job'[th].at = "done" /\ Len(hooks') = Len(hooks)
          /\ \A o \in Threads : o # th => job'[o] = job[o]
          /\ \A h \in Made : /\ hooks'[h].target = hooks[h].target
                             /\ hooks'[h].late <=> (hooks[h].late /\ (h # job[th].id \/ retire_started))
      BY <2>8, Adopts DEF mods
    <3>2. Made' = Made /\ \A id \in Made : IsFrameHook(id)' <=> IsFrameHook(id)
      BY <3>1 DEF Made, IsFrameHook
    <3>3. ASSUME NEW id \in Made, SettledHook(id)
          PROVE  SettledHook(id)'
      <4>1. CASE th = "supervisor"
        <5>1. ~hooks'[id].late
          BY <1>3, <3>1, <3>3, <4>1 DEF SettledHook
        <5> QED
          BY <1>12, <3>1, <3>3, <4>1, <5>1 DEF SettledHook
      <4>2. CASE th = "game"
        BY <1>0, <1>12, <3>1, <3>3, <4>2 DEF SettledHook, Arriving
      <4> QED
        BY <1>0, <4>1, <4>2
    <3> QED
      BY <1>1, <1>2, <1>4, <3>2, <3>3
  <2> QED
    BY <1>12, <2>2, <2>3, <2>4, <2>5, <2>6, <2>7, <2>8 DEF Install, Installing
<1> QED
  BY <1>7, <1>8, <1>9, <1>10, <1>11, <1>12, FrameSteps

-----------------------------------------------------------------------------

UnloadInv ==
  /\ IInv
  /\ ServerInv
  /\ FrameBatchInv
  /\ FrameHookInv

LEMMA UnloadInitInv == Init => UnloadInv
<1> SUFFICES ASSUME Init PROVE UnloadInv
  OBVIOUS
<1>1. IInv
  BY InitInv
<1>2. ServerInv
  BY DEF Init, HooksInit, ServerInit, ServerInv, Starting, Early
<1>3. /\ Threads = {"supervisor", "game"} /\ Made = {} /\ step = "arm"
      /\ \A th \in Threads : todo[th] = <<>> /\ batch[th] = "none" /\ job[th] = NoJob
  <2>1. hooks = <<>> /\ Len(<<>>) = 0
    BY DEF Init, HooksInit
  <2> QED
    BY <2>1, Bounds DEF Init, HooksInit, Made
<1>4. FrameBatchInv
  <2>1. Len(<<>>) = 0
    OBVIOUS
  <2> QED
    BY <1>3, <2>1 DEF FrameBatchInv, NoJob
<1>5. FrameHookInv
  BY <1>3 DEF FrameHookInv
<1> QED
  BY <1>1, <1>2, <1>4, <1>5 DEF UnloadInv

LEMMA UnloadNextInv == UnloadInv /\ [Next]_vars => UnloadInv'
<1> SUFFICES ASSUME UnloadInv, [Next]_vars PROVE UnloadInv'
  OBVIOUS
<1>1. IInv' /\ ServerInv'
  BY NextInv, ServerStep DEF UnloadInv
<1>2. CASE Next
  BY <1>1, <1>2, FrameBatchStep, FrameHookStep DEF UnloadInv
<1>3. CASE UNCHANGED vars
  <2>1. UNCHANGED <<hooks, job, todo, batch, step>>
    BY <1>3 DEF vars, hookVars, patches, mods
  <2>2. FrameBatchInv'
    BY <2>1 DEF FrameBatchInv, UnloadInv
  <2>3. FrameHookInv'
    BY <2>1 DEF FrameHookInv, UnloadInv, IsFrameHook, Made, Arriving
  <2> QED
    BY <1>1, <2>2, <2>3 DEF UnloadInv
<1> QED
  BY <1>2, <1>3

LEMMA FrameHookGoes == UnloadInv => FrameHookIsGone
<1>1. SUFFICES ASSUME UnloadInv, RetiredWell, code["Update"] # Engine
               PROVE  FALSE
  BY DEF FrameHookIsGone
<1>2. "Update" \in Targets /\ IInv
  BY <1>1, Bounds DEF UnloadInv
<1> DEFINE id == code["Update"]
<1>3. id \in Made /\ (Stacked("Update") \/ hooks[id].late)
  BY <1>1, <1>2, RetiredTargets DEF RetiredWell
<1>4. IsFrameHook(id)
  BY <1>1, <1>2 DEF IInv, CodeInv, IsFrameHook
<1>5. ~hooks[id].late
  BY <1>1, <1>3, <1>4 DEF UnloadInv, FrameHookInv, RetiredWell
<1>6. ~Stacked("Update")
  <2>1. DOMAIN hooks = Made
    BY <1>2, Fields DEF Made
  <2> QED
    BY <1>1, <2>1 DEF UnloadInv, FrameHookInv, IsFrameHook, Stacked
<1> QED
  BY <1>3, <1>5, <1>6

\* Only the detour of the frame hook takes the game's thread into the image again.
LEMMA EntersByTheFrameHook ==
  ASSUME Next, gpc = "engine", gpc' # gpc
  PROVE  code["Update"] # Engine
<1>1. CASE Supervisor
  BY <1>1 DEF Supervisor, install_bootstrap_gate, AwaitHit, Release, AwaitClient, HookFrame, Register, InstallFilter,
     on_initialize, StartServer, Poll, StopServer, Seal, RemoveFilter, Retire, Check, prove_quiescent, Install, Quiet
<1>2. CASE Game
  BY <1>2 DEF Game, ReachEntry, gate_veh, LoadGameserver, frame_tick_detour, reassert, Claim, ResourceWatch, FireRedirect,
     on_frame, find, original, Install, GStep
<1>3. CASE Server
  BY <1>3 DEF Server
<1> QED
  BY <1>1, <1>2, <1>3 DEF Next

THEOREM UnloadInvariance == Spec => []UnloadInv
  BY UnloadInitInv, UnloadNextInv, PTL DEF Spec

\* The command server's thread has ended and is joined before the registry is sealed and the
\* mods, the crash filter and the hooks are taken down: no request is handled by then.
THEOREM ServerJoined == Spec => []ServerIsGone
<1>1. UnloadInv => ServerIsGone
  BY DEF UnloadInv, ServerInv, ServerIsGone
<1> QED
  BY <1>1, UnloadInvariance, PTL

\* The frame hook is none of the exceptions of RetiredForGood: after a retire() that succeeded
\* the engine's update has its own bytes.
THEOREM FrameHookRetired == Spec => []FrameHookIsGone
  BY FrameHookGoes, UnloadInvariance, PTL

\* From then on the frame detour does not take the game's thread back into the image that is about
\* to be unmapped. (What the detours of the other hooks execute is not part of the model.)
THEOREM EngineStaysOut == Spec => StaysOut
<1>1. UnloadInv /\ [Next]_vars => [RetiredWell /\ gpc = "engine" => gpc' = "engine"]_vars
  BY FrameHookGoes, EntersByTheFrameHook DEF FrameHookIsGone
<1> QED
  BY <1>1, UnloadInvariance, PTL DEF Spec, StaysOut

=============================================================================
