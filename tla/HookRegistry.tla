---------------------------- MODULE HookRegistry ----------------------------
(***************************************************************************)
(* Hooks: the registry that owns every patch in the engine's code.         *)
(*                                                                         *)
(* A hook is what safetyhook made: the target, the bytes it found there    *)
(* and whether its jump is in place. The bytes of a target are Engine's or *)
(* the number of the hook whose detour they jump to; a second hook on the  *)
(* same target saves the first one's jump as its original bytes.           *)
(*                                                                         *)
(* install and install_mid are run by any thread in four steps: the tests, *)
(* the patch, the record of the target, the adoption. A hook is "late"     *)
(* until it is adopted by a registry that is not being retired.            *)
(***************************************************************************)
EXTENDS Integers, Sequences

CONSTANTS
  Threads,          \* threads that install
  Targets,          \* entries of the engine
  MaxHooks          \* bound: hooks safetyhook ever makes

ASSUME RegistryAssumption == MaxHooks \in Nat \ {0}

VARIABLES
  code,             \* what each target's first bytes are
  hooks,            \* hooks ever made
  m_hooks, m_mid_hooks, m_targets,
  sealed,
  retire_started,
  mux,              \* who holds m_mux
  walked,           \* hooks retire() has passed
  retire_ok,
  job               \* how far each thread is in an install

patches == <<code, hooks>>
registry == <<m_hooks, m_mid_hooks, m_targets>>
retirement == <<retire_started, walked, retire_ok>>
hookVars == <<patches, registry, sealed, retirement, mux, job>>

Engine == 0
Nobody == "nobody"
Ids == 1..MaxHooks
Kinds == {"inline", "mid"}
NoJob == [at |-> "idle", target |-> "none", kind |-> "mid", id |-> 0]
Adopted == m_hooks \o m_mid_hooks

HooksTypeOK ==
  /\ code \in [Targets -> Ids \cup {Engine}]
  /\ Len(hooks) <= MaxHooks
  /\ \A id \in DOMAIN hooks :
        hooks[id] \in [target : Targets, saved : Ids \cup {Engine}, kind : Kinds, enabled : BOOLEAN,
                       late : BOOLEAN]
  /\ \A i \in DOMAIN m_hooks : m_hooks[i] \in DOMAIN hooks
  /\ \A i \in DOMAIN m_mid_hooks : m_mid_hooks[i] \in DOMAIN hooks
  /\ m_targets \subseteq Targets
  /\ {sealed, retire_started, retire_ok} \subseteq BOOLEAN
  /\ mux \in Threads \cup {Nobody}
  /\ walked \in 0..MaxHooks
  /\ job \in [Threads -> [at : {"idle", "create", "record", "adopt", "done", "failed"},
                          target : Targets \cup {"none"}, kind : Kinds, id : Ids \cup {0}]]

HooksInit ==
  /\ code = [t \in Targets |-> Engine] /\ hooks = <<>>
  /\ m_hooks = <<>> /\ m_mid_hooks = <<>> /\ m_targets = {}
  /\ sealed = FALSE /\ retire_started = FALSE
  /\ mux = Nobody /\ walked = 0 /\ retire_ok = TRUE
  /\ job = [th \in Threads |-> NoJob]

-----------------------------------------------------------------------------
(* safetyhook: a disable writes the saved bytes back, or fails *)

disable(id) ==
  /\ code' = [code EXCEPT ![hooks[id].target] = hooks[id].saved]
  /\ hooks' = [hooks EXCEPT ![id].enabled = FALSE]

Free == mux = Nobody

-----------------------------------------------------------------------------
(* install and install_mid *)

owned(t) == t \in m_targets

\* Fault: the seal is not looked at.
Refused_NeverSealed(t, kind) == kind = "inline" /\ owned(t)

\* Only an inline hook is refused for its target.
Refused(t, kind) == sealed \/ (kind = "inline" /\ owned(t))

install(th, t, kind) ==
  /\ job[th].at = "idle"
  /\ job' = [job EXCEPT ![th] = [at |-> IF Refused(t, kind) THEN "failed" ELSE "create",
                                 target |-> t, kind |-> kind, id |-> 0]]
  /\ UNCHANGED <<patches, registry, sealed, retirement, mux>>

create(th) ==
  /\ job[th].at = "create"
  /\ \/ /\ job' = [job EXCEPT ![th].at = "failed"]
        /\ UNCHANGED patches
     \/ /\ Len(hooks) < MaxHooks
        /\ LET t == job[th].target
               id == Len(hooks) + 1 IN
           /\ hooks' = Append(hooks, [target |-> t, saved |-> code[t], kind |-> job[th].kind,
                                      enabled |-> TRUE, late |-> TRUE])
           /\ code' = [code EXCEPT ![t] = id]
           /\ job' = [job EXCEPT ![th].at = IF job[th].kind = "inline" THEN "record" ELSE "adopt",
                                 ![th].id = id]
  /\ UNCHANGED <<registry, sealed, retirement, mux>>

record(th) ==
  /\ job[th].at = "record" /\ Free
  /\ m_targets' = m_targets \cup {job[th].target}
  /\ job' = [job EXCEPT ![th].at = "adopt"]
  /\ UNCHANGED <<patches, m_hooks, m_mid_hooks, sealed, retirement, mux>>

\* A hook that comes after the retirement has begun is disabled here; nobody looks at the result.
adopt(th) ==
  LET id == job[th].id IN
  /\ job[th].at = "adopt" /\ Free
  /\ IF retire_started
     THEN disable(id) \/ UNCHANGED patches
     ELSE hooks' = [hooks EXCEPT ![id].late = FALSE] /\ UNCHANGED code
  /\ IF job[th].kind = "inline"
     THEN m_hooks' = Append(m_hooks, id) /\ UNCHANGED m_mid_hooks
     ELSE m_mid_hooks' = Append(m_mid_hooks, id) /\ UNCHANGED m_hooks
  /\ job' = [job EXCEPT ![th].at = "done"]
  /\ UNCHANGED <<m_targets, sealed, retirement, mux>>

Installing(th) == create(th) \/ record(th) \/ adopt(th)
Installed(th) == job[th].at = "done"
Answered(th) == job[th].at \in {"done", "failed"}

-----------------------------------------------------------------------------
(* seal and retire *)

seal == sealed' = TRUE /\ UNCHANGED <<patches, registry, retirement, mux, job>>

retire(th) ==
  /\ Free /\ mux' = th
  /\ retire_started' = TRUE /\ walked' = 0 /\ retire_ok' = TRUE
  /\ UNCHANGED <<patches, registry, sealed, job>>

RetireNext(th) ==
  /\ mux = th /\ walked < Len(Adopted)
  /\ walked' = walked + 1
  /\ LET id == Adopted[walked + 1] IN
     \/ hooks[id].enabled /\ disable(id) /\ UNCHANGED retire_ok
     \/ hooks[id].enabled /\ retire_ok' = FALSE /\ UNCHANGED patches
     \/ ~hooks[id].enabled /\ UNCHANGED <<patches, retire_ok>>
  /\ UNCHANGED <<registry, sealed, retire_started, mux, job>>

RetireReturn(th) ==
  /\ mux = th /\ walked = Len(Adopted)
  /\ mux' = Nobody
  /\ UNCHANGED <<patches, registry, sealed, retirement, job>>

-----------------------------------------------------------------------------
(* What the retirement leaves *)

Stacked(t) == \E a, b \in DOMAIN hooks : a # b /\ hooks[a].target = t /\ hooks[b].target = t
=============================================================================
