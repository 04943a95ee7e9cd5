------------------------------- MODULE Unload -------------------------------
(***************************************************************************)
(* The life of the mod in the game's process: the supervisor's thread from *)
(* the bootstrap gate over Framework::initialize and the poll for an       *)
(* unload to Framework::shutdown; the game's thread, which runs the mods   *)
(* from the frame hook; the command server's thread.                       *)
(*                                                                         *)
(* Two mods install hooks from the frame as well: ResourceWatch (inline,   *)
(* tried again until all of them are in) and FireRedirect (mid, tried      *)
(* again while the first is missing), which also installs from             *)
(* on_initialize. Two targets stand for the five of each. What the         *)
(* shutdown of the other mods does is not here.                            *)
(***************************************************************************)
EXTENDS HookRegistry, CommandServer

CONSTANTS
  MaxAttempts       \* looks of prove_quiescent

ASSUME UnloadAssumption ==
  /\ Threads = {"supervisor", "game"}
  /\ Targets = {"Update", "Trace", "Entry", "Texture", "Buffer"}
  /\ MaxAttempts \in Nat \ {0}

VARIABLES
  step,             \* of the supervisor
  attempts,
  gpc,              \* of the game's thread: where it is in the image, or "engine"
  gate,             \* on the game's thread
  gameserver,       \* gameserver.dll is loaded
  registered,       \* the mods are in m_mods
  fire_hooked, watch_hooked,
  todo, batch,      \* what each thread is installing, and for whom
  installed, filter,\* the crash filter: wanted, and whose it is
  overtaken         \* remove() ran between the two steps of a reassert

mods == <<registered, fire_hooked, watch_hooked, todo, batch>>
crash == <<installed, filter, overtaken>>
vars == <<hookVars, serverVars, step, attempts, gpc, gate, gameserver, mods, crash>>

Batch == [fire |-> <<"Trace", "Entry">>, watch |-> <<"Texture", "Buffer">>, frame |-> <<"Update">>, none |-> <<>>]
KindOf(b) == IF b = "fire" THEN "mid" ELSE "inline"
Over == {"unmapped", "dormant"}
InImage == gpc # "engine" /\ gpc # "entry"

SupervisorSteps == {"arm", "await_hit", "release", "await_client", "frame", "register", "filter", "mods",
                    "start", "poll", "stop", "seal", "remove", "retire", "check", "quiesce"} \cup Over

TypeOK ==
  /\ HooksTypeOK /\ ServerTypeOK
  /\ step \in SupervisorSteps
  /\ attempts \in 0..MaxAttempts
  /\ gpc \in {"entry", "parked", "engine", "reassert", "claim", "watch", "fire", "find", "call"}
  /\ gate \in {"open", "armed", "released"}
  /\ {gameserver, registered, fire_hooked, watch_hooked, installed, overtaken} \subseteq BOOLEAN
  /\ batch \in [Threads -> DOMAIN Batch]
  /\ \A th \in Threads : todo[th] \in Seq(Targets) /\ Len(todo[th]) <= 2
  /\ filter \in {"engine", "ours"}

\* The launcher injects before the game's thread has reached its entry point, a reload while it runs.
Init ==
  /\ HooksInit /\ ServerInit
  /\ step = "arm" /\ attempts = 0
  /\ gpc \in {"entry", "engine"} /\ gameserver \in {gpc = "engine", FALSE}
  /\ gate = "open"
  /\ registered = FALSE /\ fire_hooked = FALSE /\ watch_hooked = FALSE
  /\ todo = [th \in Threads |-> <<>>] /\ batch = [th \in Threads |-> "none"]
  /\ installed = FALSE /\ filter = "engine" /\ overtaken = FALSE

-----------------------------------------------------------------------------
(* A batch of installs, by either thread *)

StartBatch(th, b) ==
  /\ batch[th] = "none"
  /\ batch' = [batch EXCEPT ![th] = b]
  /\ todo' = [todo EXCEPT ![th] = Batch[b]]

\* FireRedirect looks its targets up by the bytes of the engine: a target that is patched is not found.
Found(th) == batch[th] = "fire" => code[Head(todo[th])] = Engine

InstallNext(th) ==
  /\ todo[th] # <<>> /\ Found(th)
  /\ install(th, Head(todo[th]), KindOf(batch[th]))
  /\ UNCHANGED mods

\* Without the first target it leaves, without another it goes on.
ScanMisses(th) ==
  /\ todo[th] # <<>> /\ job[th] = NoJob /\ ~Found(th)
  /\ todo' = [todo EXCEPT ![th] = IF Len(@) = Len(Batch["fire"]) THEN <<>> ELSE Tail(@)]
  /\ UNCHANGED <<hookVars, registered, fire_hooked, watch_hooked, batch>>

\* FireRedirect goes by its first hook, ResourceWatch by all of them.
Counted(th) == Len(todo[th]) = Len(Batch[batch[th]])

\* ResourceWatch stops at the first refusal.
InstallReturns(th) ==
  /\ Answered(th)
  /\ job' = [job EXCEPT ![th] = NoJob]
  /\ todo' = [todo EXCEPT ![th] = IF batch[th] = "watch" /\ ~Installed(th) THEN <<>> ELSE Tail(@)]
  /\ fire_hooked' = IF batch[th] = "fire" /\ Counted(th) THEN Installed(th) ELSE fire_hooked
  /\ watch_hooked' = IF batch[th] = "watch" THEN Installed(th) /\ Len(todo[th]) = 1 ELSE watch_hooked
  /\ UNCHANGED <<registered, batch, patches, registry, sealed, retirement, mux>>

Install(th) ==
  /\ \/ InstallNext(th)
     \/ ScanMisses(th)
     \/ Installing(th) /\ UNCHANGED mods
     \/ InstallReturns(th)
  /\ UNCHANGED <<serverVars, step, attempts, gpc, gate, gameserver, crash>>

BatchDone(th) ==
  /\ batch[th] # "none" /\ todo[th] = <<>> /\ job[th] = NoJob
  /\ batch' = [batch EXCEPT ![th] = "none"]
  /\ UNCHANGED todo

-----------------------------------------------------------------------------
(* The game's thread *)

GStep(from, to) == gpc = from /\ gpc' = to
game == <<hookVars, serverVars, step, attempts>>

\* The breakpoint at the entry point parks the thread in gate_veh until it is released.
ReachEntry ==
  /\ GStep("entry", IF gate = "open" THEN "engine" ELSE "parked")
  /\ UNCHANGED <<game, gate, gameserver, mods, crash>>

\* It takes the breakpoint out as it leaves.
gate_veh ==
  /\ GStep("parked", "engine")
  /\ gate = "released" /\ gate' = "open"
  /\ UNCHANGED <<game, gameserver, mods, crash>>

LoadGameserver ==
  /\ gpc = "engine" /\ ~gameserver /\ gameserver' = TRUE
  /\ UNCHANGED <<game, gpc, gate, mods, crash>>

frame_tick_detour ==
  /\ GStep("engine", "reassert")
  /\ code["Update"] # Engine
  /\ UNCHANGED <<game, gate, gameserver, mods, crash>>

reassert ==
  /\ GStep("reassert", IF installed THEN "claim" ELSE "watch")
  /\ UNCHANGED <<game, gate, gameserver, mods, crash>>

Claim ==
  /\ GStep("claim", "watch")
  /\ filter' = "ours"
  /\ UNCHANGED <<game, gate, gameserver, mods, installed, overtaken>>

\* on_frame of a mod that installs: nothing to do, not due, or a batch of installs.
on_frame(b, wanted, next) ==
  /\ gpc = b
  /\ \/ registered /\ wanted /\ StartBatch("game", b) /\ gpc' = gpc
     \/ batch["game"] = "none" /\ gpc' = next /\ UNCHANGED <<todo, batch>>
     \/ BatchDone("game") /\ gpc' = next
  /\ UNCHANGED <<game, gate, gameserver, registered, fire_hooked, watch_hooked, crash>>

ResourceWatch == on_frame("watch", ~watch_hooked, "fire")
FireRedirect == on_frame("fire", ~fire_hooked /\ gameserver, "find")

\* The frame hook is looked up under the mutex; while it is not adopted the engine's update is skipped.
find ==
  /\ GStep("find", IF \E i \in DOMAIN m_hooks : hooks[m_hooks[i]].target = "Update" THEN "call" ELSE "engine")
  /\ Free
  /\ UNCHANGED <<game, gate, gameserver, mods, crash>>

\* The engine's update, called from the detour, returns to it.
original ==
  /\ GStep("call", "engine")
  /\ UNCHANGED <<game, gate, gameserver, mods, crash>>

Game ==
  /\ step # "unmapped"
  /\ \/ ReachEntry \/ gate_veh \/ LoadGameserver
     \/ frame_tick_detour \/ reassert \/ Claim \/ ResourceWatch \/ FireRedirect \/ find \/ original
     \/ Install("game")

-----------------------------------------------------------------------------
(* The supervisor's thread: up to the poll *)

To(from, to) == step = from /\ step' = to
Quiet == UNCHANGED <<attempts, gpc>>

\* A breakpoint on every other thread, or none; one that is past its entry never meets it.
install_bootstrap_gate ==
  /\ To("arm", "await_hit")
  /\ gate' \in {IF gpc = "entry" THEN "armed" ELSE "open", "open"}
  /\ Quiet /\ UNCHANGED <<hookVars, serverVars, gameserver, mods, crash>>

\* The thread is at the gate, or thirty seconds are over.
AwaitHit ==
  /\ To("await_hit", "release")
  /\ Quiet /\ UNCHANGED <<hookVars, serverVars, gate, gameserver, mods, crash>>

Released == IF gate = "armed" THEN "released" ELSE gate

\* Fault: released only once gameclient.dll is there, which the parked thread would have to load.
Release_AfterTheClient ==
  /\ To("release", "await_client") /\ gpc # "parked"
  /\ gate' = Released
  /\ Quiet /\ UNCHANGED <<hookVars, serverVars, gameserver, mods, crash>>

Release ==
  /\ To("release", "await_client")
  /\ gate' = Released
  /\ Quiet /\ UNCHANGED <<hookVars, serverVars, gameserver, mods, crash>>

\* gameclient.dll is loaded, or sixty seconds are over; then the frame hook is the first install.
AwaitClient ==
  /\ To("await_client", "frame")
  /\ StartBatch("supervisor", "frame")
  /\ Quiet /\ UNCHANGED <<hookVars, serverVars, gate, gameserver, registered, fire_hooked, watch_hooked, crash>>

HookFrame ==
  /\ To("frame", "register")
  /\ BatchDone("supervisor")
  /\ Quiet /\ UNCHANGED <<hookVars, serverVars, gate, gameserver, registered, fire_hooked, watch_hooked, crash>>

\* The mods are added one by one while the frame hook is live; here they appear at once.
Register ==
  /\ To("register", "filter")
  /\ registered' = TRUE
  /\ Quiet /\ UNCHANGED <<hookVars, serverVars, gate, gameserver, fire_hooked, watch_hooked, todo, batch, crash>>

InstallFilter ==
  /\ To("filter", "mods")
  /\ installed' = TRUE /\ filter' = "ours"
  /\ IF gameserver THEN StartBatch("supervisor", "fire") ELSE UNCHANGED <<todo, batch>>
  /\ Quiet
  /\ UNCHANGED <<hookVars, serverVars, gate, gameserver, registered, fire_hooked, watch_hooked, overtaken>>

on_initialize ==
  /\ To("mods", "start")
  /\ BatchDone("supervisor") \/ (batch["supervisor"] = "none" /\ UNCHANGED <<todo, batch>>)
  /\ Quiet /\ UNCHANGED <<hookVars, serverVars, gate, gameserver, registered, fire_hooked, watch_hooked, crash>>

StartServer ==
  /\ \/ To("start", "poll") /\ start
     \/ To("start", "dormant") /\ StartFails
  /\ Quiet /\ UNCHANGED <<hookVars, gate, gameserver, mods, crash>>

Poll ==
  /\ To("poll", "stop") /\ g_unload
  /\ Quiet /\ UNCHANGED <<hookVars, serverVars, gate, gameserver, mods, crash>>

-----------------------------------------------------------------------------
(* Framework::shutdown *)

StopServer ==
  /\ step = "stop"
  /\ \/ (stop \/ StopStep) /\ step' = step
     \/ stopping = "stopped" /\ step' = "seal" /\ UNCHANGED serverVars
  /\ Quiet /\ UNCHANGED <<hookVars, gate, gameserver, mods, crash>>

\* After the seal the mods shut down, FireRedirect among them: it disarms and keeps its hooks.
Seal ==
  /\ To("seal", "remove") /\ seal
  /\ Quiet /\ UNCHANGED <<serverVars, gate, gameserver, mods, crash>>

RemoveFilter ==
  /\ To("remove", "retire")
  /\ IF installed THEN filter' = "engine" /\ overtaken' = (gpc = "claim") ELSE UNCHANGED <<filter, overtaken>>
  /\ installed' = FALSE
  /\ Quiet /\ UNCHANGED <<hookVars, serverVars, gate, gameserver, mods>>

Retire ==
  /\ step = "retire"
  /\ \/ ~retire_started /\ retire("supervisor") /\ step' = step
     \/ RetireNext("supervisor") /\ step' = step
     \/ RetireReturn("supervisor") /\ step' = "check"
  /\ Quiet /\ UNCHANGED <<serverVars, gate, gameserver, mods, crash>>

\* A hook that could not be disabled keeps the image, and so does an unknown geometry.
Check ==
  /\ \/ To("check", "quiesce") /\ retire_ok
     \/ To("check", "dormant")
  /\ Quiet /\ UNCHANGED <<hookVars, serverVars, gate, gameserver, mods, crash>>

\* Fault: one look too many.
LastAttempt_Late == attempts = MaxAttempts

LastAttempt == attempts + 1 = MaxAttempts

\* All other threads are suspended: none is seen in the image, or another look is taken. A thread that
\* has called out of the image is not seen, and every step inside calls something. Then it is unmapped.
prove_quiescent ==
  /\ step = "quiesce"
  /\ \/ step' = "unmapped" /\ attempts' = attempts
     \/ attempts' = attempts + 1 /\ step' = IF LastAttempt THEN "dormant" ELSE step
  /\ UNCHANGED <<hookVars, serverVars, gpc, gate, gameserver, mods, crash>>

Supervisor ==
  \/ install_bootstrap_gate \/ AwaitHit \/ Release \/ AwaitClient
  \/ HookFrame \/ Register \/ InstallFilter \/ on_initialize \/ StartServer \/ Poll
  \/ StopServer \/ Seal \/ RemoveFilter \/ Retire \/ Check \/ prove_quiescent
  \/ Install("supervisor")

Server ==
  /\ server_loop \/ Connect
  /\ UNCHANGED <<hookVars, step, attempts, gpc, gate, gameserver, mods, crash>>

Next == Supervisor \/ Game \/ Server
Spec == Init /\ [][Next]_vars

GameInside == InImage /\ Game
Fairness == WF_vars(Supervisor) /\ WF_vars(GameInside) /\ WF_vars(server_loop /\ Server)
FairSpec == Spec /\ Fairness

-----------------------------------------------------------------------------
(* Once retire() has succeeded every target has the engine's bytes again,  *)
(* but for a target that two threads hooked at once, and at most one more: *)
(* whoever was past the seal's test when it was set adopts its hook late,  *)
(* and the failure of that disable goes unseen. The crash filter is the    *)
(* engine's, but for a reassert that was under way when it was removed.    *)
RetiredForGood ==
  step \in {"check", "quiesce", "unmapped"} /\ retire_ok =>
    /\ \E straggler \in Ids :
         \A t \in Targets : code[t] # Engine =>
            Stacked(t) \/ (code[t] = straggler /\ hooks[straggler].late)
    /\ filter = "ours" => overtaken

(* The engine's thread is let out of the gate, unless the image is gone    *)
(* before it has woken, and an unload that was asked for ends: stop() gets *)
(* the server's thread out of accept, and every wait has a limit.          *)
NobodyWaitsForEver ==
  /\ gpc = "parked" ~> gpc # "parked" \/ step = "unmapped"
  /\ g_unload ~> step \in Over
=============================================================================
