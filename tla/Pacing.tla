------------------------------- MODULE Pacing -------------------------------
(***************************************************************************)
(* FramePublisher::wait_for_host_tick: the game's thread, which renders a  *)
(* frame and then waits for the host's clock, and the host, which counts   *)
(* its frames and sets an auto-reset event at each.                        *)
(*                                                                         *)
(* Time passes from one event to the next, in units of the performance     *)
(* counter, so that the divisor's measurement is the program's arithmetic. *)
(* A tick and an end of rendering at one instant come in that order.       *)
(***************************************************************************)
EXTENDS Integers

CONSTANTS
  kDivisorWindow, kMaxDivisor, kPacingGiveUp,
  Period,           \* of the display, in counts
  Works,            \* what a frame of the scene may cost
  Counted,          \* bound: how far the host's counter is when its section is lost
  Longest,          \* bound: a frame longer than this is measured as this
  MaxChanges        \* bound: changes of the scene, silences and torn reads

ASSUME PacingAssumption ==
  /\ {kDivisorWindow, kMaxDivisor, kPacingGiveUp, Period, Longest} \subseteq Nat \ {0}
  /\ Works \subseteq Nat \ {0} /\ Counted \subseteq Nat /\ MaxChanges \in Nat

VARIABLES
  work,             \* what a frame costs now
  pc, left,         \* the game: "frame", "render", "call", "wait", and the time left there
  silent, toTick,   \* the host, and the time to its next tick
  stated,           \* it has published a display period
  event,            \* the tick event is set
  ahead,            \* host_frames() - m_last_tick_seen, as a signed number
  changes,
  m_phase_lock, m_tick_primed, m_consecutive_timeouts,
  m_divisor, m_window_frames, m_window_overruns, m_clean_windows,
  m_window_work_qpc, m_period_qpc,
  timed, since,     \* m_work_start_qpc is set, and how long ago it was
  waited,           \* how long the wait under way has lasted
  met,              \* ticks met by it
  lost              \* the counter has started over since m_last_tick_seen

rendering == <<work, pc, left>>
host == <<silent, toTick, stated>>
clock == <<timed, since, waited>>
pacer == <<m_tick_primed, m_consecutive_timeouts>>
divisor == <<m_divisor, m_window_frames, m_window_overruns, m_clean_windows, m_window_work_qpc, m_period_qpc>>
pacing_vars == <<rendering, host, event, ahead, changes, m_phase_lock, pacer, divisor, clock, met, lost>>

Timeout == 2 * Period
Least(a, b) == IF a < b THEN a ELSE b

PacingTypeOK ==
  /\ work \in Works /\ pc \in {"frame", "render", "call", "wait"}
  /\ left \in Int /\ left >= 0
  /\ {silent, stated, event, m_phase_lock, m_tick_primed, timed, lost} \subseteq BOOLEAN
  /\ toTick \in 1..Period
  /\ ahead \in Int /\ changes \in 0..MaxChanges
  /\ m_consecutive_timeouts \in 0..kPacingGiveUp
  /\ m_divisor \in 1..kMaxDivisor
  /\ m_window_frames \in 0..kDivisorWindow - 1
  /\ m_window_overruns \in 0..m_window_frames
  /\ m_clean_windows \in 0..1
  /\ {m_window_work_qpc, m_period_qpc, since} \subseteq 0..Longest
  /\ {waited, met} \subseteq Nat

PacingInit ==
  /\ work \in Works /\ pc = "frame" /\ left = 0
  /\ silent = FALSE /\ toTick = Period /\ stated = FALSE
  /\ event = FALSE /\ ahead = 0 /\ changes = 0
  /\ m_phase_lock \in BOOLEAN /\ m_tick_primed = FALSE /\ m_consecutive_timeouts = 0
  /\ m_divisor = 1 /\ m_window_frames = 0 /\ m_window_overruns = 0 /\ m_clean_windows = 0
  /\ m_window_work_qpc = 0 /\ m_period_qpc = 0
  /\ timed = FALSE /\ since = 0 /\ waited = 0
  /\ met = 0 /\ lost = FALSE

-----------------------------------------------------------------------------
(* Time and the host *)

\* Fault: one boundary more.
Reached_Late == m_phase_lock /\ ahead > m_divisor

Reached == m_phase_lock /\ ahead >= m_divisor
Awake == pc = "wait" /\ (event \/ Reached)
Timing == pc = "render" \/ (pc = "wait" /\ ~Awake)

Pass(t) ==
  /\ Timing
  /\ left' = left - t
  /\ since' = IF timed THEN Least(since + t, Longest) ELSE 0
  /\ waited' = IF pc = "wait" THEN waited + t ELSE 0
  /\ UNCHANGED <<work, timed>>

\* The period was published with the pose, before the count and the event. (Without the lock nobody
\* reads the count, and it is not kept.)
HostTick ==
  /\ ~silent /\ toTick <= left
  /\ Pass(toTick)
  /\ toTick' = Period /\ stated' = TRUE
  /\ ahead' = (IF m_phase_lock THEN ahead + 1 ELSE 0) /\ event' = TRUE
  /\ met' = IF pc = "wait" THEN met + 1 ELSE met
  /\ UNCHANGED <<pc, silent, changes, m_phase_lock, pacer, divisor, lost>>

Change == changes < MaxChanges /\ changes' = changes + 1

HostFalls ==
  /\ ~silent /\ silent' = TRUE /\ toTick' = Period
  /\ pc \in {"render", "wait"} /\ toTick <= left
  /\ Change
  /\ UNCHANGED <<rendering, stated, event, ahead, m_phase_lock, pacer, divisor, clock, met, lost>>

HostResumes ==
  /\ silent /\ silent' = FALSE
  /\ pc = "frame"
  /\ UNCHANGED <<rendering, toTick, stated, event, ahead, changes, m_phase_lock, pacer, divisor, clock, met, lost>>

\* The host is gone and the mod closes its section and opens another, all zeroes.
SectionIsLost ==
  /\ silent /\ stated /\ stated' = FALSE
  /\ pc = "frame"
  /\ \E n \in Counted : ahead' = -n
  /\ event' = FALSE /\ lost' = TRUE
  /\ UNCHANGED <<rendering, silent, toTick, changes, m_phase_lock, pacer, divisor, clock, met>>

-----------------------------------------------------------------------------
(* The game *)

SceneChanges ==
  /\ pc = "frame" /\ Change
  /\ \E w \in Works \ {work} : work' = w
  /\ UNCHANGED <<pc, left, host, event, ahead, m_phase_lock, pacer, divisor, clock, met, lost>>

Update ==
  /\ pc = "frame" /\ pc' = "render" /\ left' = work
  /\ UNCHANGED <<work, host, event, ahead, changes, m_phase_lock, pacer, divisor, clock, met, lost>>

Rendered ==
  /\ pc = "render" /\ pc' = "call"
  /\ silent \/ left < toTick
  /\ Pass(left)
  /\ toTick' = IF silent THEN toTick ELSE toTick - left
  /\ UNCHANGED <<silent, stated, event, ahead, changes, m_phase_lock, pacer, divisor, met, lost>>

GivenUp == m_consecutive_timeouts = kPacingGiveUp

\* No period stated: not paced. Given up: the event is looked at and not waited for.
FailOpen ==
  /\ pc = "call" /\ pc' = "frame"
  /\ ~stated \/ GivenUp
  /\ IF stated /\ event
     THEN m_consecutive_timeouts' = 0 /\ event' = FALSE
     ELSE UNCHANGED <<m_consecutive_timeouts, event>>
  /\ UNCHANGED <<work, left, host, ahead, changes, m_phase_lock, m_tick_primed, divisor, clock, met, lost>>

\* The host is in the middle of a publication: no period this time.
MidPublish ==
  /\ pc = "call" /\ pc' = "frame"
  /\ stated /\ Change
  /\ UNCHANGED <<work, left, host, event, ahead, m_phase_lock, pacer, divisor, clock, met, lost>>

FreshStart ==
  /\ m_divisor' = 1 /\ m_window_frames' = 0 /\ m_window_overruns' = 0 /\ m_clean_windows' = 0
  /\ ahead' = 0 /\ lost' = FALSE /\ m_tick_primed' = TRUE
  /\ UNCHANGED <<m_window_work_qpc, m_period_qpc>>

Stale == m_consecutive_timeouts > 0 \/ ~m_tick_primed

BeginWait ==
  /\ pc = "call" /\ pc' = "wait"
  /\ stated /\ ~GivenUp
  /\ left' = Timeout /\ waited' = 0 /\ met' = 0
  /\ IF m_phase_lock /\ Stale THEN FreshStart ELSE UNCHANGED <<m_tick_primed, divisor, ahead, lost>>
  /\ UNCHANGED <<work, host, event, changes, m_phase_lock, m_consecutive_timeouts, timed, since>>

\* The event is set, and the count says not yet: another wait, with the whole limit.
Waken ==
  /\ pc = "wait" /\ event /\ ~Reached
  /\ event' = FALSE
  /\ IF m_phase_lock
     THEN left' = Timeout /\ UNCHANGED <<pc, m_consecutive_timeouts>>
     ELSE pc' = "frame" /\ m_consecutive_timeouts' = 0 /\ UNCHANGED left
  /\ UNCHANGED <<work, host, ahead, changes, m_phase_lock, m_tick_primed, divisor, clock, met, lost>>

TimesOut ==
  /\ pc = "wait" /\ pc' = "frame"
  /\ silent \/ left < toTick
  /\ Pass(left)
  /\ toTick' = IF silent THEN toTick ELSE toTick - left
  /\ m_consecutive_timeouts' = m_consecutive_timeouts + 1
  /\ UNCHANGED <<silent, stated, event, ahead, changes, m_phase_lock, m_tick_primed, divisor, met, lost>>

-----------------------------------------------------------------------------
(* The divisor *)

Sample == since \div ahead
Smoothed == IF m_period_qpc = 0 THEN Sample ELSE (m_period_qpc * 7 + Sample) \div 8
Worst == IF since - waited > m_window_work_qpc THEN since - waited ELSE m_window_work_qpc
Overruns == m_window_overruns + (IF ahead > m_divisor THEN 1 ELSE 0)
TooTight == Overruns > kDivisorWindow \div 10

\* Fault: whether this budget was kept, not whether the smaller one would be.
Roomy_InThisBudget(worst, period) == Overruns = 0 /\ m_divisor > 1

\* The worst frame of the window fits the next divisor down, with a margin.
Roomy(worst, period) ==
  /\ Overruns = 0 /\ m_divisor > 1 /\ period > 0
  /\ worst * 23 < period * (m_divisor - 1) * 20

\* Fault: no limit.
Slower_Unlimited == m_divisor + 1

Slower == Least(m_divisor + 1, kMaxDivisor)

WindowEnds(worst, period) ==
  /\ m_window_frames' = 0 /\ m_window_overruns' = 0 /\ m_window_work_qpc' = 0
  /\ \/ /\ TooTight
        /\ m_divisor' = Slower /\ m_clean_windows' = 0
     \/ /\ ~TooTight /\ Roomy(worst, period)
        /\ IF m_clean_windows = 1
           THEN m_divisor' = m_divisor - 1 /\ m_clean_windows' = 0
           ELSE m_clean_windows' = 1 /\ UNCHANGED m_divisor
     \/ /\ ~TooTight /\ ~Roomy(worst, period)
        /\ m_clean_windows' = 0 /\ UNCHANGED m_divisor

\* The boundary is reached. A wait that has met ticks was woken by the last of them, and has
\* taken its event; one that found the count there already takes none.
Boundary ==
  /\ pc = "wait" /\ Reached /\ pc' = "frame"
  /\ event' = (event /\ met = 0)
  /\ LET worst == IF timed THEN Worst ELSE m_window_work_qpc
         period == IF timed THEN Smoothed ELSE m_period_qpc IN
     /\ m_period_qpc' = period
     /\ IF m_window_frames + 1 = kDivisorWindow
        THEN WindowEnds(worst, period)
        ELSE /\ m_window_frames' = m_window_frames + 1
             /\ m_window_overruns' = Overruns /\ m_window_work_qpc' = worst
             /\ UNCHANGED <<m_divisor, m_clean_windows>>
  /\ ahead' = 0 /\ lost' = FALSE
  /\ m_consecutive_timeouts' = 0
  /\ timed' = TRUE /\ since' = 0 /\ waited' = 0
  /\ UNCHANGED <<work, left, host, changes, m_phase_lock, m_tick_primed, met>>

wait_for_host_tick == FailOpen \/ BeginWait \/ Waken \/ TimesOut \/ Boundary
PacingNext ==
  \/ HostTick \/ HostFalls \/ HostResumes \/ SectionIsLost
  \/ SceneChanges \/ Update \/ Rendered \/ MidPublish \/ wait_for_host_tick

PacingSpec == PacingInit /\ [][PacingNext]_pacing_vars
FairPacing == PacingSpec /\ WF_pacing_vars(HostTick \/ Update \/ Rendered \/ wait_for_host_tick)

-----------------------------------------------------------------------------
(* A wait is over after as many ticks as the divisor says, whatever the    *)
(* game missed before: only when the host's counter has started over since *)
(* it was last read does the game wait for the old count to be reached.    *)
WaitsForTheDivisor == m_phase_lock /\ pc = "wait" => met <= m_divisor \/ lost

\* The divisor's budget would not hold a frame in the next one down, nor overruns it more than rarely.
Suits ==
  /\ m_divisor = 1 \/ 23 * work >= 20 * Period * (m_divisor - 1)
  /\ m_divisor = kMaxDivisor \/ kDivisorWindow * work <= (kDivisorWindow + kDivisorWindow \div 10 + 1) * m_divisor * Period

(* Once the scene is steady and the host ticks, the game is paced again    *)
(* and stays on one divisor, the one that suits the work: neither a        *)
(* silence, nor giving up, nor what was measured meanwhile keeps it away,  *)
(* and it does not alternate between two.                                  *)
Settles ==
  \/ <>[]silent
  \/ \E d \in 1..kMaxDivisor :
       <>[](m_phase_lock => m_divisor = d /\ Suits /\ ~GivenUp)
=============================================================================
