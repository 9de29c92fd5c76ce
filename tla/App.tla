--------------------------------- MODULE App ---------------------------------
(***************************************************************************)
(* The terminal interface (internal/tui): one model, updated by one        *)
(* message at a time and drawn after each.  Messages are keys and the      *)
(* results of commands that run beside it: discovery, execution, doctor,   *)
(* sudo, the dashboard's tick and the quit message, in any order.          *)
(*                                                                         *)
(* The poller and the supervisors a dashboard starts run until the context *)
(* of that dashboard is cancelled.                                         *)
(***************************************************************************)
EXTENDS Naturals

CONSTANTS
  MaxTicks,  \* bound on the ticks in flight or bound to come
  KillKey,   \* "k" reaches startKill; today the Up binding, "k" too, takes it first
  TypeAhead  \* keys may come before the first message of `suns get-coffee`

ASSUME BoundAssumption  == MaxTicks \in Nat \ {0}
ASSUME SwitchAssumption == {KillKey, TypeAhead} \subseteq BOOLEAN

VARIABLES
  screen,
  armed,         \* confirm_mode (Deathstar): execute without asking
  deletion,      \* deletion_mode (Jarjar)
  plan,          \* what the sealed plan does
  badge,         \* the mode whose reversibility the groups of the plan show
  killReturn,    \* killReturnDashboard
  home,          \* dashHome
  poller,        \* the model has a poller
  dashLive,      \* the context of the latest dashboard is not cancelled
  orphans,       \* ghost: earlier dashboards whose context nobody can cancel
  powerStarted,
  supervisors,   \* ghost: powermetrics supervisors of the latest dashboard
  ticks,         \* dashTick commands in flight
  elevations,    \* sudo prompts to come, or results of them
  jobs,          \* how many commands of each kind run
  ran,           \* ghost: the mode of the last execution, and what was shown for it
  quitting,      \* the quit message is under way
  over           \* how the program ended

dash    == <<home, poller, dashLive, orphans, powerStarted, supervisors>>
content == <<plan, badge, killReturn>>
modes   == <<armed, deletion>>
ends    == <<quitting, over>>
vars    == <<screen, modes, content, dash, ticks, elevations, jobs, ran, ends>>

Mode   == {"trash", "obliterate"}
Kind   == {"enter", "discover", "doctor", "execute"}

Init ==
  /\ screen = "menu"
  /\ armed \in BOOLEAN /\ deletion \in Mode
  /\ plan = "none" /\ badge = "trash" /\ killReturn = FALSE
  /\ home = FALSE /\ poller = FALSE /\ dashLive = FALSE /\ orphans = 0
  /\ powerStarted = FALSE /\ supervisors = 0
  /\ ticks = 0 /\ elevations = 0
  /\ \E startInDashboard \in BOOLEAN :
       jobs = [k \in Kind |-> IF k = "enter" /\ startInDashboard THEN 1 ELSE 0]
  /\ ran = [of |-> "none", mode |-> "trash", badge |-> "trash"]
  /\ quitting = FALSE /\ over = "no"

(* View, after every message: the dashboard is drawn from the poller.      *)
(* (The frame has no size before the first message about it; it comes      *)
(* first.)                                                                 *)
Draw ==
  over' = IF screen' = "dashboard" /\ ~poller' THEN "crashed" ELSE "no"

Ready == over = "no"

Key == Ready /\ (TypeAhead \/ jobs["enter"] = 0)

Start(k)  == jobs' = [jobs EXCEPT ![k] = @ + 1]
Return(k) == jobs[k] > 0 /\ jobs' = [jobs EXCEPT ![k] = @ - 1]

DashTick == ticks' = ticks + 1

\* The ticks in flight and those that are bound to come, and their bound.
Due  == ticks + elevations + jobs["enter"] + (IF killReturn THEN 1 ELSE 0)
Room == Due < MaxTicks

-----------------------------------------------------------------------------
(* Keys that work on every screen.                                         *)
Deathstar ==
  /\ Key /\ armed' = ~armed
  /\ UNCHANGED <<screen, deletion, content, dash, ticks, elevations, jobs, ran, quitting>>
  /\ Draw

Jarjar ==
  /\ Key /\ deletion' \in Mode \ {deletion}
  /\ UNCHANGED <<screen, armed, content, dash, ticks, elevations, jobs, ran, quitting>>
  /\ Draw

-----------------------------------------------------------------------------
(* The menu.                                                               *)
SelectClean ==
  /\ Key /\ screen = "menu"
  /\ screen' = "busy" /\ Start("discover")
  /\ UNCHANGED <<modes, content, dash, ticks, elevations, ran, quitting>>
  /\ Draw

SelectDoctor ==
  /\ Key /\ screen = "menu"
  /\ screen' = "busy" /\ Start("doctor")
  /\ UNCHANGED <<modes, content, dash, ticks, elevations, ran, quitting>>
  /\ Draw

\* Restore (the list) and Audit.
SelectReport ==
  /\ Key /\ screen = "menu"
  /\ screen' = "result"
  /\ UNCHANGED <<modes, content, dash, ticks, elevations, jobs, ran, quitting>>
  /\ Draw

\* Mutant: the dashboard is drawn, but nothing draws it again.
EnterDashboard_NoTick(h) ==
  /\ poller' = TRUE /\ dashLive' = TRUE
  /\ orphans' = orphans + (IF dashLive THEN 1 ELSE 0)
  /\ home' = h /\ powerStarted' = FALSE /\ supervisors' = 0
  /\ screen' = "dashboard" /\ UNCHANGED ticks

EnterDashboard(h) ==
  /\ poller' = TRUE /\ dashLive' = TRUE
  /\ orphans' = orphans + (IF dashLive THEN 1 ELSE 0)
  /\ home' = h /\ powerStarted' = FALSE /\ supervisors' = 0
  /\ screen' = "dashboard" /\ DashTick

SelectDashboard ==
  /\ Key /\ screen = "menu" /\ Room
  /\ EnterDashboard(FALSE)
  /\ UNCHANGED <<modes, content, elevations, jobs, ran, quitting>>
  /\ Draw

CancelDashboard == dashLive' = FALSE /\ supervisors' = 0

\* Quit is a key of the menu, the dashboard and the busy screen.
QuitKey ==
  /\ Key /\ screen \in {"menu", "dashboard", "busy"}
  /\ quitting' = TRUE
  /\ IF screen = "dashboard" THEN CancelDashboard ELSE UNCHANGED <<dashLive, supervisors>>
  /\ UNCHANGED <<screen, modes, content, home, poller, orphans, powerStarted, ticks, elevations,
                 jobs, ran>>
  /\ Draw

-----------------------------------------------------------------------------
(* The modal and the result.                                               *)
Execute(what, shown) ==
  /\ Start("execute") /\ screen' = "busy"
  /\ ran' = [of |-> what, mode |-> deletion, badge |-> shown]

Confirm ==
  /\ Key /\ screen = "modal"
  /\ Execute(plan, badge)
  /\ UNCHANGED <<modes, content, dash, ticks, elevations, quitting>>
  /\ Draw

\* Mutant: the flag survives a cancelled kill.
Cancel_KeepsFlag ==
  /\ Key /\ screen = "modal" /\ Room
  /\ IF killReturn THEN screen' = "dashboard" /\ DashTick
                   ELSE screen' = "menu" /\ UNCHANGED ticks
  /\ UNCHANGED <<modes, content, dash, elevations, jobs, ran, quitting>>
  /\ Draw

Cancel ==
  /\ Key /\ screen = "modal"
  /\ killReturn' = FALSE
  /\ IF killReturn THEN screen' = "dashboard" /\ DashTick
                   ELSE screen' = "menu" /\ UNCHANGED ticks
  /\ UNCHANGED <<modes, plan, badge, dash, elevations, jobs, ran, quitting>>
  /\ Draw

Dismiss ==
  /\ Key /\ screen = "result"
  /\ screen' = "menu"
  /\ UNCHANGED <<modes, content, dash, ticks, elevations, jobs, ran, quitting>>
  /\ Draw

-----------------------------------------------------------------------------
(* The dashboard.                                                          *)

\* Mutant: the dashboard is left, but its goroutines are not told.
Leave_Uncancelled ==
  /\ Key /\ screen = "dashboard"
  /\ poller' = FALSE
  /\ IF home THEN quitting' = TRUE /\ UNCHANGED screen
             ELSE screen' = "menu" /\ UNCHANGED quitting
  /\ UNCHANGED <<modes, content, home, dashLive, supervisors, orphans, powerStarted, ticks,
                 elevations, jobs, ran>>
  /\ Draw

Leave ==
  /\ Key /\ screen = "dashboard"
  /\ CancelDashboard /\ poller' = FALSE
  /\ IF home THEN quitting' = TRUE /\ UNCHANGED screen
             ELSE screen' = "menu" /\ UNCHANGED quitting
  /\ UNCHANGED <<modes, content, home, orphans, powerStarted, ticks, elevations, jobs, ran>>
  /\ Draw

PressElevate ==
  /\ Key /\ screen = "dashboard" /\ Room
  /\ elevations' = elevations + 1
  /\ UNCHANGED <<screen, modes, content, dash, ticks, jobs, ran, quitting>>
  /\ Draw

\* Mutant: an armed session kills without asking, as it cleans.
StartKill_Armed ==
  /\ KillKey /\ Key /\ screen = "dashboard" /\ Room
  /\ plan' = "kill" /\ badge' = "trash" /\ killReturn' = TRUE
  /\ IF armed THEN Execute("kill", "trash") ELSE screen' = "modal" /\ UNCHANGED <<jobs, ran>>
  /\ UNCHANGED <<modes, dash, ticks, elevations, quitting>>
  /\ Draw

(* A process that is there and no zombie is offered in the modal; in the   *)
(* other cases only the status line changes.                               *)
StartKill ==
  /\ KillKey /\ Key /\ screen = "dashboard" /\ Room
  /\ plan' = "kill" /\ badge' = "trash" /\ killReturn' = TRUE
  /\ screen' = "modal"
  /\ UNCHANGED <<modes, dash, ticks, elevations, jobs, ran, quitting>>
  /\ Draw

-----------------------------------------------------------------------------
(* Results of commands.                                                    *)
EnterMsg ==
  /\ Ready /\ Return("enter")
  /\ EnterDashboard(TRUE)
  /\ UNCHANGED <<modes, content, elevations, ran, quitting>>
  /\ Draw

DiscoveredNothing ==
  /\ Ready /\ Return("discover")
  /\ screen' = "result"   \* also when the discovery failed
  /\ UNCHANGED <<modes, content, dash, ticks, elevations, ran, quitting>>
  /\ Draw

Discovered ==
  /\ Ready /\ jobs["discover"] > 0
  /\ plan' = "clean" /\ badge' = deletion
  /\ \/ /\ armed
        /\ jobs' = [jobs EXCEPT !["discover"] = @ - 1, !["execute"] = @ + 1]
        /\ screen' = "busy"
        /\ ran' = [of |-> "clean", mode |-> deletion, badge |-> deletion]
     \/ /\ ~armed
        /\ Return("discover") /\ screen' = "modal" /\ UNCHANGED ran
  /\ UNCHANGED <<modes, killReturn, dash, ticks, elevations, quitting>>
  /\ Draw

\* Mutant: a plan that could not be executed is tried again.
Executed_Retries ==
  /\ Ready /\ jobs["execute"] > 0
  /\ ran' = [ran EXCEPT !.mode = deletion]
  /\ UNCHANGED <<screen, modes, content, dash, ticks, elevations, jobs, quitting>>
  /\ Draw

Executed ==
  /\ Ready /\ Return("execute")
  /\ killReturn' = FALSE
  /\ IF killReturn THEN screen' = "dashboard" /\ DashTick
                   ELSE screen' = "result" /\ UNCHANGED ticks
  /\ UNCHANGED <<modes, plan, badge, dash, elevations, ran, quitting>>
  /\ Draw

DoctorDone ==
  /\ Ready /\ Return("doctor")
  /\ screen' = "result"
  /\ UNCHANGED <<modes, content, dash, ticks, elevations, ran, quitting>>
  /\ Draw

(* A stream is started once per dashboard; under a cancelled context the   *)
(* supervisor returns at once.                                             *)
Elevated(ok) ==
  /\ Ready /\ elevations > 0 /\ elevations' = elevations - 1
  /\ IF ok /\ screen = "dashboard" /\ poller /\ ~powerStarted
     THEN /\ powerStarted' = TRUE
          /\ supervisors' = supervisors + (IF dashLive THEN 1 ELSE 0)
     ELSE UNCHANGED <<powerStarted, supervisors>>
  /\ IF screen = "dashboard" THEN DashTick ELSE UNCHANGED ticks
  /\ UNCHANGED <<screen, modes, content, home, poller, dashLive, orphans, jobs, ran, quitting>>
  /\ Draw

\* On the dashboard a tick makes the next one; elsewhere it is the last.
TickElsewhere ==
  /\ Ready /\ ticks > 0 /\ screen # "dashboard"
  /\ ticks' = ticks - 1
  /\ UNCHANGED <<screen, modes, content, dash, elevations, jobs, ran, quitting>>
  /\ Draw

QuitMsg ==
  /\ over = "no" /\ quitting
  /\ over' = "quit"
  /\ UNCHANGED <<screen, modes, content, dash, ticks, elevations, jobs, ran, quitting>>

-----------------------------------------------------------------------------
Keys ==
  \/ Deathstar \/ Jarjar \/ QuitKey
  \/ SelectClean \/ SelectDoctor \/ SelectReport \/ SelectDashboard
  \/ Confirm \/ Cancel \/ Dismiss
  \/ Leave \/ PressElevate \/ StartKill

Results == EnterMsg \/ DiscoveredNothing \/ Discovered \/ Executed \/ DoctorDone

Next ==
  \/ Keys \/ Results \/ TickElsewhere \/ QuitMsg
  \/ \E ok \in BOOLEAN : Elevated(ok)

\* Commands end and their messages are handled; nobody has to press a key.
Fairness == WF_vars(Results) /\ WF_vars(QuitMsg)

Spec == Init /\ [][Next]_vars /\ Fairness

-----------------------------------------------------------------------------
TypeOK ==
  /\ screen \in {"menu", "busy", "modal", "result", "dashboard"}
  /\ armed \in BOOLEAN /\ deletion \in Mode
  /\ plan \in {"none", "clean", "kill"} /\ badge \in Mode /\ killReturn \in BOOLEAN
  /\ home \in BOOLEAN /\ poller \in BOOLEAN /\ dashLive \in BOOLEAN /\ powerStarted \in BOOLEAN
  /\ orphans \in Nat /\ supervisors \in Nat /\ elevations \in Nat
  /\ ticks \in Nat /\ Due <= MaxTicks
  /\ jobs \in [Kind -> Nat]
  /\ ran \in [of : {"none", "clean", "kill"}, mode : Mode, badge : Mode]
  /\ quitting \in BOOLEAN /\ over \in {"no", "quit", "crashed"}

(* The dashboard is never drawn without its poller, except when a home     *)
(* dashboard is left: then the screen is drawn once more (leaveDashboard).  *)
DrawnFromPoller == over = "crashed" => home

(* The busy screen waits for exactly one command, and no command reports   *)
(* to another screen: nothing is executed twice or behind the user's back. *)
BusyWithOneJob ==
  over = "no" => jobs["discover"] + jobs["doctor"] + jobs["execute"]
                   = (IF screen = "busy" THEN 1 ELSE 0)

\* A dashboard on the screen is drawn again: a tick is under way.
DashboardTicks == screen = "dashboard" => ticks > 0

(* The goroutines of a dashboard run while it is shown or a kill started   *)
(* from it is under way; afterwards they have been cancelled.              *)
LeftMeansCancelled ==
  /\ orphans = 0
  /\ dashLive => screen = "dashboard" \/ killReturn

\* At most one powermetrics stream, in a dashboard that can still stop it.
OnePowerStream == supervisors <= 1 /\ (supervisors = 1 => dashLive)

(* A kill is executed only from the modal, in an armed session too; a      *)
(* clean without the modal only in an armed session.                       *)
Gated ==
  [][jobs'["execute"] > jobs["execute"] =>
       screen = "modal" \/ (plan' = "clean" /\ armed)]_vars

\* The busy screen gives way once its command has reported.
BusyEnds == screen = "busy" ~> screen # "busy" \/ over # "no"

==============================================================================
