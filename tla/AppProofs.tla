------------------------------ MODULE AppProofs ------------------------------
(***************************************************************************)
(* The safety of the interface for every bound on the ticks, with and      *)
(* without the kill key.  Keys wait for the first message (~TypeAhead).    *)
(* At the end, that of the telemetry sources the dashboard reads.          *)
(***************************************************************************)
EXTENDS App, Sequences, TLAPS

\* Until the first message of `suns get-coffee` nothing has happened.
UntouchedBeforeEntering ==
  /\ jobs["enter"] <= 1
  /\ jobs["enter"] = 1 =>
       /\ screen = "menu" /\ ~dashLive /\ ~killReturn /\ ticks = 0 /\ elevations = 0
       /\ jobs["discover"] = 0 /\ jobs["doctor"] = 0 /\ jobs["execute"] = 0

(* A kill under way was started from a dashboard that still has its        *)
(* poller, and nothing but its execution can be awaited.                   *)
KillReturns ==
  killReturn =>
    /\ screen \in {"modal", "busy"} /\ poller
    /\ jobs["discover"] = 0 /\ jobs["doctor"] = 0

\* Drawn from its poller, by a tick under way.
DashboardDrawn ==
  screen = "dashboard" => ticks > 0 /\ (over = "no" => poller)

StreamOfThisDashboard ==
  /\ supervisors <= 1
  /\ supervisors = 1 => dashLive /\ powerStarted

IInv ==
  /\ TypeOK
  /\ UntouchedBeforeEntering
  /\ KillReturns
  /\ DashboardDrawn
  /\ StreamOfThisDashboard
  /\ DrawnFromPoller
  /\ BusyWithOneJob
  /\ LeftMeansCancelled

-----------------------------------------------------------------------------
LEMMA Initially == Init => IInv
<1> SUFFICES ASSUME Init PROVE IInv OBVIOUS
<1>1. killReturn = FALSE /\ home = FALSE /\ poller = FALSE /\ dashLive = FALSE
      /\ powerStarted = FALSE /\ quitting = FALSE
  BY DEF Init
<1>2. killReturn \in BOOLEAN /\ home \in BOOLEAN /\ poller \in BOOLEAN /\ dashLive \in BOOLEAN
      /\ powerStarted \in BOOLEAN /\ quitting \in BOOLEAN
  BY <1>1, Zenon
<1>3. /\ jobs \in [Kind -> Nat]
      /\ jobs["enter"] \in {0, 1} /\ jobs["discover"] = 0 /\ jobs["doctor"] = 0 /\ jobs["execute"] = 0
  BY DEF Init, Kind
<1>4. Due <= MaxTicks
  BY <1>1, <1>3, BoundAssumption DEF Init, Due
<1>5. TypeOK
  BY <1>2, <1>3, <1>4 DEF Init, TypeOK, Mode
<1> QED
  BY <1>1, <1>3, <1>5
  DEF Init, IInv, UntouchedBeforeEntering, KillReturns, DashboardDrawn,
      StreamOfThisDashboard, DrawnFromPoller, BusyWithOneJob, LeftMeansCancelled

LEMMA Step == ASSUME IInv, [Next]_vars, ~TypeAhead PROVE IInv'
  <1> USE BoundAssumption, SwitchAssumption
      DEF IInv, TypeOK, UntouchedBeforeEntering, KillReturns, DashboardDrawn,
          StreamOfThisDashboard, DrawnFromPoller, BusyWithOneJob, LeftMeansCancelled,
          Mode, Kind, Due, Room, Ready, Key, Draw, modes, content, dash, Start, Return, DashTick
  <1>1. CASE Deathstar BY <1>1 DEF Deathstar
  <1>2. CASE Jarjar BY <1>2 DEF Jarjar
  <1>3. CASE QuitKey
    <2>1. quitting' \in BOOLEAN /\ dashLive' \in BOOLEAN BY <1>3, Zenon DEF QuitKey, CancelDashboard
    <2>2. dashLive' => dashLive BY <1>3, Zenon DEF QuitKey, CancelDashboard
    <2> QED BY <1>3, <2>1, <2>2 DEF QuitKey, CancelDashboard
  <1>4. CASE SelectClean BY <1>4 DEF SelectClean
  <1>5. CASE SelectDoctor BY <1>5 DEF SelectDoctor
  <1>6. CASE SelectReport BY <1>6 DEF SelectReport
  <1>7. CASE SelectDashboard
    <2>1. poller' \in BOOLEAN /\ dashLive' \in BOOLEAN /\ home' \in BOOLEAN /\ powerStarted' \in BOOLEAN
      BY <1>7, Zenon DEF SelectDashboard, EnterDashboard
    <2> QED BY <1>7, <2>1 DEF SelectDashboard, EnterDashboard
  <1>8. CASE Confirm BY <1>8 DEF Confirm, Execute
  <1>9. CASE Cancel
    <2>1. killReturn' \in BOOLEAN BY <1>9, Zenon DEF Cancel
    <2>2. CASE killReturn BY <1>9, <2>1, <2>2 DEF Cancel
    <2>3. CASE ~killReturn BY <1>9, <2>1, <2>3 DEF Cancel
    <2> QED BY <2>2, <2>3
  <1>10. CASE Dismiss BY <1>10 DEF Dismiss
  <1>11. CASE Leave
    <2>1. poller' \in BOOLEAN /\ dashLive' \in BOOLEAN /\ quitting' \in BOOLEAN
      BY <1>11, Zenon DEF Leave, CancelDashboard
    <2>2. CASE home BY <1>11, <2>1, <2>2 DEF Leave, CancelDashboard
    <2>3. CASE ~home BY <1>11, <2>1, <2>3 DEF Leave, CancelDashboard
    <2> QED BY <2>2, <2>3
  <1>12. CASE PressElevate BY <1>12 DEF PressElevate
  <1>13. CASE StartKill BY <1>13 DEF StartKill
  <1>14. CASE EnterMsg
    <2>1. poller' \in BOOLEAN /\ dashLive' \in BOOLEAN /\ home' \in BOOLEAN /\ powerStarted' \in BOOLEAN
      BY <1>14, Zenon DEF EnterMsg, EnterDashboard
    <2>2. jobs["enter"] = 1 /\ ~dashLive /\ ~killReturn /\ ticks = 0 /\ elevations = 0
      BY <1>14 DEF EnterMsg
    <2>3. jobs' \in [Kind -> Nat] /\ jobs'["enter"] = 0
          /\ jobs'["discover"] = 0 /\ jobs'["doctor"] = 0 /\ jobs'["execute"] = 0
      BY <1>14, <2>2 DEF EnterMsg
    <2>4. orphans' = orphans /\ ticks' = 1 /\ supervisors' = 0 /\ screen' = "dashboard" /\ poller'
          /\ over' = "no" /\ UNCHANGED <<modes, content, elevations, ran, quitting>>
      BY <1>14, <2>2 DEF EnterMsg, EnterDashboard
    <2> QED BY <2>1, <2>2, <2>3, <2>4
  <1>15. CASE DiscoveredNothing BY <1>15 DEF DiscoveredNothing
  <1>16. CASE Discovered BY <1>16 DEF Discovered
  <1>17. CASE Executed
    <2>1. killReturn' \in BOOLEAN BY <1>17, Zenon DEF Executed
    <2>2. CASE killReturn BY <1>17, <2>1, <2>2 DEF Executed
    <2>3. CASE ~killReturn BY <1>17, <2>1, <2>3 DEF Executed
    <2> QED BY <2>2, <2>3
  <1>18. CASE DoctorDone BY <1>18 DEF DoctorDone
  <1>19. CASE TickElsewhere BY <1>19 DEF TickElsewhere
  <1>20. CASE QuitMsg BY <1>20 DEF QuitMsg
  <1>21. ASSUME NEW ok \in BOOLEAN, Elevated(ok) PROVE IInv'
    <2>1. powerStarted' \in BOOLEAN BY <1>21, Zenon DEF Elevated
    <2>2. CASE screen = "dashboard" BY <1>21, <2>1, <2>2 DEF Elevated
    <2>3. CASE screen # "dashboard" BY <1>21, <2>1, <2>3 DEF Elevated
    <2> QED BY <2>2, <2>3
  <1>22. CASE UNCHANGED vars BY <1>22 DEF vars, ends
  <1> QED BY <1>1, <1>2, <1>3, <1>4, <1>5, <1>6, <1>7, <1>8, <1>9, <1>10, <1>11, <1>12, <1>13,
             <1>14, <1>15, <1>16, <1>17, <1>18, <1>19, <1>20, <1>21, <1>22
          DEF Next, Keys, Results

LEMMA Invariant == ASSUME ~TypeAhead PROVE Spec => []IInv
<1>1. IInv /\ [Next]_vars => IInv' BY Step
<1> QED BY Initially, <1>1, PTL DEF Spec

-----------------------------------------------------------------------------
(* Every message, in every screen, leaves a well-typed model, and no more  *)
(* ticks come than the bound allows for.                                   *)
THEOREM TypeCorrect == ASSUME ~TypeAhead PROVE Spec => []TypeOK
<1>1. IInv => TypeOK BY DEF IInv
<1> QED BY Invariant, <1>1, PTL

(* A dashboard on the screen has its poller, but for a home dashboard that *)
(* is left (app.go:199, 361-365).                                          *)
THEOREM Drawn == ASSUME ~TypeAhead PROVE Spec => []DrawnFromPoller
<1>1. IInv => DrawnFromPoller
  BY DEF IInv, DashboardDrawn, DashboardTicks
<1> QED BY Invariant, <1>1, PTL

(* A dashboard on the screen has a tick under way that draws it again,     *)
(* however screens are entered and left (app.go:199).                      *)
THEOREM DrawnAgain == ASSUME ~TypeAhead PROVE Spec => []DashboardTicks
<1>1. IInv => DashboardTicks
  BY DEF IInv, DashboardDrawn, DashboardTicks
<1> QED BY Invariant, <1>1, PTL

(* One command at a time reports to the busy screen, and only to it, in    *)
(* whatever order results and keys arrive.                                 *)
THEOREM OneJob == ASSUME ~TypeAhead PROVE Spec => []BusyWithOneJob
<1>1. IInv => BusyWithOneJob BY DEF IInv
<1> QED BY Invariant, <1>1, PTL

(* Goroutines do not outlive their dashboard, and a dashboard has at most  *)
(* one powermetrics stream (app.go:185-198, 370-375).                      *)
THEOREM NothingLeftRunning ==
  ASSUME ~TypeAhead PROVE Spec => [](LeftMeansCancelled /\ OnePowerStream)
<1>1. IInv => LeftMeansCancelled /\ OnePowerStream
  BY DEF IInv, TypeOK, StreamOfThisDashboard, OnePowerStream
<1> QED BY Invariant, <1>1, PTL

(* Nothing is executed but from the modal, except a clean in an armed      *)
(* session: a kill is always confirmed (app.go:426-429, 446-451).          *)
THEOREM AlwaysGated == ASSUME ~TypeAhead PROVE Spec => Gated
<1>1. ASSUME IInv, [Next]_vars, jobs'["execute"] > jobs["execute"]
      PROVE  screen = "modal" \/ (plan' = "clean" /\ armed)
  <2> USE DEF IInv, TypeOK, Kind
  <2>1. CASE Keys \/ EnterMsg \/ DiscoveredNothing \/ Executed \/ DoctorDone
    BY <1>1, <2>1
    DEF Keys, Deathstar, Jarjar, QuitKey, SelectClean, SelectDoctor, SelectReport, SelectDashboard,
        EnterDashboard, Confirm, Cancel, Dismiss, Leave, PressElevate, StartKill, EnterMsg,
        DiscoveredNothing, Executed, DoctorDone, Start, Return
  <2>2. CASE Discovered BY <1>1, <2>2 DEF Discovered, Return
  <2>3. CASE TickElsewhere \/ QuitMsg \/ UNCHANGED vars
    BY <1>1, <2>3 DEF TickElsewhere, QuitMsg, vars
  <2>4. CASE \E ok \in BOOLEAN : Elevated(ok) BY <1>1, <2>4 DEF Elevated
  <2> QED BY <1>1, <2>1, <2>2, <2>3, <2>4 DEF Next, Results
<1> QED BY Invariant, <1>1, PTL DEF Spec, Gated

-----------------------------------------------------------------------------
(* A telemetry source of the dashboard runs beside the interface: the same *)
(* is proved of it, for every capacity of its channel.                     *)
CONSTANTS NetBuffer, Leftover
VARIABLES kind, killable, pc, health, aged, result, child, children, left, reader, held, ch,
          stranded, prev, cur, polling, green, cancelled, calm
Source == INSTANCE Telemetry

\* The ghost counts the subprocess of this run and no other.
ChildCounted ==
  /\ children = IF child \in {"up", "hung"} THEN 1 ELSE 0
  /\ pc \in {"top", "launch", "check", "sleep", "ended"} => child \notin {"up", "hung"}

\* What the result of a run says about the context and the health.
ResultTold ==
  /\ result = "cancelled" => cancelled
  /\ pc \in {"close", "check"} /\ result = "stalled" => health = "stalled"

\* Only the end, which takes no room, may come on top of a full channel.
ChannelFits == reader \in {"scan", "send"} => Len(ch) <= Source!Buffer

SourceInv == ChannelFits /\ Source!TypeOK /\ ChildCounted /\ ResultTold
               /\ Source!DeadNotLive

-----------------------------------------------------------------------------
LEMMA SourceInitially == ASSUME Source!BufferAssumption, Source!Init PROVE SourceInv
<1>1. killable \in BOOLEAN /\ stranded \in BOOLEAN
      /\ cancelled \in BOOLEAN /\ calm \in BOOLEAN
      /\ aged \in BOOLEAN /\ polling \in BOOLEAN /\ green \in BOOLEAN
  BY Zenon DEF Source!Init
<1>2. ch \in Seq(Source!Item) /\ Len(ch) = 0
  BY DEF Source!Init
<1>3. Source!TypeOK
  BY <1>1, <1>2
  DEF Source!Init, Source!TypeOK, Source!Item, Source!Final, Source!Buffer, Source!BufferAssumption
<1> QED
  BY <1>3 DEF Source!Init, SourceInv, ChannelFits, ChildCounted, ResultTold,
              Source!DeadNotLive

LEMMA FlagsTyped ==
  ASSUME aged \in BOOLEAN, polling \in BOOLEAN, green \in BOOLEAN,
         [Source!Next]_(Source!vars)
  PROVE  aged' \in BOOLEAN /\ polling' \in BOOLEAN /\ green' \in BOOLEAN
  <1> USE DEF Source!supervisor, Source!source, Source!dashboard, Source!SetHealth
  <1>1. CASE Source!Begin BY <1>1, Zenon DEF Source!Begin
  <1>2. CASE Source!LaunchFails BY <1>2, Zenon DEF Source!LaunchFails
  <1>3. CASE Source!LaunchSucceeds BY <1>3, Zenon DEF Source!LaunchSucceeds
  <1>4. CASE Source!Receive
    <2>1. CASE Source!ReceivePower(Head(ch))
      BY <1>4, <2>1, Zenon DEF Source!Receive, Source!ReceivePower, Source!Sample
    <2>2. CASE Source!ReceiveNet(Head(ch))
      BY <1>4, <2>2, Zenon
      DEF Source!Receive, Source!ReceiveNet, Source!CompleteFrame, Source!Sample
    <2> QED BY <1>4, <2>1, <2>2 DEF Source!Receive
  <1>5. CASE Source!Expire BY <1>5, Zenon DEF Source!Expire
  <1>6. CASE Source!RunCancelled BY <1>6, Zenon DEF Source!RunCancelled
  <1>7. CASE Source!Close BY <1>7, Zenon DEF Source!Close
  <1>8. CASE Source!AfterRun BY <1>8, Zenon DEF Source!AfterRun
  <1>9. CASE Source!Wake BY <1>9, Zenon DEF Source!Wake
  <1>10. CASE Source!Scan BY <1>10, Zenon DEF Source!Scan
  <1>11. CASE Source!Send BY <1>11, Zenon DEF Source!Send
  <1>12. CASE Source!StrandedEnd BY <1>12, Zenon DEF Source!StrandedEnd
  <1>13. CASE Source!ChildHangs BY <1>13, Zenon DEF Source!ChildHangs
  <1>14. CASE Source!ChildExits BY <1>14, Zenon DEF Source!ChildExits
  <1>15. CASE Source!Cancel BY <1>15, Zenon DEF Source!Cancel
  <1>16. CASE Source!Calm BY <1>16, Zenon DEF Source!Calm
  <1>17. CASE UNCHANGED Source!vars BY <1>17, Zenon DEF Source!vars
  <1>18. CASE Source!Poll BY <1>18, Zenon DEF Source!Poll, Source!Badge
  <1>19. CASE Source!PollerEnds BY <1>19, Zenon DEF Source!PollerEnds
  <1>20. CASE Source!SampleAges BY <1>20, Zenon DEF Source!SampleAges
  <1>21. CASE Source!SnapshotAges BY <1>21, Zenon DEF Source!SnapshotAges
  <1> QED BY <1>1, <1>2, <1>3, <1>4, <1>5, <1>6, <1>7, <1>8, <1>9, <1>10, <1>11, <1>12, <1>13,
             <1>14, <1>15, <1>16, <1>17, <1>18, <1>19, <1>20, <1>21
          DEF Source!Next, Source!Supervisor, Source!Reader

LEMMA SourceStep ==
  ASSUME Source!BufferAssumption, SourceInv, [Source!Next]_(Source!vars)
  PROVE  SourceInv'
  <1>0. aged' \in BOOLEAN /\ polling' \in BOOLEAN /\ green' \in BOOLEAN
    BY FlagsTyped DEF SourceInv, Source!TypeOK
  <1> USE DEF Source!BufferAssumption, SourceInv, ChannelFits, Source!TypeOK, ChildCounted,
              ResultTold, Source!DeadNotLive, Source!Buffer, Source!Item, Source!Final,
              Source!supervisor, Source!source, Source!process, Source!reading, Source!frames,
              Source!dashboard, Source!RunEnds, Source!Sample, Source!SetHealth
  <1>1. CASE Source!Begin BY <1>0, <1>1 DEF Source!Begin
  <1>2. CASE Source!LaunchFails BY <1>0, <1>2 DEF Source!LaunchFails
  <1>3. CASE Source!LaunchSucceeds BY <1>0, <1>3 DEF Source!LaunchSucceeds
  <1>4. CASE Source!Receive
    BY <1>0, <1>4
    DEF Source!Receive, Source!ReceivePower, Source!ReceiveNet, Source!CompleteFrame
  <1>5. CASE Source!Expire BY <1>0, <1>5 DEF Source!Expire
  <1>6. CASE Source!RunCancelled BY <1>0, <1>6 DEF Source!RunCancelled
  <1>7. CASE Source!Close BY <1>0, <1>7 DEF Source!Close
  <1>8. CASE Source!AfterRun BY <1>0, <1>8 DEF Source!AfterRun
  <1>9. CASE Source!Wake BY <1>0, <1>9 DEF Source!Wake
  <1>10. CASE Source!Scan BY <1>0, <1>10 DEF Source!Scan, Source!Output
  <1>11. CASE Source!Send
    <2>1. PICK i \in Source!Item :
            /\ ch' = Append(ch, i) /\ reader' \in {"scan", "done"}
            /\ Len(ch) < Source!Buffer \/ (kind = "net" /\ reader' = "done")
      BY <1>11 DEF Source!Send
    <2>2. Len(ch) <= Source!Buffer
      BY <1>11 DEF Source!Send
    <2> QED BY <1>0, <1>11, <2>1, <2>2 DEF Source!Send
  <1>12. CASE Source!StrandedEnd
    <2>1. stranded' \in BOOLEAN BY <1>12, Zenon DEF Source!StrandedEnd
    <2> QED BY <1>0, <1>12, <2>1 DEF Source!StrandedEnd
  <1>13. CASE Source!ChildHangs BY <1>0, <1>13 DEF Source!ChildHangs
  <1>14. CASE Source!ChildExits BY <1>0, <1>14 DEF Source!ChildExits
  <1>15. CASE Source!Cancel BY <1>0, <1>15 DEF Source!Cancel
  <1>16. CASE Source!Calm BY <1>0, <1>16 DEF Source!Calm
  <1>17. CASE UNCHANGED Source!vars BY <1>0, <1>17 DEF Source!vars
  <1>18. CASE Source!Poll BY <1>0, <1>18 DEF Source!Poll
  <1>19. CASE Source!PollerEnds BY <1>0, <1>19 DEF Source!PollerEnds
  <1>20. CASE Source!SampleAges BY <1>0, <1>20 DEF Source!SampleAges
  <1>21. CASE Source!SnapshotAges BY <1>0, <1>21 DEF Source!SnapshotAges
  <1> QED BY <1>1, <1>2, <1>3, <1>4, <1>5, <1>6, <1>7, <1>8, <1>9, <1>10, <1>11, <1>12, <1>13,
             <1>14, <1>15, <1>16, <1>17, <1>18, <1>19, <1>20, <1>21
          DEF Source!Next, Source!Supervisor, Source!Reader

LEMMA SourceAlways == ASSUME Source!BufferAssumption PROVE Source!Spec => []SourceInv
<1>1. Source!Init => SourceInv
  BY SourceInitially
<1>2. SourceInv /\ [Source!Next]_(Source!vars) => SourceInv'
  BY SourceStep
<1> QED
  BY <1>1, <1>2, PTL DEF Source!Spec

(* Whatever a subprocess prints and whenever it ends, the source stays     *)
(* well typed and the channel within its capacity.                         *)
THEOREM SourceTypeCorrect ==
  ASSUME Source!BufferAssumption PROVE Source!Spec => []Source!TypeOK
<1>1. SourceInv => Source!TypeOK
  BY DEF SourceInv
<1> QED
  BY SourceAlways, <1>1, PTL

(* A source between two runs is live only after an error: stalls and exits *)
(* are told before the pause (powermetrics.go:101, 137-139).               *)
THEOREM HonestBetweenRuns ==
  ASSUME Source!BufferAssumption PROVE Source!Spec => []Source!DeadNotLive
<1>1. SourceInv => Source!DeadNotLive
  BY DEF SourceInv
<1> QED
  BY SourceAlways, <1>1, PTL

(* Wait comes before the pause: subprocesses never pile up, and the        *)
(* supervisor leaves none behind (powermetrics.go:133, powerlaunch.go:60). *)
THEOREM NeverTwoSubprocesses ==
  ASSUME Source!BufferAssumption PROVE Source!Spec => []Source!OneChild
<1>1. SourceInv => Source!OneChild
  BY DEF SourceInv, ChildCounted, Source!OneChild
<1> QED
  BY SourceAlways, <1>1, PTL
==============================================================================
