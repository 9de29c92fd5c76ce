------------------------------ MODULE Telemetry ------------------------------
(***************************************************************************)
(* A supervised telemetry source (internal/telemetry, pkg/plist): the      *)
(* supervisor launches a subprocess, a reader goroutine passes what it     *)
(* prints through a channel, and the supervisor's run loop turns it into   *)
(* the latest sample and a health.  A stall, an exit or an error ends the  *)
(* run; the subprocess is killed and, after a pause, launched again, until *)
(* the context of the dashboard is cancelled.                              *)
(*                                                                         *)
(* The source is powermetrics ("power"), whose documents are samples, or   *)
(* nettop ("net"), whose frames are compared with the one before.          *)
(***************************************************************************)
EXTENDS Naturals, Sequences

CONSTANTS
  NetBuffer, \* capacity of the channel of nettop's lines (64 in the code)
  Leftover   \* bound on the items read of a subprocess that has ended

ASSUME BufferAssumption == NetBuffer \in Nat \ {0} /\ Leftover \in Nat

VARIABLES
  kind,       \* which source this is
  killable,   \* the user may signal the subprocess: a root sudo refuses it
  pc,         \* what the supervisor does next
  health,     \* what the dashboard is told of the source
  aged,       \* it is live, but its last sample is older than three seconds
  result,     \* how the run of this attempt ended
  child,      \* the subprocess of this run
  children,   \* ghost: subprocesses that have not ended
  left,       \* items an ended subprocess left in the pipe and the scanner
  reader,     \* the reader goroutine of this run
  held,       \* what it is about to send
  ch,         \* the channel of this run
  stranded,   \* ghost: the reader of an earlier run can never end
  prev, cur,  \* the last complete frame of nettop, and the one being read
  polling,    \* the poller runs
  green,      \* the dashboard shows the source as live
  cancelled,  \* the context has been cancelled
  calm        \* ghost: the subprocess behaves well from now on

source     == <<health, aged>>
supervisor == <<pc, source, result>>
reading    == <<reader, held, ch, stranded>>
frames     == <<prev, cur>>
process    == <<child, children, left>>
dashboard  == <<polling, green>>
vars       == <<kind, killable, dashboard, supervisor, process, reading, frames, cancelled, calm>>

Final  == {"eof", "error"}
Item   == {"doc", "header", "badheader", "row", "junk"} \cup Final
\* A line of nettop that is no row is passed over, like a row before any header.
Output == IF kind = "power" THEN {"doc", "junk"} ELSE {"header", "badheader", "row"}
Buffer == IF kind = "power" THEN 1 ELSE NetBuffer

Init ==
  /\ kind \in {"power", "net"}
  /\ killable \in (IF kind = "power" THEN BOOLEAN ELSE {TRUE})
  /\ pc = "top" /\ health = "unavailable" /\ aged = FALSE /\ result = "none"
  /\ child = "none" /\ children = 0 /\ left = 0
  /\ reader = "none" /\ held = "junk" /\ ch = <<>> /\ stranded = FALSE
  /\ prev = "none" /\ cur = "none"
  /\ green = FALSE /\ polling = TRUE
  /\ cancelled = FALSE /\ calm = FALSE

-----------------------------------------------------------------------------
(* The supervisor.                                                         *)
SetHealth(h) == health' = h /\ aged' = FALSE

\* Mutant: the context is looked at by the run loop alone.
Begin_IgnoresCancel ==
  /\ pc = "top"
  /\ pc' = "launch" /\ SetHealth("restarting") /\ result' = "none"
  /\ UNCHANGED <<kind, killable, dashboard, process, reading, frames, cancelled, calm>>

Begin ==
  /\ pc = "top"
  /\ IF cancelled THEN pc' = "ended" /\ UNCHANGED <<source, result>>
                  ELSE pc' = "launch" /\ SetHealth("restarting") /\ result' = "none"
  /\ UNCHANGED <<kind, killable, dashboard, process, reading, frames, cancelled, calm>>

LaunchFails ==
  /\ pc = "launch" /\ ~calm
  /\ SetHealth("unavailable") /\ pc' = "sleep"
  /\ UNCHANGED <<kind, killable, dashboard, result, process, reading, frames, cancelled, calm>>

(* The reader of the last run cannot send what it still has to send.  (The *)
(* reader of nettop gives up once the context is cancelled; it only has to *)
(* send lines, the end is told by closing the channel.)                    *)
Blocked ==
  IF kind = "power"
  THEN \/ reader \in {"scan", "send"} /\ ch # <<>>
       \/ reader = "send" /\ held \notin Final
  ELSE reader = "send" /\ Len(ch) = Buffer /\ ~cancelled

LaunchSucceeds ==
  /\ pc = "launch" /\ ~cancelled
  /\ pc' = "run"
  /\ child' = "up" /\ children' = children + 1 /\ left' = 0
  /\ reader' = "scan" /\ ch' = <<>> /\ stranded' = (stranded \/ Blocked)
  /\ prev' = "none" /\ cur' = "none"
  /\ UNCHANGED <<kind, killable, dashboard, source, result, held, cancelled, calm>>

RunEnds(r) == pc' = "close" /\ result' = r

\* One receive of the run loop; every receive restarts the deadline.
Sample == health' = "live" /\ aged' = FALSE

ReceivePower(item) ==
  \/ item = "doc" /\ Sample /\ UNCHANGED <<pc, result, frames>>
  \/ item = "junk" /\ UNCHANGED <<supervisor, frames>>
  \/ item = "eof" /\ RunEnds("none") /\ UNCHANGED <<source, frames>>
  \/ item = "error" /\ RunEnds("error") /\ UNCHANGED <<source, frames>>

\* A header completes the frame before it and opens the next one.
CompleteFrame ==
  IF cur # "rows"
  THEN UNCHANGED <<prev, source>>
  ELSE /\ IF prev = "none" THEN UNCHANGED source ELSE Sample
       /\ prev' = "frame"

ReceiveNet(item) ==
  \/ /\ item = "header" /\ CompleteFrame
     /\ cur' = "open" /\ UNCHANGED <<pc, result>>
  \/ /\ item = "badheader" /\ CompleteFrame
     /\ cur' = "open" /\ RunEnds("error")
  \/ /\ item = "row"
     /\ cur' = (IF cur = "none" THEN "none" ELSE "rows")
     /\ UNCHANGED <<supervisor, prev>>
  \/ item = "eof" /\ RunEnds("none") /\ UNCHANGED <<source, frames>>
  \/ item = "error" /\ RunEnds("error") /\ UNCHANGED <<source, frames>>

Receive ==
  /\ pc = "run" /\ ch # <<>>
  /\ ch' = Tail(ch)
  /\ IF kind = "power" THEN ReceivePower(Head(ch)) ELSE ReceiveNet(Head(ch))
  /\ UNCHANGED <<kind, killable, dashboard, process, reader, held, stranded, cancelled, calm>>

(* Nothing has been received for the deadline.  The select may prefer the  *)
(* timer to an item that has just come.                                    *)
Expire ==
  /\ pc = "run" /\ (calm => child # "up" /\ ch = <<>>)
  /\ RunEnds(IF kind = "power" THEN "stalled" ELSE "none") /\ SetHealth("stalled")
  /\ UNCHANGED <<kind, killable, dashboard, process, reading, frames, cancelled, calm>>

RunCancelled ==
  /\ pc = "run" /\ cancelled
  /\ RunEnds("cancelled") /\ UNCHANGED source
  /\ UNCHANGED <<kind, killable, dashboard, process, reading, frames, cancelled, calm>>

\* Mutant: the supervisor kills and goes on without Wait.
Close_DoesNotWait ==
  /\ pc = "close"
  /\ pc' = "check"
  /\ child' = "none" /\ left' \in 0..Leftover
  /\ children' = children - (IF killable /\ child \in {"up", "hung"} THEN 1 ELSE 0)
  /\ UNCHANGED <<kind, killable, dashboard, source, result, reading, frames, cancelled, calm>>

(* Kill, whose refusal is ignored, and Wait, which lasts until the         *)
(* subprocess has ended and then closes the pipe: of what was left there   *)
(* only what the scanner has already read still comes.                     *)
Close ==
  /\ pc = "close" /\ (killable \/ child = "gone")
  /\ pc' = "check"
  /\ child' = "none"
  /\ left' \in 0..(IF child = "gone" THEN left ELSE Leftover)
  /\ children' = children - (IF child \in {"up", "hung"} THEN 1 ELSE 0)
  /\ UNCHANGED <<kind, killable, dashboard, source, result, reading, frames, cancelled, calm>>

\* Mutant: a stream that stalled is given up.
AfterRun_GivesUp ==
  /\ pc = "check"
  /\ IF cancelled \/ result = "stalled" THEN pc' = "ended" /\ UNCHANGED source
     ELSE /\ pc' = "sleep"
          /\ IF result = "none" THEN SetHealth("unavailable") ELSE UNCHANGED source
  /\ UNCHANGED <<kind, killable, dashboard, result, process, reading, frames, cancelled, calm>>

\* A run that returned an error leaves the health as it was.
AfterRun ==
  /\ pc = "check"
  /\ IF cancelled THEN pc' = "ended" /\ UNCHANGED source
     ELSE /\ pc' = "sleep"
          /\ IF result = "none" THEN SetHealth("unavailable") ELSE UNCHANGED source
  /\ UNCHANGED <<kind, killable, dashboard, result, process, reading, frames, cancelled, calm>>

\* The pause, whose length doubles up to ten seconds, or its cancellation.
Wake ==
  /\ pc = "sleep"
  /\ pc' \in {"top"} \cup (IF cancelled THEN {"ended"} ELSE {})
  /\ UNCHANGED <<kind, killable, dashboard, source, result, process, reading, frames, cancelled, calm>>

-----------------------------------------------------------------------------
(* The reader goroutine.  What a subprocess has printed outlives it in the *)
(* pipe and in the scanner's buffer, and is read before the end.           *)
Scan ==
  /\ reader = "scan"
  /\ \/ /\ child = "up"
        /\ held' \in Output \cup {"error"}
        /\ calm => IF kind = "power" THEN held' = "doc"
                   ELSE held' = (IF held = "header" THEN "row" ELSE "header")
        /\ UNCHANGED left
     \/ /\ child \in {"gone", "none"} /\ left > 0
        /\ held' \in Output \cup {"error"} /\ left' = left - 1
     \/ /\ child \in {"gone", "none"} /\ left = 0
        /\ held' \in Final /\ UNCHANGED left
  /\ reader' = "send"
  /\ UNCHANGED <<kind, killable, dashboard, supervisor, child, children, ch, stranded, frames,
                 cancelled, calm>>

\* Mutant: the lines of nettop are sent without a look at the context.
Send_Uncancellable ==
  /\ reader = "send"
  /\ Len(ch) < Buffer \/ (kind = "net" /\ held \in Final)
  /\ ch' = Append(ch, held)
  /\ reader' = IF held \in Final THEN "done" ELSE "scan"
  /\ UNCHANGED <<kind, killable, dashboard, supervisor, process, held, stranded, frames, cancelled, calm>>

(* A plain send for powermetrics; for nettop one that a cancelled context  *)
(* ends, and an end that is told by closing the channel.                   *)
Send ==
  /\ reader = "send"
  /\ \/ /\ Len(ch) < Buffer \/ (kind = "net" /\ held \in Final)
        /\ ch' = Append(ch, held)
        /\ reader' = IF held \in Final THEN "done" ELSE "scan"
     \/ /\ kind = "net" /\ cancelled
        /\ ch' = Append(ch, "eof")
        /\ reader' = "done"
  /\ UNCHANGED <<kind, killable, dashboard, supervisor, process, held, stranded, frames, cancelled, calm>>

\* The readers of earlier nettop runs give up with the context.
StrandedEnd ==
  /\ stranded /\ kind = "net" /\ cancelled
  /\ stranded' = FALSE
  /\ UNCHANGED <<kind, killable, dashboard, supervisor, process, reader, held, ch, frames, cancelled, calm>>

-----------------------------------------------------------------------------
(* The poller publishes a snapshot every second, and the dashboard draws   *)
(* the last one.                                                           *)
\* Mutant: live is live, however old the sample.
Badge_Ageless == health = "live"

Badge == health = "live" /\ ~aged

Poll ==
  /\ polling
  /\ green' = Badge
  /\ UNCHANGED <<kind, killable, polling, supervisor, process, reading, frames, cancelled, calm>>

PollerEnds ==
  /\ polling /\ cancelled
  /\ polling' = FALSE
  /\ UNCHANGED <<kind, killable, green, supervisor, process, reading, frames, cancelled, calm>>

(* Three seconds pass since the last sample, or since the one in the       *)
(* snapshot, which is no younger.  A calm subprocess does not let them.    *)
Steady == calm /\ pc = "run" /\ child = "up" /\ health = "live"

SampleAges ==
  /\ health = "live" /\ ~aged /\ ~Steady
  /\ aged' = TRUE /\ green' = FALSE
  /\ UNCHANGED <<kind, killable, polling, pc, health, result, process, reading, frames, cancelled, calm>>

SnapshotAges ==
  /\ green /\ ~Steady
  /\ green' = FALSE
  /\ UNCHANGED <<kind, killable, polling, supervisor, process, reading, frames, cancelled, calm>>

-----------------------------------------------------------------------------
(* The subprocess, the context, and the calm.                              *)
ChildHangs ==
  /\ child = "up" /\ ~calm
  /\ child' = "hung"
  /\ UNCHANGED <<kind, killable, dashboard, supervisor, children, left, reading, frames, cancelled, calm>>

\* By itself, or killed with the context of the command.
ChildExits ==
  /\ child \in {"up", "hung"} /\ ~calm
  /\ child' = "gone" /\ children' = children - 1 /\ left' \in 0..Leftover
  /\ UNCHANGED <<kind, killable, dashboard, supervisor, reading, frames, cancelled, calm>>

Cancel ==
  /\ ~cancelled /\ ~calm
  /\ cancelled' = TRUE
  /\ UNCHANGED <<kind, killable, dashboard, supervisor, process, reading, frames, calm>>

Calm ==
  /\ ~cancelled /\ ~calm
  /\ calm' = TRUE
  /\ UNCHANGED <<kind, killable, dashboard, supervisor, process, reading, frames, cancelled>>

-----------------------------------------------------------------------------
Supervisor ==
  \/ Begin \/ LaunchFails \/ LaunchSucceeds
  \/ Receive \/ Expire \/ RunCancelled
  \/ Close \/ AfterRun \/ Wake

Reader == Scan \/ Send

Next ==
  \/ Supervisor \/ Reader \/ StrandedEnd
  \/ Poll \/ PollerEnds \/ SampleAges \/ SnapshotAges
  \/ ChildHangs \/ ChildExits \/ Cancel \/ Calm

(* Goroutines are scheduled, timers fire, time passes, and a select that   *)
(* is offered the cancellation for ever takes it some time.                *)
Fairness ==
  /\ WF_vars(Supervisor) /\ WF_vars(Reader) /\ WF_vars(StrandedEnd)
  /\ WF_vars(RunCancelled)
  /\ WF_vars(Poll) /\ WF_vars(PollerEnds) /\ WF_vars(SampleAges) /\ WF_vars(SnapshotAges)

Spec == Init /\ [][Next]_vars /\ Fairness

-----------------------------------------------------------------------------
TypeOK ==
  /\ kind \in {"power", "net"} /\ killable \in BOOLEAN
  /\ pc \in {"top", "launch", "run", "close", "check", "sleep", "ended"}
  /\ health \in {"live", "stalled", "restarting", "unavailable"}
  /\ result \in {"none", "error", "stalled", "cancelled"}
  /\ child \in {"none", "up", "hung", "gone"} /\ children \in Nat
  /\ left \in 0..Leftover
  /\ reader \in {"none", "scan", "send", "done"} /\ held \in Item
  /\ ch \in Seq(Item) /\ Len(ch) <= Buffer + (IF kind = "net" THEN 1 ELSE 0)
  /\ stranded \in BOOLEAN
  /\ prev \in {"none", "frame"} /\ cur \in {"none", "open", "rows"}
  /\ aged \in BOOLEAN /\ polling \in BOOLEAN /\ green \in BOOLEAN
  /\ cancelled \in BOOLEAN /\ calm \in BOOLEAN

(* Between two runs the source is live only if the last one ended in a     *)
(* read or header error, whose handling leaves the health alone.           *)
DeadNotLive == pc \in {"top", "launch", "sleep"} /\ health = "live" => result = "error"

(* Dead data is not shown as live for long: once no subprocess comes up    *)
(* any more the badge turns from green for good, also when the run ended   *)
(* in an error that left the health live, or when Close waits for ever for *)
(* a subprocess it may not kill (health, in the dashboard).                *)
DeadTurnsStale == <>[](child # "up") => <>[]~green

(* However often a stream stalls, and also if its subprocess is root's and *)
(* the kill is refused, the attempts leave at most one subprocess behind   *)
(* them, and none while the supervisor pauses or is gone: Wait comes first *)
(* (powerStream.Close).                                                    *)
OneChild ==
  /\ children <= 1
  /\ pc \in {"top", "launch", "sleep", "ended"} => children = 0

(* Leaving the dashboard ends the poller, and the supervisor of a          *)
(* subprocess it may kill.                                                 *)
CancelEnds == cancelled /\ killable ~> pc = "ended" /\ ~polling

\* Once nettop's dashboard is left, all its readers end, blocked or not.
NetReadersEnd ==
  kind = "net" /\ cancelled ~> ~stranded /\ reader \in {"none", "done"}

(* From any state the supervisor recovers a source that behaves again:     *)
(* from some time on the dashboard shows it as live.                       *)
Recovers == calm /\ killable ~> []green
==============================================================================
