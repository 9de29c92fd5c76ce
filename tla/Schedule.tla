------------------------------- MODULE Schedule -------------------------------
(***************************************************************************)
(* `suns schedule install | uninstall | status`: internal/scheduler, which *)
(* keeps two things in step that can come apart, the plist of the agent in *)
(* ~/Library/LaunchAgents and the agent launchd has loaded.                *)
(*                                                                         *)
(* Commands of several terminals run side by side.  A file operation or a  *)
(* launchctl may fail, a command may be killed, and a login loads what the *)
(* plist says; these are counted by troubles.                              *)
(***************************************************************************)
EXTENDS Integers, Sequences

CONSTANTS
  Terminal,     \* where commands are typed
  Hour,         \* the values given to --hour
  None,         \* no plist, or no agent
  Torn,         \* a plist cut short
  MaxCommands,
  MaxTrouble

ASSUME HourAssumption  == Hour \subseteq Int /\ None \notin Int /\ Torn \notin Int /\ None # Torn
ASSUME BoundAssumption == MaxCommands \in Nat /\ MaxTrouble \in Nat

VARIABLES
  pc,        \* what the command at a terminal does next
  command,
  hour,      \* its --hour
  saw,       \* what status has seen: Installed, Loaded
  said,      \* how it ended: installed, removed, failed, or nothing
  plist,     \* the schedule the plist holds
  agent,     \* the schedule launchd has loaded
  commands,  \* how many were typed so far
  troubles,
  crossed,   \* ghost: commands during or after which another one, or the world, changed something
  deaf       \* ghost: commands whose bootout left the agent loaded

process == <<pc, command, hour, saw, said>>
vars    == <<process, plist, agent, commands, troubles, crossed, deaf>>

Well    == UNCHANGED troubles
Trouble == troubles < MaxTrouble /\ troubles' = troubles + 1

\* clampInt to 0..23
Clamp(h) == IF h < 0 THEN 0 ELSE IF h > 23 THEN 23 ELSE h

Init ==
  /\ pc = [t \in Terminal |-> "idle"] /\ command = [t \in Terminal |-> "status"]
  /\ hour = [t \in Terminal |-> 0] /\ saw = [t \in Terminal |-> <<>>]
  /\ said = [t \in Terminal |-> "nothing"]
  /\ plist \in {None} \cup {Clamp(h) : h \in Hour} /\ agent \in {None, plist}
  /\ commands = 0 /\ troubles = 0 /\ crossed = {} /\ deaf = {}

\* A change of plist or agent by t crosses every other command's result.
Others(t) == Terminal \ {t}
Changes(t) == crossed' = IF <<plist, agent>>' = <<plist, agent>> THEN crossed
                         ELSE crossed \cup Others(t)
Goes(t, step) == pc' = [pc EXCEPT ![t] = step]
Ends(t, word) == Goes(t, "idle") /\ said' = [said EXCEPT ![t] = word]

\* The command is typed and, for an install, confirmed.
Type(t) ==
  /\ pc[t] = "idle" /\ commands < MaxCommands /\ commands' = commands + 1
  /\ \E c \in {"install", "uninstall", "status"}, h \in Hour :
       /\ command' = [command EXCEPT ![t] = c] /\ hour' = [hour EXCEPT ![t] = h]
       /\ Goes(t, CASE c = "install" -> "write" [] c = "uninstall" -> "bootout" [] OTHER -> "stat")
  /\ said' = [said EXCEPT ![t] = "nothing"] /\ saw' = [saw EXCEPT ![t] = <<>>]
  /\ crossed' = IF \E u \in Others(t) : pc[u] # "idle" THEN crossed \cup {t} ELSE crossed \ {t}
  /\ deaf' = deaf \ {t}
  /\ UNCHANGED <<plist, agent, troubles>>

\* MkdirAll fails, or WriteFile truncates the plist before it writes it.
Truncate(t) ==
  /\ pc[t] = "write" /\ UNCHANGED <<command, hour, saw, agent, commands, deaf>>
  /\ \/ Goes(t, "fill") /\ plist' = Torn /\ UNCHANGED said /\ Well
     \/ Ends(t, "failed") /\ UNCHANGED plist /\ Trouble
  /\ Changes(t)

Fill(t) ==
  /\ pc[t] = "fill" /\ UNCHANGED <<command, hour, saw, agent, commands, deaf>>
  /\ \/ Goes(t, "bootout") /\ plist' = Clamp(hour[t]) /\ UNCHANGED said /\ Well
     \/ Ends(t, "failed") /\ UNCHANGED plist /\ Trouble
  /\ Changes(t)

AfterBootout(t) == IF command[t] = "install" THEN "bootstrap" ELSE "remove"

\* Whatever launchctl says is ignored.
Bootout(t) ==
  /\ pc[t] = "bootout" /\ Goes(t, AfterBootout(t))
  /\ UNCHANGED <<command, hour, saw, said, plist, commands>>
  /\ \/ agent' = None /\ UNCHANGED deaf /\ Well
     \/ agent # None /\ deaf' = deaf \cup {t} /\ UNCHANGED agent /\ Trouble
  /\ Changes(t)

\* launchd refuses a label it has loaded, and a plist it cannot read.
Loadable == agent = None /\ plist \notin {None, Torn}

\* Mutant: the exit code of bootstrap is not looked at.
Bootstrap_Unchecked(t) ==
  /\ pc[t] = "bootstrap" /\ UNCHANGED <<command, hour, saw, plist, commands, deaf>>
  /\ agent' = IF Loadable THEN plist ELSE agent
  /\ Ends(t, "installed") /\ Changes(t) /\ Well

\* A launchctl that is cut off may have loaded the agent.
Bootstrap(t) ==
  /\ pc[t] = "bootstrap" /\ UNCHANGED <<command, hour, saw, plist, commands, deaf>>
  /\ \/ Loadable /\ agent' = plist /\ Ends(t, "installed") /\ Well
     \/ Loadable /\ agent' \in {agent, plist} /\ Ends(t, "failed") /\ Trouble
     \/ ~Loadable /\ UNCHANGED agent /\ Ends(t, "failed") /\ Well
  /\ Changes(t)

\* A missing plist is no error.
Remove(t) ==
  /\ pc[t] = "remove"
  /\ \/ plist' = None /\ Ends(t, "removed") /\ Well
     \/ plist # None /\ UNCHANGED plist /\ Ends(t, "failed") /\ Trouble
  /\ UNCHANGED <<command, hour, saw, agent, commands, deaf>>
  /\ Changes(t)

Stat(t) ==
  /\ pc[t] = "stat" /\ Goes(t, "print")
  /\ saw' = [saw EXCEPT ![t] = <<plist # None>>]
  /\ UNCHANGED <<command, hour, said, plist, agent, commands, troubles, crossed, deaf>>

\* A launchctl that fails counts as not loaded.
PrintStatus(t) ==
  /\ pc[t] = "print"
  /\ \/ saw' = [saw EXCEPT ![t] = Append(@, agent # None)] /\ Well
     \/ agent # None /\ saw' = [saw EXCEPT ![t] = Append(@, FALSE)] /\ Trouble
  /\ Ends(t, "status")
  /\ UNCHANGED <<command, hour, plist, agent, commands, crossed, deaf>>

Killed(t) ==
  /\ pc[t] # "idle" /\ Trouble /\ Ends(t, "nothing")
  /\ UNCHANGED <<command, hour, saw, plist, agent, commands, crossed, deaf>>

\* The user logs out and in: launchd loads what the plist holds.
Login ==
  /\ Trouble /\ \A t \in Terminal : pc[t] = "idle"
  /\ agent' = IF plist = Torn THEN None ELSE plist
  /\ deaf' = {}
  /\ UNCHANGED <<process, plist, commands, crossed>>

Next == \/ \E t \in Terminal : \/ Type(t) \/ Truncate(t) \/ Fill(t) \/ Bootout(t) \/ Bootstrap(t)
                               \/ Remove(t) \/ Stat(t) \/ PrintStatus(t) \/ Killed(t)
        \/ Login
Spec == Init /\ [][Next]_vars

-----------------------------------------------------------------------------
TypeOK ==
  /\ pc \in [Terminal -> {"idle", "write", "fill", "bootout", "bootstrap", "remove", "stat", "print"}]
  /\ said \in [Terminal -> {"nothing", "installed", "removed", "failed", "status"}]
  /\ plist \in (0..23) \cup {None, Torn} /\ agent \in (0..23) \cup {None}
  /\ commands \in 0..MaxCommands /\ troubles \in 0..MaxTrouble
  /\ crossed \subseteq Terminal /\ deaf \subseteq Terminal

(* What a command says is so: after "Installed and loaded" the plist and   *)
(* the loaded agent both have the hour that was asked for, also over a     *)
(* login, and after "removed" there is no plist, and no agent but one that *)
(* would not be booted out, until the next login.  Only other commands     *)
(* that run side by side or later can undo it (Install, Uninstall).        *)
SaidIsSo ==
  \A t \in Terminal \ crossed :
    /\ said[t] = "installed" => plist = Clamp(hour[t]) /\ agent = plist
    /\ said[t] = "removed" => plist = None /\ (agent = None \/ t \in deaf)
==============================================================================
