------------------------------ MODULE AppTunnel ------------------------------
(***************************************************************************)
(* The app and the extension together: the system (external) starts and    *)
(* stops the extension for the app, and tells the app what became of it.   *)
(***************************************************************************)
EXTENDS TunnelManager

\* The app has been launched with or without a saved configuration; the VPN is
\* off, and the extension has not run yet.  The manager and the view each call
\* reload().
Init ==
  /\ LogInit
  /\ saved \in {{}, {1}}
  /\ vpn = "disconnected" /\ owner = 1 /\ asked = 0
  /\ manager = 0 /\ status = "invalid" /\ errorMessage = "none"
  /\ reloading = 2
  /\ toggle = [t \in Tap |-> "no"] /\ target = [t \in Tap |-> 0]
  /\ watchdog = [t \in Tap |-> "off"]
  /\ moved = [t \in Tap |-> FALSE] /\ restarted = [t \in Tap |-> FALSE]
  /\ notes = {}

Becomes(v) ==
  /\ vpn' = v
  /\ notes' = IF v = vpn THEN notes ELSE notes \cup {owner}
  /\ moved' = [t \in Tap |-> moved[t] \/ (watchdog[t] = "on" /\ v # vpn)]
  /\ UNCHANGED <<saved, owner, asked, manager, status, errorMessage, reloading, toggle, target,
                 watchdog, restarted>>

\* What was asked for happens; before a start the VPN of another configuration ends.
SystemSwitches ==
  /\ asked # 0
  /\ IF asked > 0 /\ vpn = "connected" THEN Becomes("disconnecting")
     ELSE /\ Switches(asked)
          /\ UNCHANGED <<saved, manager, status, errorMessage, reloading, toggle, target, watchdog,
                         restarted>>
  /\ UNCHANGED log

Launches == vpn = "connecting" /\ startTunnel /\ UNCHANGED app

\* The extension loads the old journal and announces itself; then it is started.
Comes == settingsDone /\ UNCHANGED app

Announces == announce /\ tunnel' # "up" /\ UNCHANGED app

Started == announce /\ tunnel' = "up" /\ Becomes(IF vpn = "connecting" THEN "connected" ELSE vpn)

Failed == settingsFailed /\ Becomes("disconnected")

\* The user, or the system itself for a reason of its own.
Stops == vpn \in {"connected", "disconnecting"} /\ stopTunnel /\ Becomes("disconnecting")

Stopped == stopDone /\ Becomes("disconnected")

\* Nothing runs that would have to be stopped.
StopsEarly ==
  /\ vpn = "disconnecting" /\ tunnel \in {"off", "stopped"}
  /\ Becomes("disconnected")
  /\ UNCHANGED log

\* The extension dies; while it is starting the system may not notice.
Dies ==
  /\ ProcessEnds
  /\ \/ Becomes("disconnected")
     \/ vpn = "connecting" /\ UNCHANGED app

Manager ==
  \/ reload
  \/ \E t \in Tap :
       \/ toggle_begins(t) \/ toggle_saved(t) \/ toggle_enabled(t) \/ toggle_switches(t)
       \/ toggle_throws(t) \/ watchdogFires(t)
  \/ \E c \in Config : statusDidChange(c)

Next ==
  \/ Manager /\ UNCHANGED log
  \/ (postEvent \/ ioTimer) /\ UNCHANGED app
  \/ SystemSwitches \/ Launches \/ Comes \/ Announces \/ Started \/ Failed
  \/ Stops \/ Stopped \/ StopsEarly \/ Dies

Spec == Init /\ [][Next]_vars

-----------------------------------------------------------------------------
(* Safety *)

\* One configuration at most is in use, in the preferences or by a toggle().
Single == \A c, d \in (saved \cup {target[t] : t \in Tap}) \ {0} : c = d

\* The button never shows a stale state for long: the published status is the one
\* of the VPN, or a notification that will correct it is on its way, whatever
\* toggle, reload and watchdog did in between.
StatusFollows ==
  Single /\ manager # 0 /\ notes = {} => status = ConnStatus(manager, vpn, owner)

\* TunnelManager.swift:358: the watchdog complains about a start that has not got
\* anywhere, or one whose end the app has not been told yet; and, since it only
\* compares two values, about one that another start came after.
WatchdogRight ==
  [][errorMessage # "hung" /\ errorMessage' = "hung" /\ Single =>
       \E t \in Tap : watchdog[t] = "on" /\ (~moved[t] \/ notes # {} \/ restarted[t])]_vars
=============================================================================
