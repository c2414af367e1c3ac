--------------------------- MODULE TunnelManager ---------------------------
(***************************************************************************)
(* App/TunnelManager.swift: the switch of the app.  Everything runs on the *)
(* main actor, but toggle() and reload() await the preferences, and        *)
(* between two awaits anything else may run: the other one, a second       *)
(* toggle, a status notification, the watchdog of an earlier start.        *)
(*                                                                         *)
(* Beside it stands the system: saved configurations, the VPN they share   *)
(* and the extension, whose journal is module EventLog.                    *)
(***************************************************************************)
EXTENDS EventLog

CONSTANTS
  Configs, \* configurations that NETunnelProviderManager objects may stand for
  Taps     \* taps on the button of ContentView, each a call of toggle()

ASSUME ManagerAssumption == Configs \in Nat \ {0} /\ Taps \in Nat

VARIABLES
  saved,    \* configurations in the preferences
  vpn,      \* state of the VPN
  owner,    \* configuration it belongs to
  asked,    \* what the app asked for and has not happened: to start a configuration, -1 to stop
  manager,  \* the field, 0 for nil
  status,   \* the published status
  errorMessage, \* "none", "error", "hung"
  reloading,    \* calls of reload() that wait for the preferences
  toggle,   \* how far each call of toggle() is
  target,   \* its local variable m
  notes,    \* connections whose status notification waits for the main actor
  watchdog, \* of the start each toggle made: "off", "on"
  moved,    \* the VPN has changed since
  restarted \* another start came after it

app == <<saved, vpn, owner, asked, manager, status, errorMessage, reloading, toggle, target,
         notes, watchdog, moved, restarted>>
vars == <<log, app>>

Config == 1 .. Configs
Tap == 1 .. Taps
Statuses == {"invalid", "disconnected", "connecting", "connected", "disconnecting"}

TypeOK ==
  /\ LogTypeOK
  /\ saved \subseteq Config /\ owner \in Config /\ notes \subseteq Config
  /\ vpn \in Statuses \ {"invalid"}
  /\ asked \in -1 .. Configs
  /\ manager \in 0 .. Configs
  /\ status \in Statuses
  /\ errorMessage \in {"none", "error", "hung"}
  /\ reloading \in 0 .. 2
  /\ toggle \in [Tap -> {"no", "saving", "loading", "enabling", "done"}]
  /\ target \in [Tap -> 0 .. Configs]
  /\ watchdog \in [Tap -> {"off", "on"}]
  /\ moved \in [Tap -> BOOLEAN] /\ restarted \in [Tap -> BOOLEAN]

\* connection.status of a manager.
ConnStatus(m, v, o) == IF m = 0 THEN "invalid" ELSE IF m = o THEN v ELSE "disconnected"

\* The system turns the VPN on or off as it was asked, and notifies the app; a VPN
\* of another configuration has to be gone.
Switches(what) ==
  /\ asked' = 0
  /\ moved' = [t \in Tap |-> moved[t] \/ watchdog[t] = "on"]
  /\ IF what = -1
     THEN /\ vpn' = IF vpn = "disconnected" THEN vpn ELSE "disconnecting"
          /\ notes' = notes \cup {owner}
          /\ UNCHANGED owner
     ELSE /\ vpn = "disconnected"
          /\ vpn' = "connecting"
          /\ owner' = what
          /\ notes' = notes \cup {owner, what}

\* It takes its time.
Asks(what) == asked' = what /\ UNCHANGED <<vpn, owner, notes, moved>>

-----------------------------------------------------------------------------
(* TunnelManager *)

\* Mutant of reload: the status is not published.
reload_Silent ==
  /\ reloading > 0
  /\ reloading' = reloading - 1
  /\ \E m \in {0} \cup (IF saved = {} THEN {} ELSE {Min(saved)}) : manager' = m
  /\ UNCHANGED <<saved, vpn, owner, asked, status, errorMessage, toggle, target, notes, watchdog,
                 moved, restarted>>

\* A reload() ends; loading may fail, which is as good as finding nothing.
reload ==
  /\ reloading > 0
  /\ reloading' = reloading - 1
  /\ \E m \in {0} \cup (IF saved = {} THEN {} ELSE {Min(saved)}) :
       manager' = m /\ status' = ConnStatus(m, vpn, owner)
  /\ UNCHANGED <<saved, vpn, owner, asked, errorMessage, toggle, target, notes, watchdog,
                 moved, restarted>>

\* The button is off while the status is on its way.
Enabled == status \notin {"connecting", "disconnecting"}

Unused == Config \ (saved \cup {target[t] : t \in Tap})

\* toggle() up to the first await: the configuration is the known one or a fresh one.
toggle_begins(t) ==
  /\ Enabled
  /\ toggle[t] = "no"
  /\ \A u \in Tap : u < t => toggle[u] # "no"
  /\ manager # 0 \/ Unused # {}
  /\ toggle' = [toggle EXCEPT ![t] = "saving"]
  /\ target' = [target EXCEPT ![t] = IF manager # 0 THEN manager ELSE Min(Unused)]
  /\ errorMessage' = "none"
  /\ UNCHANGED <<saved, vpn, owner, asked, manager, status, reloading, notes, watchdog, moved, restarted>>

\* saveToPreferences and loadFromPreferences, once, and again if the
\* configuration is not enabled yet.
toggle_saved(t) ==
  /\ toggle[t] = "saving"
  /\ saved' = saved \cup {target[t]}
  /\ \E next \in {"loading", "enabling"} : toggle' = [toggle EXCEPT ![t] = next]
  /\ UNCHANGED <<vpn, owner, asked, manager, status, errorMessage, reloading, target, notes, watchdog,
                 moved, restarted>>

toggle_enabled(t) ==
  /\ toggle[t] = "enabling"
  /\ toggle' = [toggle EXCEPT ![t] = "loading"]
  /\ UNCHANGED <<saved, vpn, owner, asked, manager, status, errorMessage, reloading, target, notes,
                 watchdog, moved, restarted>>

Running(s) == s \in {"connected", "connecting"}

\* The rest of toggle(): stop what runs, or start and set the watchdog, which does
\* nothing unless the status is "connecting" by now.
toggle_switches(t) ==
  LET stops == Running(ConnStatus(target[t], vpn, owner)) IN
  /\ toggle[t] = "loading"
  /\ toggle' = [toggle EXCEPT ![t] = "done"]
  /\ manager' = target[t]
  /\ \/ Asks(IF stops THEN -1 ELSE target[t])
     \/ Switches(IF stops THEN -1 ELSE target[t])
  /\ status' = ConnStatus(target[t], vpn', owner')
  /\ IF stops THEN UNCHANGED <<watchdog, restarted>>
     ELSE /\ watchdog' = [watchdog EXCEPT ![t] = IF status' = "connecting" THEN "on" ELSE "off"]
          /\ restarted' = [u \in Tap |-> restarted[u] \/ watchdog[u] = "on"]
  /\ UNCHANGED <<saved, errorMessage, reloading, target>>

\* An await, or startVPNTunnel, throws.
toggle_throws(t) ==
  /\ toggle[t] \in {"saving", "enabling", "loading"}
  /\ toggle' = [toggle EXCEPT ![t] = "done"]
  /\ errorMessage' = "error"
  /\ manager' = IF toggle[t] = "loading" THEN target[t] ELSE manager
  /\ status' = ConnStatus(manager', vpn, owner)
  /\ UNCHANGED <<saved, vpn, owner, asked, reloading, target, notes, watchdog, moved, restarted>>

\* A status notification: the handler reads the status when it runs.
statusDidChange(c) ==
  /\ c \in notes
  /\ notes' = notes \ {c}
  /\ status' = ConnStatus(c, vpn, owner)
  /\ UNCHANGED <<saved, vpn, owner, asked, manager, errorMessage, reloading, toggle, target, watchdog,
                 moved, restarted>>

\* Mutant of watchdogFires: the status it compares with is not looked at.
watchdogFires_Always(t) ==
  /\ watchdog[t] = "on"
  /\ watchdog' = [watchdog EXCEPT ![t] = "off"]
  /\ errorMessage' = "hung"
  /\ status' = IF manager = 0 THEN status ELSE ConnStatus(manager, vpn, owner)
  /\ UNCHANGED <<saved, vpn, owner, asked, manager, reloading, toggle, target, notes, moved,
                 restarted>>

\* 20 s after a start: is the status still the one right after it?
watchdogFires(t) ==
  /\ watchdog[t] = "on"
  /\ watchdog' = [watchdog EXCEPT ![t] = "off"]
  /\ IF status = "connecting"
     THEN /\ errorMessage' = "hung"
          /\ status' = IF manager = 0 THEN status ELSE ConnStatus(manager, vpn, owner)
     ELSE UNCHANGED <<errorMessage, status>>
  /\ UNCHANGED <<saved, vpn, owner, asked, manager, reloading, toggle, target, notes, moved,
                 restarted>>
=============================================================================
