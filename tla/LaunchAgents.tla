------------------------------ MODULE LaunchAgents ------------------------------
(***************************************************************************)
(* The launchd agents of the schedule: a property list on disk for each,   *)
(* and the definition launchd has loaded. launchctl answers, fails, or     *)
(* does not answer in time, and an installation starts from whatever an    *)
(* earlier version or an earlier failure has left.                         *)
(***************************************************************************)
EXTENDS FleetNames

VARIABLE agent      \* label -> [plist, loaded]: None, the "old" or the "new" definition

CONSTANT Installations      \* what may be installed at first: None, "old", "new"

AgentsInit ==
    \E d \in Installations : agent = [a \in Agents |-> [plist |-> d, loaded |-> d]]

\* The file on disk is the generated one, and launchd has the label.
UpToDate(a) == agent[a].plist = "new" /\ agent[a].loaded # None

Becomes(a, plist, loaded) == agent' = [agent EXCEPT ![a] = [plist |-> plist, loaded |-> loaded]]

\* The file is written, the label booted out and loaded again.
Reload(a) == ~UpToDate(a) /\ Becomes(a, "new", "new")

\* launchd cannot load it, or keeps the old one and therefore refuses the new.
ReloadFails(a) == ~UpToDate(a) /\ \E l \in {None, agent[a].loaded} : Becomes(a, "new", l)

\* A probe or a launchctl call does not answer, or the file cannot be written: the
\* installation stops where it is.
ReloadStops(a) ==
    \/ UNCHANGED agent
    \/ ~UpToDate(a) /\ \E l \in {None, "new", agent[a].loaded} : Becomes(a, "new", l)

\* Uninstalling: the label is booted out, and the file removed whatever launchctl says.
Unload(a) == Becomes(a, None, None)
UnloadRefused(a) == Becomes(a, None, agent[a].loaded)
UnloadStops(a) == \E l \in {None, agent[a].loaded} : Becomes(a, agent[a].plist, l)
================================================================================
