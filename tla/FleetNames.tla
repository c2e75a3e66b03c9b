------------------------------- MODULE FleetNames -------------------------------
(* The names the modules of the controlling Mac share. *)
EXTENDS Integers

CONSTANTS
    Kvms,           \* profile names, numbered in the order of PIKVM_PROFILES
    EnvProfiles,    \* those of the environment; the others are managed ones
    HostOf,         \* profile -> its PiKVM host; a host's TOTP seed serves all its profiles
    Procs,          \* processes that run a command, and threads that run a job
    Editors,        \* commands and requests that edit profiles
    Agents,         \* launchd labels, numbered in the order of installation
    Recorder,       \* the key of the jobs that start or stop the meeting recorder
    Schedule,       \* the key of the jobs that install or remove the schedule
    None

ASSUME NamesAssumption ==
    /\ Kvms \subseteq Nat /\ Agents \subseteq Nat
    /\ EnvProfiles \subseteq Kvms
    /\ None \notin Procs \cup Agents

Keys == Kvms \cup {Recorder, Schedule}
================================================================================
