------------------------------- MODULE KvmProfiles -------------------------------
(***************************************************************************)
(* The named profiles: those of the environment, and the managed ones in a *)
(* file with the list of the disabled, whose passwords and TOTP seeds are  *)
(* in the keychain. Commands and dashboard requests load the file, change  *)
(* their copy and replace the file, without a lock.                        *)
(***************************************************************************)
EXTENDS FleetNames

Managed == Kvms \ EnvProfiles
Hosts == {HostOf[k] : k \in Kvms}

VARIABLES
    file,           \* [profiles, disabled]: the managed profile file
    passwords,      \* managed profiles with a password in the keychain
    seeds,          \* hosts with a TOTP seed in the keychain
    edit,           \* editor -> what it does, its copy of the file, where it is
    overlapped      \* history: an edit was begun while another was under way

profileVars == <<file, passwords, seeds, edit, overlapped>>

NoEdit == [pc |-> "idle", op |-> None, kvm |-> None,
           copy |-> [profiles |-> {}, disabled |-> {}], remaining |-> {}]

ProfilesInit ==
    /\ file = [profiles |-> Managed, disabled |-> {}]
    /\ passwords = file.profiles
    /\ seeds \in SUBSET Hosts
    /\ edit = [e \in Editors |-> NoEdit]
    /\ overlapped = FALSE

Known == EnvProfiles \cup file.profiles
Enabled == Known \ file.disabled

\* PiKVMSettings.from_env: the profile is known, not disabled, and has a password.
Usable(k) == k \in Enabled /\ (k \in EnvProfiles \/ k \in passwords)

\* Slip: the disabled profiles do not count as users of a host.
HostsOfEnabledOthers(k) == {HostOf[j] : j \in Enabled \ {k}}

HostsOfOthers(k) == {HostOf[j] : j \in Known \ {k}}

BeginEdit(e, op, k, copy, remaining, pc) ==
    /\ edit[e].pc = "idle"
    /\ edit' = [edit EXCEPT ![e] =
                  [pc |-> pc, op |-> op, kvm |-> k, copy |-> copy, remaining |-> remaining]]
    /\ overlapped' = (overlapped \/ \E f \in Editors \ {e} : edit[f].pc # "idle")

EditAt(e, pc) == edit[e].pc = pc
EditGoto(e, pc) == edit' = [edit EXCEPT ![e].pc = pc]
EditEnds(e) == edit' = [edit EXCEPT ![e] = NoEdit]

\* add: the file is loaded and the name, the URL and the user are checked.
AddLoad(e, k) ==
    /\ k \in Managed \ file.profiles
    /\ BeginEdit(e, "add", k, [file EXCEPT !.profiles = @ \cup {k}], {}, "secret")
    /\ UNCHANGED <<file, passwords, seeds>>

\* The password goes to the keychain, which may refuse it.
AddSecret(e) ==
    /\ EditAt(e, "secret")
    /\ \/ passwords' = passwords \cup {edit[e].kvm} /\ EditGoto(e, "save")
       \/ passwords' = passwords /\ EditEnds(e)
    /\ UNCHANGED <<file, seeds, overlapped>>

\* remove: what the other profiles need, then the file.
RemoveHosts(e, k) ==
    /\ k \in file.profiles \ EnvProfiles
    /\ BeginEdit(e, "remove", k, file, HostsOfOthers(k), "load")
    /\ UNCHANGED <<file, passwords, seeds>>

RemoveLoad(e) ==
    /\ EditAt(e, "load")
    /\ IF edit[e].kvm \in file.profiles
       THEN edit' = [edit EXCEPT ![e].pc = "save",
                ![e].copy = [profiles |-> file.profiles \ {edit[e].kvm},
                             disabled |-> file.disabled \ {edit[e].kvm}]]
       ELSE EditEnds(e)
    /\ UNCHANGED <<file, passwords, seeds, overlapped>>

\* set_enabled, for a profile of either source.
SetEnabledLoad(e, k, enabled) ==
    /\ k \in Known
    /\ BeginEdit(e, IF enabled THEN "enable" ELSE "disable", k,
             [file EXCEPT !.disabled = IF enabled THEN @ \ {k} ELSE @ \cup {k}], {}, "save")
    /\ UNCHANGED <<file, passwords, seeds>>

\* The copy replaces the file.
Save(e) ==
    /\ EditAt(e, "save")
    /\ file' = edit[e].copy
    /\ IF edit[e].op = "remove" THEN EditGoto(e, "password") ELSE EditEnds(e)
    /\ UNCHANGED <<passwords, seeds, overlapped>>

\* The file cannot be written: an add takes its password back, if it can.
SaveFails(e) ==
    /\ EditAt(e, "save")
    /\ passwords' \in IF edit[e].op = "add" THEN {passwords, passwords \ {edit[e].kvm}} ELSE {passwords}
    /\ EditEnds(e)
    /\ UNCHANGED <<file, seeds, overlapped>>

\* The keychain forgets the password, or refuses to.
RemovePassword(e) ==
    /\ EditAt(e, "password")
    /\ passwords' \in {passwords, passwords \ {edit[e].kvm}}
    /\ EditGoto(e, "seed")
    /\ UNCHANGED <<file, seeds, overlapped>>

\* The seed goes with the last profile of its host.
RemoveSeed(e) ==
    /\ EditAt(e, "seed")
    /\ seeds' \in IF HostOf[edit[e].kvm] \in edit[e].remaining THEN {seeds}
                  ELSE {seeds, seeds \ {HostOf[edit[e].kvm]}}
    /\ EditEnds(e)
    /\ UNCHANGED <<file, passwords, overlapped>>

\* enroll_totp_seed: the new seed is stored and read back, ...
Enroll(e, k) ==
    /\ Usable(k)
    /\ BeginEdit(e, "enroll", k, file, seeds \cap {HostOf[k]}, "verify")
    /\ seeds' = seeds \cup {HostOf[k]}
    /\ UNCHANGED <<file, passwords>>

\* ... and kept when a login with it works, else what was there before is restored,
\* if the keychain lets it.
Verify(e, works) ==
    /\ EditAt(e, "verify")
    /\ seeds' \in IF works \/ edit[e].remaining # {} THEN {seeds}
                  ELSE {seeds, seeds \ {HostOf[edit[e].kvm]}}
    /\ EditEnds(e)
    /\ UNCHANGED <<file, passwords, overlapped>>

\* The command or the dashboard dies between two steps of an edit.
EditorDies(e) ==
    /\ ~EditAt(e, "idle")
    /\ EditEnds(e)
    /\ UNCHANGED <<file, passwords, seeds, overlapped>>

EditStep(e) ==
    \/ AddSecret(e) \/ RemoveLoad(e) \/ Save(e) \/ RemovePassword(e) \/ RemoveSeed(e)
    \/ Verify(e, TRUE)
EditFault(e) == SaveFails(e) \/ Verify(e, FALSE) \/ EditorDies(e)

--------------------------------------------------------------------------------
\* While edits do not overlap, every managed profile has its password whenever none
\* is under way, and a removal never takes the TOTP seed of a host that a profile
\* still uses, be it disabled, whichever step fails and wherever the editor dies
\* (pikvm/profiles.py:196-197, the order of file and keychain in add and remove).
SecretsFollowProfiles ==
    [][/\ ~overlapped' /\ (\A e \in Editors : edit'[e].pc = "idle") => file'.profiles \subseteq passwords'
       /\ \A e \in Editors : ~overlapped /\ EditAt(e, "seed") =>
             seeds \ seeds' \subseteq Hosts \ {HostOf[k] : k \in Known}]_profileVars
================================================================================
