--------------------------- MODULE FleetControlProofs ---------------------------
(***************************************************************************)
(* The controlling Mac, proved for any number of processes, profiles,      *)
(* agents and retries: it uses its job manager as DashboardJobs has it;    *)
(* edits of profiles keep their secrets; runs report what they did and     *)
(* records tell what Slack shows; and the clock's searches agree.          *)
(***************************************************************************)
EXTENDS FleetControl, DashboardJobsProofs, WellFoundedInduction

Files == [profiles : SUBSET Kvms, disabled : SUBSET Kvms]

Edit == [pc : {"idle", "secret", "load", "save", "password", "seed", "verify"},
         op : {"add", "remove", "enable", "disable", "enroll", None},
         kvm : Kvms \cup {None}, copy : Files, remaining : SUBSET Hosts]

\* The profile file and the copies of it name profiles only: what a job reserves are keys.
FilesOK == file \in Files /\ edit \in [Editors -> Edit]

LEMMA InitFiles == Init => FilesOK
  BY NamesAssumption DEF Init, ProfilesInit, FilesOK, Files, Edit, NoEdit, Managed

LEMMA KnownAreKvms == FilesOK => Known \subseteq Kvms
  BY NamesAssumption DEF FilesOK, Files, Known

\* An edit that begins has a copy of its own.
LEMMA BeginOK ==
    ASSUME FilesOK, NEW e \in Editors, NEW k \in Kvms, NEW copy \in Files,
           NEW op \in {"add", "remove", "enable", "disable", "enroll"},
           NEW remaining \in SUBSET Hosts, NEW pc \in {"secret", "load", "save", "verify"},
           BeginEdit(e, op, k, copy, remaining, pc)
    PROVE  edit' \in [Editors -> Edit]
  <1>1. [pc |-> pc, op |-> op, kvm |-> k, copy |-> copy, remaining |-> remaining] \in Edit
    BY DEF Edit
  <1> QED BY <1>1 DEF BeginEdit, FilesOK

LEMMA EditsPreserve ==
    ASSUME FilesOK, Edits
    PROVE  FilesOK'
  <1>1. PICK e \in Editors, k \in Kvms :
            \/ AddLoad(e, k) \/ RemoveHosts(e, k) \/ Enroll(e, k)
            \/ \E enabled \in BOOLEAN : SetEnabledLoad(e, k, enabled)
    BY DEF Edits
  <1>2. file \in Files
    BY DEF FilesOK
  <1>3. CASE AddLoad(e, k)
    <2>1. [file EXCEPT !.profiles = @ \cup {k}] \in Files
      BY <1>2 DEF Files
    <2>2. edit' \in [Editors -> Edit]
      BY <1>3, <2>1, BeginOK DEF AddLoad
    <2> QED BY <1>2, <1>3, <2>2 DEF AddLoad, FilesOK
  <1>4. CASE RemoveHosts(e, k)
    <2>1. HostsOfOthers(k) \subseteq Hosts
      BY KnownAreKvms DEF HostsOfOthers, Hosts
    <2>2. edit' \in [Editors -> Edit]
      BY <1>2, <1>4, <2>1, BeginOK DEF RemoveHosts
    <2> QED BY <1>2, <1>4, <2>2 DEF RemoveHosts, FilesOK
  <1>5. CASE Enroll(e, k)
    <2>1. seeds \cap {HostOf[k]} \subseteq Hosts
      BY DEF Hosts
    <2>2. edit' \in [Editors -> Edit]
      BY <1>2, <1>5, <2>1, BeginOK DEF Enroll
    <2> QED BY <1>2, <1>5, <2>2 DEF Enroll, FilesOK
  <1>6. ASSUME NEW enabled \in BOOLEAN, SetEnabledLoad(e, k, enabled) PROVE FilesOK'
    <2>1. [file EXCEPT !.disabled = IF enabled THEN @ \ {k} ELSE @ \cup {k}] \in Files
      BY <1>2 DEF Files
    <2>2. edit' \in [Editors -> Edit]
      BY <1>6, <2>1, BeginOK DEF SetEnabledLoad
    <2> QED BY <1>2, <1>6, <2>2 DEF SetEnabledLoad, FilesOK
  <1> QED BY <1>1, <1>3, <1>4, <1>5, <1>6

\* An edit under way replaces the file by its copy, or moves on.
LEMMA EditingPreserves ==
    ASSUME FilesOK, Editing
    PROVE  FilesOK'
  <1>1. PICK e \in Editors : EditStep(e) \/ EditFault(e)
    BY DEF Editing
  <1>2. edit[e] \in Edit /\ edit[e].copy \in Files /\ file \in Files
    BY DEF FilesOK, Edit
  <1>3. NoEdit \in Edit
    BY DEF NoEdit, Edit, Files
  <1>4. EditEnds(e) => edit' \in [Editors -> Edit]
    BY <1>3 DEF EditEnds, FilesOK
  <1>5. \A pc \in {"save", "password", "seed"} : EditGoto(e, pc) => edit' \in [Editors -> Edit]
    BY <1>2 DEF EditGoto, FilesOK, Edit
  <1>6. CASE AddSecret(e)
    BY <1>2, <1>4, <1>5, <1>6 DEF AddSecret, FilesOK
  <1>7. CASE RemoveLoad(e)
    <2> DEFINE copy == [profiles |-> file.profiles \ {edit[e].kvm},
                        disabled |-> file.disabled \ {edit[e].kvm}]
    <2>1. copy \in Files
      BY <1>2 DEF Files
    <2>2. [edit[e] EXCEPT !.pc = "save", !.copy = copy] \in Edit
      BY <1>2, <2>1 DEF Edit
    <2>3. edit' \in [Editors -> Edit]
      BY <1>4, <1>7, <2>2 DEF RemoveLoad, FilesOK
    <2> QED BY <1>2, <1>7, <2>3 DEF RemoveLoad, FilesOK
  <1>8. CASE Save(e)
    BY <1>2, <1>4, <1>5, <1>8 DEF Save, FilesOK
  <1>9. CASE RemovePassword(e)
    BY <1>2, <1>5, <1>9 DEF RemovePassword, FilesOK
  <1>10. CASE RemoveSeed(e)
    BY <1>2, <1>4, <1>10 DEF RemoveSeed, FilesOK
  <1>11. ASSUME NEW works \in BOOLEAN, Verify(e, works) PROVE FilesOK'
    BY <1>2, <1>4, <1>11 DEF Verify, FilesOK
  <1>12. CASE SaveFails(e)
    BY <1>2, <1>4, <1>12 DEF SaveFails, FilesOK
  <1>13. CASE EditorDies(e)
    BY <1>2, <1>4, <1>13 DEF EditorDies, FilesOK
  <1> QED BY <1>1, <1>6, <1>7, <1>8, <1>9, <1>10, <1>11, <1>12, <1>13 DEF EditStep, EditFault

\* Everything else leaves the file and the edits alone.
OtherStep ==
    \/ \E p \in Procs :
          \/ Command(p) \/ Exit(p)
          \/ \E a \in Agents : Fires(p, a)
          \/ Request(p) \/ JobBegins(p) \/ JobCannotBegin(p) \/ CancelRequest(p)
          \/ JobSettles(p) \/ JobReturns(p)
          \/ Step(p) /\ keepJobs /\ UNCHANGED left
          \/ StepFails(p) /\ Spend("faults") /\ keepJobs
    \/ Dies
    \/ Tick

LEMMA OthersKeepFiles == OtherStep => UNCHANGED profileVars
  BY DEF OtherStep, Command, Exit, Fires, Request, JobBegins, JobCannotBegin, CancelRequest,
     JobSettles, JobReturns, Step, StepFails, Dies, Tick, keepFiles, profileVars

LEMMA FilesPreserved == FilesOK /\ [Next]_vars => FilesOK'
  <1> SUFFICES ASSUME FilesOK, [Next]_vars PROVE FilesOK'
    OBVIOUS
  <1>1. CASE OtherStep
    BY <1>1, OthersKeepFiles DEF FilesOK, profileVars
  <1>2. CASE Edits
    BY <1>2, EditsPreserve
  <1>3. CASE Editing
    BY <1>3, EditingPreserves
  <1>4. CASE UNCHANGED vars
    BY <1>4 DEF vars, FilesOK
  <1> QED BY <1>1, <1>2, <1>3, <1>4 DEF Next, OtherStep

--------------------------------------------------------------------------------
\* A request reserves profiles, the recorder or the schedule.
LEMMA RequestStartsJob ==
    ASSUME FilesOK, NEW p \in Procs, Request(p)
    PROVE  JobNext
  <1>1. Enabled \subseteq Kvms
    BY KnownAreKvms DEF Enabled
  <1>2. PICK mode \in JobModes :
            \E asked \in {Enabled} \cup IF mode \in {"set", "read"} THEN {{k} : k \in Enabled \cap Alone} ELSE {} :
                StartJob(p, IF mode = "meeting" THEN {Recorder}
                            ELSE IF mode \in {"install", "uninstall"} THEN {Schedule}
                            ELSE {k \in asked : Usable(k)},
                         mode \in {"now", "forced"})
    BY Zenon DEF Request
  <1>3. PICK asked \in SUBSET Kvms :
                StartJob(p, IF mode = "meeting" THEN {Recorder}
                            ELSE IF mode \in {"install", "uninstall"} THEN {Schedule}
                            ELSE {k \in asked : Usable(k)},
                         mode \in {"now", "forced"})
    BY <1>1, <1>2
  <1> DEFINE keys == IF mode = "meeting" THEN {Recorder}
                     ELSE IF mode \in {"install", "uninstall"} THEN {Schedule}
                     ELSE {k \in asked : Usable(k)}
  <1>4. keys \in SUBSET Keys
    BY DEF Keys
  <1> DEFINE cancellable == mode \in {"now", "forced"}
  <1>5. StartJob(p, keys, cancellable)
    BY <1>3
  <1>6. cancellable \in BOOLEAN
    OBVIOUS
  <1> HIDE DEF keys, cancellable
  <1> QED BY <1>4, <1>5, <1>6 DEF JobNext

LEMMA StatusIsOutcome == \A r, c : Status(r, c) \in Outcomes
  BY DEF Status, Outcomes

LEMMA StepIsJobStep == FilesOK /\ [Next]_vars => [JobNext]_jobVars
  <1> SUFFICES ASSUME FilesOK, [Next]_vars PROVE [JobNext]_jobVars
    OBVIOUS
  <1>1. ASSUME NEW p \in Procs, Request(p) PROVE JobNext
    BY <1>1, RequestStartsJob
  <1>2. ASSUME NEW p \in Procs, JobBegins(p) PROVE JobNext
    BY <1>2 DEF JobBegins, JobNext
  <1>3. ASSUME NEW p \in Procs, JobCannotBegin(p) PROVE JobNext
    BY <1>3 DEF JobCannotBegin, JobNext
  <1>4. ASSUME NEW p \in Procs, CancelRequest(p) PROVE JobNext
    BY <1>4 DEF CancelRequest, JobNext
  <1>5. ASSUME NEW p \in Procs, JobSettles(p) PROVE JobNext
    BY <1>5, StatusIsOutcome DEF JobSettles, JobNext
  <1>6. ASSUME NEW p \in Procs, JobReturns(p) PROVE JobNext
    BY <1>6 DEF JobReturns, JobNext
  <1>7. ASSUME NEW p \in Procs,
               \/ Command(p) \/ Exit(p)
               \/ \E a \in Agents : Fires(p, a)
               \/ Step(p) /\ keepJobs /\ UNCHANGED left
               \/ StepFails(p) /\ Spend("faults") /\ keepJobs
        PROVE  UNCHANGED jobVars
    BY <1>7 DEF Command, Exit, Fires, keepJobs
  <1>8. CASE Dies
    BY <1>8 DEF Dies, keepJobs, JobNext
  <1>9. CASE (Edits \/ Editing) /\ UNCHANGED <<run, record, agent>> /\ keepHistory /\ keepJobs
    BY <1>9 DEF keepJobs
  <1>10. CASE Tick
    BY <1>10 DEF Tick, keepJobs
  <1>11. CASE UNCHANGED vars
    BY <1>11 DEF vars, jobVars
  <1> QED BY <1>1, <1>2, <1>3, <1>4, <1>5, <1>6, <1>7, <1>8, <1>9, <1>10, <1>11 DEF Next

\* Whatever else runs on the Mac, its jobs are those of the job manager.
THEOREM FleetImplementsJobs == Spec => JobSpec
  <1>1. Init => JobsInit
    BY DEF Init
  <1> QED BY <1>1, InitFiles, FilesPreserved, StepIsJobStep, PTL DEF Spec, JobSpec

\* With any number of processes, profiles, retries and agents, a key is reserved by
\* exactly the job whose thread holds it.
THEOREM FleetKeysFollowThreads == Spec => []KeysFollowThreads
  BY FleetImplementsJobs, KeysFollowThreadsHolds, PTL

--------------------------------------------------------------------------------
\* An edit that adds k, and one that removes it, with the file it started from.
Adds(e) ==
    LET k == edit[e].kvm IN
    /\ edit[e].op = "add" /\ k \in Managed \ file.profiles
    /\ edit[e].copy.profiles = file.profiles \cup {k}

Removes(e) ==
    LET k == edit[e].kvm IN
    /\ edit[e].op = "remove" /\ k \in Managed
    /\ HostsOfOthers(k) \subseteq edit[e].remaining

Keeps(e) ==
    LET k == edit[e].kvm IN
    /\ EditAt(e, "secret") => Adds(e)
    /\ EditAt(e, "load") => Removes(e)
    /\ EditAt(e, "save") =>
          \/ Adds(e) /\ k \in passwords
          \/ Removes(e) /\ edit[e].copy.profiles = file.profiles \ {k}
          \/ edit[e].op \in {"enable", "disable"} /\ edit[e].copy.profiles = file.profiles
    /\ EditAt(e, "password") \/ EditAt(e, "seed") => Removes(e) /\ k \notin file.profiles

\* While no edits have overlapped: one edit at a time, and the file and the keychain
\* are what its place says.
ProfilesInv ==
    ~overlapped =>
        /\ \A e, f \in Editors : ~EditAt(e, "idle") /\ ~EditAt(f, "idle") => e = f
        /\ file.profiles \subseteq Managed \cap passwords
        /\ \A e \in Editors : Keeps(e)

\* A removal takes no seed of a host that a profile still uses.
SeedsStay ==
    \A e \in Editors : ~overlapped /\ EditAt(e, "seed") =>
        seeds \ seeds' \subseteq Hosts \ {HostOf[k] : k \in Known}

LEMMA InitKeepsProfiles == Init => ProfilesInv
  BY DEF Init, ProfilesInit, ProfilesInv, NoEdit, Keeps, EditAt

\* An edit begins when no other is under way, or the edits overlap from then on.
Begins(e) ==
    /\ \A f \in Editors \ {e} : edit'[f] = edit[f]
    /\ overlapped' = (overlapped \/ \E f \in Editors \ {e} : ~EditAt(f, "idle"))
    /\ UNCHANGED <<file, passwords>>

LEMMA BeginKeeps ==
    ASSUME ProfilesInv, NEW e \in Editors, Begins(e), Keeps(e)'
    PROVE  ProfilesInv'
  <1> SUFFICES ASSUME ~overlapped' PROVE ProfilesInv'
    BY DEF ProfilesInv
  <1>1. ~overlapped /\ \A f \in Editors \ {e} : EditAt(f, "idle") /\ edit'[f] = edit[f]
    BY DEF Begins
  <1>2. \A f \in Editors \ {e} : Keeps(f)'
    BY <1>1 DEF Keeps, EditAt
  <1> QED
    BY <1>1, <1>2 DEF ProfilesInv, EditAt, Begins

LEMMA EditsKeepProfiles ==
    ASSUME FilesOK, ProfilesInv, Edits
    PROVE  ProfilesInv' /\ SeedsStay
  <1>1. PICK e \in Editors, k \in Kvms :
            \/ AddLoad(e, k) \/ RemoveHosts(e, k) \/ Enroll(e, k)
            \/ \E enabled \in BOOLEAN : SetEnabledLoad(e, k, enabled)
    BY DEF Edits
  <1>2. file \in Files /\ edit \in [Editors -> Edit]
    BY DEF FilesOK
  <1>3. SeedsStay
    BY <1>1 DEF SeedsStay, AddLoad, RemoveHosts, Enroll, SetEnabledLoad
  <1>4. CASE AddLoad(e, k)
    <2> DEFINE copy == [file EXCEPT !.profiles = @ \cup {k}]
    <2>1. copy \in Files /\ copy.profiles = file.profiles \cup {k}
      BY <1>2 DEF Files
    <2>2. /\ BeginEdit(e, "add", k, copy, {}, "secret") /\ k \in Managed \ file.profiles
          /\ UNCHANGED <<file, passwords>>
      BY <1>4 DEF AddLoad
    <2> HIDE DEF copy
    <2>3. Keeps(e)'
      BY <1>2, <2>1, <2>2 DEF BeginEdit, Keeps, Adds, EditAt
    <2>4. Begins(e)
      BY <1>2, <2>2 DEF BeginEdit, Begins, EditAt
    <2> QED
      BY <1>3, <2>3, <2>4, BeginKeeps
  <1>5. CASE RemoveHosts(e, k)
    <2>1. k \in Managed
      BY <1>5 DEF RemoveHosts, Managed
    <2>2. /\ BeginEdit(e, "remove", k, file, HostsOfOthers(k), "load")
          /\ UNCHANGED <<file, passwords>>
      BY <1>5 DEF RemoveHosts
    <2>3. Keeps(e)'
      BY <1>2, <2>1, <2>2 DEF BeginEdit, Keeps, Removes, EditAt, HostsOfOthers, Known
    <2>4. Begins(e)
      BY <1>2, <2>2 DEF BeginEdit, Begins, EditAt
    <2> QED
      BY <1>3, <2>3, <2>4, BeginKeeps
  <1>6. CASE Enroll(e, k)
    <2>1. /\ BeginEdit(e, "enroll", k, file, seeds \cap {HostOf[k]}, "verify")
          /\ UNCHANGED <<file, passwords>>
      BY <1>6 DEF Enroll
    <2>2. Keeps(e)'
      BY <1>2, <2>1 DEF BeginEdit, Keeps, EditAt
    <2>3. Begins(e)
      BY <1>2, <2>1 DEF BeginEdit, Begins, EditAt
    <2> QED
      BY <1>3, <2>2, <2>3, BeginKeeps
  <1>7. ASSUME NEW enabled \in BOOLEAN, SetEnabledLoad(e, k, enabled) PROVE ProfilesInv'
    <2> DEFINE copy == [file EXCEPT !.disabled = IF enabled THEN @ \ {k} ELSE @ \cup {k}]
               op == IF enabled THEN "enable" ELSE "disable"
    <2>1. copy \in Files /\ copy.profiles = file.profiles /\ op \in {"enable", "disable"}
      BY <1>2 DEF Files
    <2>2. BeginEdit(e, op, k, copy, {}, "save") /\ UNCHANGED <<file, passwords>>
      BY <1>7 DEF SetEnabledLoad
    <2> HIDE DEF copy, op
    <2>3. Keeps(e)'
      BY <1>2, <2>1, <2>2 DEF BeginEdit, Keeps, EditAt
    <2>4. Begins(e)
      BY <1>2, <2>2 DEF BeginEdit, Begins, EditAt
    <2> QED
      BY <2>3, <2>4, BeginKeeps
  <1> QED
    BY <1>1, <1>3, <1>4, <1>5, <1>6, <1>7

\* An edit that moves on alone keeps what its place says, and the others are idle.
LEMMA MoveKeeps ==
    ASSUME FilesOK, ProfilesInv, NEW e \in Editors, ~EditAt(e, "idle"), UNCHANGED overlapped,
           \A f \in Editors \ {e} : edit'[f] = edit[f],
           ~overlapped => file'.profiles \subseteq Managed \cap passwords' /\ Keeps(e)'
    PROVE  ProfilesInv'
  <1> SUFFICES ASSUME ~overlapped PROVE ProfilesInv'
    BY DEF ProfilesInv
  <1>1. \A f \in Editors \ {e} : EditAt(f, "idle") /\ edit'[f] = edit[f]
    BY DEF ProfilesInv
  <1>2. \A f \in Editors \ {e} : Keeps(f)'
    BY <1>1 DEF Keeps, EditAt
  <1> QED
    BY <1>1, <1>2 DEF ProfilesInv, EditAt

LEMMA EditingKeepsProfiles ==
    ASSUME FilesOK, ProfilesInv, Editing
    PROVE  ProfilesInv' /\ SeedsStay
  <1>1. PICK e \in Editors : EditStep(e) \/ EditFault(e)
    BY DEF Editing
  <1> DEFINE k == edit[e].kvm
  <1>2. file \in Files /\ edit \in [Editors -> Edit] /\ edit[e] \in Edit
    BY DEF FilesOK
  <1>3. /\ UNCHANGED overlapped /\ ~EditAt(e, "idle")
        /\ \A f \in Editors \ {e} : edit'[f] = edit[f]
    BY <1>1, <1>2 DEF EditStep, EditFault, AddSecret, RemoveLoad, Save, SaveFails,
                      RemovePassword, RemoveSeed, Verify, EditorDies, EditAt, EditGoto, EditEnds
  <1>4. ~overlapped =>
           /\ \A f \in Editors \ {e} : EditAt(f, "idle")
           /\ file.profiles \subseteq Managed \cap passwords /\ Keeps(e)
    BY <1>3 DEF ProfilesInv
  <1>5. SeedsStay
    <2> SUFFICES ASSUME ~overlapped, EditAt(e, "seed"), HostOf[k] \in seeds \ seeds'
                 PROVE  HostOf[k] \in Hosts \ {HostOf[j] : j \in Known}
      <3>1. ASSUME NEW f \in Editors, ~overlapped, EditAt(f, "seed")
            PROVE  f = e
        BY <1>4, <3>1 DEF EditAt
      <3>2. EditAt(e, "seed") => seeds \ seeds' \subseteq {HostOf[k]}
        BY <1>1 DEF EditStep, EditFault, AddSecret, RemoveLoad, Save, SaveFails,
                    RemovePassword, RemoveSeed, Verify, EditorDies, EditAt
      <3> QED
        BY <3>1, <3>2 DEF SeedsStay
    <2>1. HostOf[k] \notin edit[e].remaining
      BY <1>1 DEF EditStep, EditFault, AddSecret, RemoveLoad, Save, SaveFails,
                  RemovePassword, RemoveSeed, Verify, EditorDies, EditAt
    <2>2. HostsOfOthers(k) \subseteq edit[e].remaining /\ k \in Managed \ file.profiles
      BY <1>4 DEF Keeps, Removes
    <2>3. Known = Known \ {k}
      BY <2>2 DEF Known, Managed
    <2> QED
      BY <2>1, <2>2, <2>3 DEF HostsOfOthers, Hosts, Managed
  <1> SUFFICES ASSUME ~overlapped
               PROVE  file'.profiles \subseteq Managed \cap passwords' /\ Keeps(e)'
    BY <1>3, <1>5, MoveKeeps
  <1>6. CASE AddSecret(e)
    <2>1. Adds(e) /\ file' = file
      BY <1>4, <1>6 DEF AddSecret, Keeps
    <2>2. CASE /\ edit' = [edit EXCEPT ![e] = NoEdit] /\ passwords' = passwords
      BY <1>2, <1>4, <2>1, <2>2 DEF EditAt, NoEdit, Keeps
    <2>3. CASE edit' = [edit EXCEPT ![e].pc = "save"] /\ passwords' = passwords \cup {k}
      <3>1. /\ edit'[e].pc = "save" /\ edit'[e].copy = edit[e].copy /\ edit'[e].kvm = k
            /\ edit'[e].op = edit[e].op
        BY <1>2, <2>3 DEF Edit
      <3> QED
        BY <1>4, <2>1, <2>3, <3>1 DEF Keeps, EditAt, Adds
    <2> QED
      BY <1>6, <2>2, <2>3 DEF AddSecret, EditEnds, EditGoto
  <1>7. CASE RemoveLoad(e)
    <2>1. Removes(e) /\ file' = file /\ passwords' = passwords
      BY <1>4, <1>7 DEF RemoveLoad, Keeps
    <2>2. CASE edit' = [edit EXCEPT ![e] = NoEdit]
      BY <1>2, <1>4, <2>1, <2>2 DEF EditAt, NoEdit, Keeps
    <2> DEFINE copy == [profiles |-> file.profiles \ {k}, disabled |-> file.disabled \ {k}]
    <2>3. copy.profiles = file.profiles \ {k}
      OBVIOUS
    <2>4. CASE edit' = [edit EXCEPT ![e].pc = "save", ![e].copy = copy]
      <3> HIDE DEF copy
      <3>1. /\ edit'[e].pc = "save" /\ edit'[e].copy = copy /\ edit'[e].kvm = k
            /\ edit'[e].op = edit[e].op /\ edit'[e].remaining = edit[e].remaining
        BY <1>2, <2>4 DEF Edit
      <3>2. HostsOfOthers(k)' = HostsOfOthers(k)
        BY <2>1, <3>1 DEF HostsOfOthers, Known
      <3> QED
        BY <1>4, <2>1, <2>3, <3>1, <3>2 DEF Keeps, EditAt, Removes, HostsOfOthers, Known
    <2> QED
      BY <1>7, <2>2, <2>4 DEF RemoveLoad, EditEnds
  <1>8. CASE Save(e)
    <2>1. /\ file' = edit[e].copy /\ passwords' = passwords
          /\ \/ Adds(e) /\ k \in passwords
             \/ Removes(e) /\ edit[e].copy.profiles = file.profiles \ {k}
             \/ edit[e].op \in {"enable", "disable"} /\ edit[e].copy.profiles = file.profiles
      BY <1>4, <1>8 DEF Save, Keeps
    <2>2. file'.profiles \subseteq Managed \cap passwords'
      BY <1>4, <2>1 DEF Adds
    <2>3. CASE edit[e].op = "remove"
      <3>1. edit' = [edit EXCEPT ![e].pc = "password"]
        BY <1>8, <2>3 DEF Save, EditGoto
      <3>2. /\ edit'[e].pc = "password" /\ edit'[e].op = "remove" /\ edit'[e].kvm = k
            /\ edit'[e].remaining = edit[e].remaining
        BY <1>2, <2>3, <3>1 DEF Edit
      <3>3. Removes(e) /\ file'.profiles = file.profiles \ {k}
        BY <2>1, <2>3 DEF Adds
      <3> QED
        BY <2>2, <3>2, <3>3 DEF Keeps, EditAt, Removes, HostsOfOthers, Known
    <2>4. CASE edit[e].op # "remove"
      <3>1. edit'[e] = NoEdit
        BY <1>2, <1>8, <2>4 DEF Save, EditEnds
      <3> QED
        BY <2>2, <3>1 DEF Keeps, EditAt, NoEdit
    <2> QED
      BY <2>3, <2>4
  <1>9. CASE SaveFails(e)
    <2>1. file' = file /\ edit'[e] = NoEdit
      BY <1>2, <1>9 DEF SaveFails, EditEnds
    <2>2. file.profiles \subseteq passwords'
      <3>1. passwords' \in IF edit[e].op = "add" THEN {passwords, passwords \ {k}} ELSE {passwords}
        BY <1>9 DEF SaveFails
      <3>2. edit[e].op = "add" => k \notin file.profiles
        BY <1>4, <1>9 DEF SaveFails, Keeps, Adds, Removes
      <3> QED
        BY <1>4, <3>1, <3>2
    <2> QED
      BY <1>4, <2>1, <2>2 DEF Keeps, EditAt, NoEdit
  <1>10. CASE RemovePassword(e)
    BY <1>2, <1>4, <1>10 DEF RemovePassword, EditAt, EditGoto, Keeps, Removes, HostsOfOthers,
                             Known
  <1>11. CASE RemoveSeed(e)
    BY <1>2, <1>4, <1>11 DEF RemoveSeed, EditAt, EditEnds, NoEdit, Keeps
  <1>12. ASSUME NEW works \in BOOLEAN, Verify(e, works)
         PROVE  file'.profiles \subseteq Managed \cap passwords' /\ Keeps(e)'
    BY <1>2, <1>4, <1>12 DEF Verify, EditAt, EditEnds, NoEdit, Keeps
  <1>13. CASE EditorDies(e)
    BY <1>2, <1>4, <1>13 DEF EditorDies, EditAt, EditEnds, NoEdit, Keeps
  <1> QED
    BY <1>1, <1>6, <1>7, <1>8, <1>9, <1>10, <1>11, <1>12, <1>13 DEF EditStep, EditFault

LEMMA ProfilesKept ==
    FilesOK /\ ProfilesInv /\ [Next]_vars => ProfilesInv' /\ (SeedsStay \/ UNCHANGED profileVars)
  <1> SUFFICES ASSUME FilesOK, ProfilesInv, [Next]_vars
               PROVE  ProfilesInv' /\ (SeedsStay \/ UNCHANGED profileVars)
    OBVIOUS
  <1>1. CASE UNCHANGED profileVars
    BY <1>1 DEF ProfilesInv, profileVars, Keeps, Adds, Removes, HostsOfOthers, Known, EditAt
  <1>2. CASE Edits
    BY <1>2, EditsKeepProfiles
  <1>3. CASE Editing
    BY <1>3, EditingKeepsProfiles
  <1>4. CASE UNCHANGED vars
    BY <1>1, <1>4 DEF vars, profileVars
  <1> QED
    BY <1>1, <1>2, <1>3, <1>4, OthersKeepFiles DEF Next, OtherStep

\* In every run, with any number of editors and whatever fails: while edits do not
\* overlap, a managed profile has its password whenever no edit is under way, and a
\* removal never takes a seed that another profile's host needs (pikvm/profiles.py).
THEOREM SecretsFollowProfilesHolds == Spec => SecretsFollowProfiles
  <1>1. Init => FilesOK /\ ProfilesInv
    BY InitFiles, InitKeepsProfiles
  <1>2. FilesOK /\ ProfilesInv /\ [Next]_vars => FilesOK' /\ ProfilesInv'
    BY FilesPreserved, ProfilesKept
  <1> DEFINE Follow ==
        /\ ~overlapped' /\ (\A e \in Editors : edit'[e].pc = "idle") =>
              file'.profiles \subseteq passwords'
        /\ \A e \in Editors : ~overlapped /\ EditAt(e, "seed") =>
              seeds \ seeds' \subseteq Hosts \ {HostOf[k] : k \in Known}
  <1>3. FilesOK /\ ProfilesInv /\ [Next]_vars => [Follow]_profileVars
    BY ProfilesKept DEF ProfilesInv, SeedsStay
  <1> QED
    BY <1>1, <1>2, <1>3, PTL DEF Spec, SecretsFollowProfiles

--------------------------------------------------------------------------------
\* The least of a set of numbers is one of them.
Less == {pair \in Nat \X Nat : pair[1] < pair[2]}

LEMMA LessIsWellFounded == IsWellFoundedOn(Less, Nat)
  <1>1. OpToRel(<, Nat) = Less
    BY Zenon DEF OpToRel, Less
  <1> QED
    BY <1>1, NatLessThanWellFounded, Zenon

LEMMA FirstIsLeast ==
    ASSUME NEW S \in SUBSET Nat, S # {}
    PROVE  First(S) \in S /\ \A n \in S : First(S) <= n
  <1>1. PICK m \in S : \A n \in S : ~ (<<n, m>> \in Less)
    BY LessIsWellFounded, WFMin
  <1>2. ASSUME NEW n \in S
        PROVE  m <= n
    <2>1. <<n, m>> \in Less <=> n < m
      BY DEF Less
    <2>2. m \in Nat /\ n \in Nat
      OBVIOUS
    <2> QED
      BY <1>1, <2>1, <2>2
  <1> QED
    BY <1>2 DEF First, Min

--------------------------------------------------------------------------------
\* What a command remembers is consistent at each of its places.
Stopped == {"idle", "queued"}
Installing == {"install", "uninstall"}
Changing == Workflows \ {"read"}

Runs == [pc : Stopped \cup {"filter", "working", "record", "wait", "meeting", "over"},
         mode : Modes \cup {None}, label : Agents \cup {None},
         desired : Availabilities \cup {None}, all : SUBSET Kvms, rejected : SUBSET Kvms,
         known : SUBSET Nat, round : SUBSET Nat, todo : SUBSET Nat, won : SUBSET Nat,
         lost : SUBSET (Nat \cup {Recorder}), fresh : SUBSET Nat, attempt : Nat,
         raised : BOOLEAN]

\* A command has results only of what it was started for, and one of each KVM when it
\* is through; a profile is fresh when it succeeded in the round that is not recorded.
Targets(r) ==
    /\ r.pc \in Stopped => r.todo = {} /\ r.won = {} /\ r.fresh = {}
    /\ r.pc # "idle" => r.mode \in Modes
    /\ r.pc = "working" => r.todo # {}
    /\ r.mode \in Workflows => r.round \cup r.todo \cup r.won \subseteq r.all
    /\ r.mode \in Workflows /\ r.pc # "working" => r.todo = {}
    /\ r.mode \in {"set", "now", "forced"} /\ r.pc \notin Stopped =>
          r.all \subseteq r.won \cup r.lost \cup r.todo
    /\ r.fresh \subseteq r.won \ r.todo
    /\ r.mode \in Scheduled => r.won \cap (r.todo \cup r.lost) = {}
    /\ r.mode \in Scheduled /\ r.pc \in {"wait", "filter"} => r.won \cap r.round = {}
    /\ r.pc = "wait" => r.fresh = {} /\ r.round # {}
    /\ r.pc = "filter" => r.mode = "due" /\ r.fresh = {}
    /\ r.pc \in {"record", "wait"} => r.mode \in Scheduled
    /\ r.pc = "meeting" => r.mode = "meeting"
    /\ r.mode \in Installing => r.label = None /\ r.todo \subseteq Agents

\* An installation that was not broken off has a result of each agent it is through with.
Visits(r) ==
    r.mode = "install" /\ r.pc \notin Stopped /\ ~r.raised =>
        /\ Agents \subseteq r.won \cup r.lost \cup r.todo
        /\ r.pc = "over" => r.todo = {}

Sound(r) == r \in Runs /\ Targets(r) /\ Visits(r)

LEMMA IdleIsSound == Sound(Idle)
  BY RunsAssumption DEF Sound, Runs, Idle, Targets, Visits, Stopped, Workflows, Scheduled, Modes,
                         Installing

LEMMA RequiringIsSubset ==
    ASSUME NEW profiles, NEW desired, NEW after
    PROVE  RequiringReconciliation(profiles, desired, after) \subseteq profiles
  BY DEF RequiringReconciliation

LEMMA DesiredIsAvailability == \A t : DesiredAvailability(t) \in Availabilities
  BY DEF DesiredAvailability, Availabilities

\* A command that begins.
LEMMA BeginningIsSound ==
    ASSUME FilesOK, NEW mode \in Modes, NEW label \in Agents \cup {None},
           mode \in Installing => label = None,
           NEW want \in Availabilities \cup {None}, NEW all \in SUBSET Kvms,
           NEW rejected \in SUBSET Kvms, NEW b, b = Beginning(mode, label, want, all, rejected)
    PROVE  /\ Sound(b) /\ b.pc \in {"filter", "working", "meeting", "over"} /\ b.mode = mode
           /\ b.label = label /\ b.all = all /\ b.won = {} /\ ~b.raised
  <1> DEFINE desired == IF mode \in {"due", "now"} THEN DesiredAvailability(now) ELSE want
             targets ==
                IF mode \in {"install", "uninstall"} THEN Agents
                ELSE IF mode = "meeting" THEN {} ELSE all
             todo == IF mode = "due" THEN {} ELSE targets
             known == IF mode \in Scheduled THEN Enabled \cup all ELSE {}
             pc == IF mode = "due" THEN "filter" ELSE IF targets # {} THEN "working"
                   ELSE IF mode = "meeting" THEN "meeting" ELSE "over"
  <1>1. b = [Idle EXCEPT !.pc = pc, !.mode = mode, !.label = label, !.desired = desired,
                         !.all = all, !.rejected = rejected, !.round = targets,
                         !.todo = todo, !.known = known]
    BY DEF Beginning
  <1>2. desired \in Availabilities \cup {None}
    BY DesiredIsAvailability
  <1>3. Kvms \subseteq Nat /\ Agents \subseteq Nat
    BY NamesAssumption
  <1>4. /\ targets \in SUBSET Nat /\ todo \in SUBSET Nat
        /\ mode \in Workflows => targets \subseteq all /\ todo \subseteq all
        /\ mode \in {"set", "now", "forced"} => todo = all
        /\ mode \in Installing => todo = Agents
        /\ mode = "meeting" => todo = {}
    BY <1>3 DEF Workflows, Scheduled, Installing
  <1>5. known \in SUBSET Nat
    BY <1>3, KnownAreKvms DEF Enabled, Scheduled
  <1>6. /\ pc \in {"filter", "working", "meeting", "over"} /\ (pc = "working" <=> todo # {})
        /\ pc = "meeting" => mode = "meeting"
        /\ pc = "filter" => mode = "due"
    OBVIOUS
  <1> HIDE DEF desired, targets, todo, known, pc
  <1>8. /\ b \in Runs /\ b.pc = pc /\ b.mode = mode /\ b.label = label /\ b.desired = desired
        /\ b.all = all /\ b.won = {} /\ b.lost = {} /\ b.fresh = {} /\ b.round = targets
        /\ b.todo = todo /\ b.known = known /\ b.raised = FALSE
    <2>1. /\ Idle \in Runs /\ Idle.won = {} /\ Idle.lost = {} /\ Idle.fresh = {}
          /\ Idle.raised = FALSE
      BY IdleIsSound DEF Sound, Idle
    <2> HIDE DEF Idle
    <2> QED
      BY ONLY <1>1, <1>2, <1>4, <1>5, <1>6, <2>1, mode \in Modes, label \in Agents \cup {None},
              all \in SUBSET Kvms, rejected \in SUBSET Kvms DEF Runs
  <1>9. Targets(b) /\ Visits(b)
    BY <1>4, <1>6, <1>8 DEF Targets, Visits, Stopped, Installing
  <1> QED
    BY <1>6, <1>8, <1>9 DEF Sound

\* The result of a target, and what follows it.
LEMMA TickedIsSound ==
    ASSUME NEW r, Sound(r), r.pc = "working", NEW good \in BOOLEAN,
           NEW n, n = Onward(Ticked(r, good)), NEW k, k = First(r.todo)
    PROVE  /\ Sound(n) /\ k \in r.todo
           /\ n.pc \in {"working", "record", "over"} /\ n.mode = r.mode /\ n.label = r.label
           /\ n.all = r.all /\ n.desired = r.desired /\ n.raised = r.raised
           /\ n.known = r.known /\ n.todo = r.todo \ {k}
           /\ n.won = IF good THEN r.won \cup {k} ELSE r.won \ {k}
  <1> DEFINE t == Ticked(r, good)
  <1>1. r \in Runs /\ Targets(r) /\ Visits(r)
    BY DEF Sound
  <1>2. k \in r.todo /\ k \in Nat
    BY <1>1, FirstIsLeast DEF Targets, Runs
  <1>3. t = [r EXCEPT !.todo = r.todo \ {k},
                      !.won = IF good THEN r.won \cup {k} ELSE r.won \ {k},
                      !.lost = IF good THEN r.lost \ {k} ELSE r.lost \cup {k},
                      !.fresh = IF good THEN r.fresh \cup {k} ELSE r.fresh]
    BY <1>1 DEF Ticked, Runs
  <1> HIDE DEF t
  <1>4. /\ t \in Runs /\ t.pc = "working" /\ t.mode = r.mode /\ t.label = r.label
        /\ t.all = r.all /\ t.desired = r.desired /\ t.raised = r.raised /\ t.known = r.known
        /\ t.round = r.round /\ t.todo = r.todo \ {k}
        /\ t.won = IF good THEN r.won \cup {k} ELSE r.won \ {k}
        /\ t.lost = IF good THEN r.lost \ {k} ELSE r.lost \cup {k}
        /\ t.fresh = IF good THEN r.fresh \cup {k} ELSE r.fresh
    <2>1. /\ r.todo \ {k} \in SUBSET Nat
          /\ (IF good THEN r.won \cup {k} ELSE r.won \ {k}) \in SUBSET Nat
          /\ (IF good THEN r.lost \ {k} ELSE r.lost \cup {k}) \in SUBSET (Nat \cup {Recorder})
          /\ (IF good THEN r.fresh \cup {k} ELSE r.fresh) \in SUBSET Nat
      BY <1>1, <1>2 DEF Runs
    <2> DEFINE todo == r.todo \ {k}
               won == IF good THEN r.won \cup {k} ELSE r.won \ {k}
               lost == IF good THEN r.lost \ {k} ELSE r.lost \cup {k}
               fresh == IF good THEN r.fresh \cup {k} ELSE r.fresh
    <2>2. t = [r EXCEPT !.todo = todo, !.won = won, !.lost = lost, !.fresh = fresh]
      BY <1>3
    <2>3. /\ todo \in SUBSET Nat /\ won \in SUBSET Nat /\ fresh \in SUBSET Nat
          /\ lost \in SUBSET (Nat \cup {Recorder})
      BY <2>1
    <2> HIDE DEF todo, won, lost, fresh
    <2>4. t \in Runs
      BY ONLY <1>1, <2>2, <2>3 DEF Runs
    <2>5. /\ t.pc = r.pc /\ t.mode = r.mode /\ t.label = r.label /\ t.all = r.all
          /\ t.desired = r.desired /\ t.raised = r.raised /\ t.known = r.known
          /\ t.round = r.round /\ t.todo = todo /\ t.won = won /\ t.lost = lost
          /\ t.fresh = fresh
      BY ONLY <1>1, <2>2 DEF Runs
    <2> QED
      BY <2>4, <2>5 DEF todo, won, lost, fresh
  <1>5. n = IF t.todo # {} THEN t
            ELSE [t EXCEPT !.pc = IF t.mode \in Scheduled THEN "record" ELSE "over"]
    BY DEF Onward, t
  <1>6. /\ n \in Runs /\ n.mode = r.mode /\ n.label = r.label
        /\ n.all = r.all /\ n.desired = r.desired /\ n.raised = r.raised /\ n.known = r.known
        /\ n.round = r.round /\ n.todo = r.todo \ {k}
        /\ n.won = t.won /\ n.lost = t.lost /\ n.fresh = t.fresh
        /\ n.pc \in {"working", "record", "over"} /\ (n.pc = "working" <=> n.todo # {})
        /\ n.pc = "record" => n.mode \in Scheduled
    BY <1>4, <1>5 DEF Runs
  <1>7. Targets(n)
    BY <1>1, <1>2, <1>4, <1>6 DEF Targets, Stopped
  <1>8. Visits(n)
    BY <1>1, <1>2, <1>4, <1>6 DEF Visits, Stopped
  <1> QED
    BY <1>2, <1>4, <1>6, <1>7, <1>8 DEF Sound

\* A round that was recorded, and one that begins.
LEMMA AfterRoundIsSound ==
    ASSUME NEW r, Sound(r), r.pc = "record", NEW n, n = AfterRound(r)
    PROVE  /\ Sound(n) /\ n.pc \in {"over", "wait"} /\ n.mode = r.mode /\ n.label = r.label
           /\ n.all = r.all /\ n.desired = r.desired /\ n.won = r.won
  <1> DEFINE failed == r.round \cap r.lost
             ends == failed = {} \/ r.attempt = Retries
             pc == IF ends THEN "over" ELSE "wait"
             attempt == IF ends THEN r.attempt ELSE r.attempt + 1
  <1>1. r \in Runs /\ Targets(r) /\ Visits(r) /\ r.attempt \in Nat
    BY DEF Sound, Runs
  <1>2. n = [r EXCEPT !.round = failed, !.fresh = {}, !.pc = pc, !.attempt = attempt]
    BY <1>1 DEF AfterRound, Runs
  <1>3. /\ failed \in SUBSET Nat /\ failed \subseteq r.round /\ failed \subseteq r.lost
        /\ pc = "wait" => failed # {}
    BY <1>1 DEF Runs
  <1>4. attempt \in Nat /\ pc \in {"over", "wait"}
    BY <1>1
  <1> HIDE DEF failed, pc, attempt
  <1>5. /\ n \in Runs /\ n.pc = pc /\ n.mode = r.mode /\ n.label = r.label
        /\ n.all = r.all /\ n.desired = r.desired /\ n.won = r.won /\ n.lost = r.lost
        /\ n.todo = r.todo /\ n.fresh = {} /\ n.round = failed
    <2>1. n \in Runs
      BY ONLY <1>1, <1>2, <1>3, <1>4 DEF Runs
    <2> QED
      BY ONLY <1>1, <1>2, <2>1 DEF Runs
  <1>6. Targets(n) /\ Visits(n)
    BY <1>1, <1>3, <1>4, <1>5 DEF Targets, Visits, Stopped, Scheduled, Installing
  <1> QED
    BY <1>4, <1>5, <1>6 DEF Sound

LEMMA RetryingIsSound ==
    ASSUME NEW r, Sound(r), r.pc = "wait", NEW n, n = Retrying(r)
    PROVE  /\ Sound(n) /\ n.pc \in {"working", "filter"} /\ n.mode = r.mode /\ n.label = r.label
           /\ n.all = r.all
           /\ n.won = {} \/ (n.won = r.won /\ n.desired = r.desired)
  <1> DEFINE desired == DesiredNow(r)
             changed == desired # r.desired
             round == Pool(r, changed)
             todo == IF r.mode = "due" THEN {} ELSE round
             won == IF changed THEN {} ELSE r.won
             lost == IF changed THEN {} ELSE r.lost
             pc == IF r.mode = "due" THEN "filter" ELSE "working"
  <1>1. r \in Runs /\ Targets(r) /\ Visits(r) /\ r.mode \in Scheduled
    BY DEF Sound, Targets
  <1>2. n = [r EXCEPT !.desired = desired, !.won = won, !.lost = lost, !.round = round,
                      !.todo = todo, !.pc = pc]
    BY <1>1 DEF Retrying, Runs
  <1>3. desired \in Availabilities \cup {None}
    BY <1>1, DesiredIsAvailability DEF DesiredNow, Runs
  <1>4. r.all \subseteq Nat /\ r.round \subseteq r.all
    BY <1>1, NamesAssumption DEF Runs, Targets, Workflows
  <1>5. /\ round \subseteq r.all /\ won \subseteq r.won /\ lost \subseteq r.lost
        /\ round = IF changed THEN r.all ELSE r.round
        /\ todo = IF r.mode = "due" THEN {} ELSE round
        /\ won = {} \/ (won = r.won /\ desired = r.desired)
        /\ won \cap round = {} /\ won \cap lost = {} /\ round # {}
    BY <1>1, <1>4 DEF Pool, Targets
  <1>6. /\ pc \in {"filter", "working"} /\ (pc = "filter" <=> r.mode = "due")
        /\ pc = "working" => todo # {}
    BY <1>5
  <1>7. r.mode # "due" => r.all \subseteq won \cup lost \cup round
    <2>1. r.mode # "due" => r.all \subseteq r.won \cup r.lost
      BY <1>1 DEF Targets, Scheduled, Workflows, Stopped
    <2> QED
      BY <1>5, <2>1
  <1> HIDE DEF desired, changed, round, todo, won, lost, pc
  <1>8. /\ n \in Runs /\ n.pc = pc /\ n.mode = r.mode /\ n.label = r.label
        /\ n.all = r.all /\ n.desired = desired /\ n.won = won /\ n.lost = lost
        /\ n.todo = todo /\ n.fresh = r.fresh /\ n.round = round
    <2>1. /\ r \in Runs /\ desired \in Availabilities \cup {None}
          /\ round \in SUBSET Nat /\ todo \in SUBSET Nat /\ won \in SUBSET Nat
          /\ pc \in {"filter", "working"}
      BY <1>1, <1>3, <1>4, <1>5, <1>6 DEF Runs
    <2>2. lost \in SUBSET (Nat \cup {Recorder})
      BY <1>1, <1>5 DEF Runs
    <2> QED
      BY ONLY <1>2, <2>1, <2>2 DEF Runs
  <1>9. r.fresh = {} /\ won \subseteq r.all
    BY <1>1, <1>5 DEF Targets, Workflows
  <1>10. Targets(n) /\ Visits(n)
    BY <1>1, <1>5, <1>6, <1>7, <1>8, <1>9
       DEF Targets, Visits, Stopped, Scheduled, Installing, Workflows
  <1> QED
    BY <1>5, <1>6, <1>8, <1>10 DEF Sound

\* What is due of a round.
LEMMA FilteredIsSound ==
    ASSUME NEW r, Sound(r), r.pc = "filter", NEW due \in SUBSET r.round, NEW n,
           n = [r EXCEPT !.round = due, !.todo = due,
                         !.pc = IF due = {} THEN "over" ELSE "working"]
    PROVE  /\ Sound(n) /\ n.pc \in {"working", "over"} /\ n.mode = r.mode /\ n.label = r.label
           /\ n.all = r.all /\ n.desired = r.desired /\ n.won = r.won
  <1>1. r \in Runs /\ Targets(r) /\ Visits(r) /\ r.mode = "due"
    BY DEF Sound, Targets
  <1>2. due \in SUBSET Nat
    BY <1>1 DEF Runs
  <1>3. /\ n \in Runs /\ n.pc \in {"working", "over"} /\ (n.pc = "working" => due # {})
        /\ n.mode = r.mode /\ n.label = r.label /\ n.all = r.all /\ n.desired = r.desired
        /\ n.won = r.won /\ n.lost = r.lost /\ n.fresh = r.fresh /\ n.round = due
        /\ n.todo = due /\ (n.pc = "over" => due = {})
    BY <1>1, <1>2 DEF Runs
  <1>4. Targets(n) /\ Visits(n)
    BY <1>1, <1>3 DEF Targets, Visits, Stopped, Scheduled, Installing, Workflows
  <1> QED
    BY <1>3, <1>4 DEF Sound

\* A command that is broken off, and a meeting request that was answered.
LEMMA OverIsSound ==
    ASSUME NEW r, Sound(r), NEW n,
           \/ r.pc = "wait" /\ n = [r EXCEPT !.pc = "over"]
           \/ /\ r.pc = "record" \/ (r.pc = "working" /\ r.mode \in Installing)
              /\ n = [r EXCEPT !.pc = "over", !.raised = TRUE]
           \/ /\ r.pc = "meeting"
              /\ \E lost \in {{}, {Recorder}} : n = [r EXCEPT !.pc = "over", !.lost = lost]
    PROVE  /\ Sound(n) /\ n.pc = "over" /\ n.mode = r.mode /\ n.label = r.label
           /\ n.all = r.all /\ n.desired = r.desired /\ n.won = r.won
           /\ n.raised \/ n.mode # "install"
  <1>1. r \in Runs /\ Targets(r) /\ Visits(r)
    BY DEF Sound
  <1>2. /\ n \in Runs /\ n.pc = "over" /\ n.mode = r.mode /\ n.label = r.label
        /\ n.all = r.all /\ n.desired = r.desired /\ n.won = r.won /\ n.todo = r.todo
        /\ n.fresh = r.fresh /\ n.round = r.round
        /\ n.lost = r.lost \/ r.mode = "meeting"
        /\ n.raised \/ n.mode # "install"
    <2>1. CASE r.pc = "wait" /\ n = [r EXCEPT !.pc = "over"]
      BY <1>1, <2>1 DEF Runs, Targets, Scheduled
    <2>2. CASE /\ r.pc = "record" \/ (r.pc = "working" /\ r.mode \in Installing)
               /\ n = [r EXCEPT !.pc = "over", !.raised = TRUE]
      BY <1>1, <2>2 DEF Runs
    <2>3. ASSUME r.pc = "meeting", NEW lost \in {{}, {Recorder}},
                 n = [r EXCEPT !.pc = "over", !.lost = lost]
          PROVE  /\ n \in Runs /\ n.pc = "over" /\ n.mode = r.mode /\ n.label = r.label
                 /\ n.all = r.all /\ n.desired = r.desired /\ n.won = r.won /\ n.todo = r.todo
                 /\ n.fresh = r.fresh /\ n.round = r.round /\ r.mode = "meeting"
                 /\ n.mode # "install"
      BY <1>1, <2>3 DEF Runs, Targets
    <2> QED
      BY <2>1, <2>2, <2>3
  <1>3. Targets(n)
    BY <1>1, <1>2 DEF Targets, Stopped, Scheduled, Installing, Workflows
  <1>4. Visits(n)
    BY <1>2 DEF Visits
  <1> QED
    BY <1>2, <1>3, <1>4 DEF Sound

--------------------------------------------------------------------------------
RunsInv ==
    /\ run \in [Procs -> Runs] /\ \A p \in Procs : Sound(run[p])
    /\ slack \in [Kvms -> Availabilities \cup {None}] /\ hands \in [Kvms -> Procs \cup {None}]

\* Whose session was last on a KVM is a command that changes it, and is still there;
\* what it reports as done there, Slack shows.
HandsInv ==
    \A k \in Kvms, p \in Procs : hands[k] = p =>
        /\ run[p].mode \in Changing /\ run[p].pc \notin Stopped /\ k \in run[p].all
        /\ k \in run[p].won => slack[k] = run[p].desired

RecordInv ==
    /\ settled \subseteq Kvms
    /\ \A k \in settled : record[k] # None => slack[k] = record[k].value

\* A job that reports success is over, and nothing went wrong.
OutcomeInv ==
    \A p \in Procs : job[p].status = "succeeded" =>
        /\ job[p].stage = "settled"
        /\ run[p] = Idle \/ (run[p].pc = "over" /\ Bad(run[p]) = {})

CommandsInv == RunsInv /\ HandsInv /\ RecordInv /\ OutcomeInv

FleetInv == IInv /\ FilesOK /\ CommandsInv

LEMMA InitFleet == Init => FleetInv
  <1> SUFFICES ASSUME Init PROVE FleetInv
    OBVIOUS
  <1>1. IInv /\ FilesOK
    BY InitEstablishes, InitFiles DEF Init
  <1>2. RunsInv
    BY IdleIsSound DEF Init, RunsInit, RunsInv, Availabilities, Sound
  <1>3. HandsInv
    BY NamesAssumption DEF Init, RunsInit, HandsInv
  <1>4. RecordInv
    BY DEF Init, RunsInit, RecordInv
  <1>5. OutcomeInv
    BY RunsAssumption DEF Init, RunsInit, JobsInit, NoJob, OutcomeInv, Outcomes
  <1> QED
    BY <1>1, <1>2, <1>3, <1>4, <1>5 DEF FleetInv, CommandsInv

\* What follows a command's memory on a step that touches no KVM.
Follows(r, n) ==
    r.mode \in Changing /\ r.pc \notin Stopped =>
        /\ n.mode = r.mode /\ n.all = r.all /\ n.pc \notin Stopped
        /\ \A k \in n.won : k \in r.won /\ n.desired = r.desired

LEMMA HandsFollow ==
    ASSUME CommandsInv, NEW p \in Procs, NEW n, Sound(n), run' = [run EXCEPT ![p] = n],
           Follows(run[p], n), UNCHANGED <<slack, hands>>
    PROVE  RunsInv' /\ HandsInv'
  <1>1. \A q \in Procs : run'[q] = IF q = p THEN n ELSE run[q]
    BY DEF CommandsInv, RunsInv
  <1>2. RunsInv'
    BY <1>1 DEF CommandsInv, RunsInv, Sound
  <1>3. HandsInv'
    BY <1>1 DEF CommandsInv, HandsInv, Follows
  <1> QED
    BY <1>2, <1>3

\* The end of some commands: nobody's hands are theirs any more.
Ended(dead) == [q \in Procs |-> IF q \in dead THEN Idle ELSE run[q]]

LEMMA HandsForgotten ==
    ASSUME CommandsInv, NEW dead, run' = Ended(dead), ForgetHands(dead), UNCHANGED slack
    PROVE  RunsInv' /\ HandsInv'
  <1>1. \A q \in Procs : run'[q] = IF q \in dead THEN Idle ELSE run[q]
    BY DEF Ended
  <1>2. \A k \in Kvms : hands'[k] = IF hands[k] \in dead THEN None ELSE hands[k]
    BY DEF ForgetHands
  <1>3. RunsInv'
    BY <1>1, <1>2, IdleIsSound DEF CommandsInv, RunsInv, Sound, Ended, ForgetHands
  <1>4. HandsInv'
    BY <1>1, <1>2, NamesAssumption DEF CommandsInv, HandsInv
  <1> QED
    BY <1>3, <1>4

\* The same while a command that installs or uninstalls moves on.
LEMMA HandsEvicted ==
    ASSUME CommandsInv, NEW p \in Procs, run[p].mode \in Installing, NEW dead,
           NEW n, Sound(n), run' = [Ended(dead) EXCEPT ![p] = n], ForgetHands(dead),
           UNCHANGED slack
    PROVE  RunsInv' /\ HandsInv'
  <1>1. \A q \in Procs \ {p} : run'[q] = IF q \in dead THEN Idle ELSE run[q]
    BY DEF Ended
  <1>2. run'[p] = n /\ DOMAIN run' = Procs
    BY DEF Ended
  <1>3. \A k \in Kvms : hands'[k] = IF hands[k] \in dead THEN None ELSE hands[k]
    BY DEF ForgetHands
  <1>4. \A k \in Kvms : hands[k] # p
    BY DEF CommandsInv, HandsInv, Changing, Workflows, Scheduled, Installing
  <1>5. RunsInv'
    BY <1>1, <1>2, <1>3, IdleIsSound DEF CommandsInv, RunsInv, Sound, Ended, ForgetHands
  <1>6. HandsInv'
    BY <1>1, <1>2, <1>3, <1>4, NamesAssumption DEF CommandsInv, HandsInv
  <1> QED
    BY <1>5, <1>6

\* No job reports success while its command is at work.
LEMMA OutcomesStay ==
    ASSUME CommandsInv,
           \A q \in Procs : /\ job'[q].status = "succeeded" =>
                                  job[q].status = "succeeded" /\ job'[q].stage = job[q].stage
                            /\ \/ run'[q] = run[q]
                               \/ run'[q] = Idle
                               \/ job[q].stage # "settled"
                               \/ run[q].pc \notin {"idle", "over"}
    PROVE  OutcomeInv'
  <1> SUFFICES ASSUME NEW q \in Procs, job'[q].status = "succeeded"
               PROVE  /\ job'[q].stage = "settled"
                      /\ run'[q] = Idle \/ (run'[q].pc = "over" /\ Bad(run'[q]) = {})
    BY DEF OutcomeInv
  <1>1. job[q].status = "succeeded" /\ job'[q].stage = job[q].stage
    OBVIOUS
  <1>2. /\ job[q].stage = "settled"
        /\ run[q] = Idle \/ (run[q].pc = "over" /\ Bad(run[q]) = {})
    BY <1>1 DEF CommandsInv, OutcomeInv
  <1>3. Idle.pc = "idle"
    BY DEF Idle
  <1>4. run'[q] = run[q] \/ run'[q] = Idle
    BY <1>2, <1>3
  <1> QED
    BY <1>1, <1>2, <1>4

\* Only a job that settles reports success.
NoSuccess ==
    \A q \in Procs : job'[q].status = "succeeded" =>
        job[q].status = "succeeded" /\ job'[q].stage = job[q].stage

LEMMA JobsReportLater ==
    ASSUME IInv, OutcomeInv,
           \/ UNCHANGED job
           \/ DashboardStops
           \/ \E p \in Procs :
                 \/ \E keys, cancellable : StartJob(p, keys, cancellable)
                 \/ Launch(p) \/ ThreadRefused(p) \/ Cancel(p) \/ Release(p)
    PROVE  NoSuccess
  <1> USE RunsAssumption DEF NoSuccess
  <1>1. None # "succeeded"
    BY DEF Outcomes
  <1>2. DOMAIN job = Procs
    BY DEF IInv, JobsTypeOK
  <1>3. CASE DashboardStops
    BY <1>1, <1>3 DEF DashboardStops, NoJob
  <1>4. ASSUME NEW p \in Procs, NEW keys, NEW cancellable, StartJob(p, keys, cancellable)
        PROVE  NoSuccess
    BY <1>2, <1>4 DEF StartJob
  <1>5. ASSUME NEW p \in Procs, ThreadRefused(p) \/ Release(p)
        PROVE  NoSuccess
    BY <1>1, <1>2, <1>5 DEF ThreadRefused, Release, NoJob
  <1>6. ASSUME NEW p \in Procs, Launch(p)
        PROVE  NoSuccess
    <2>1. job[p].status # "succeeded"
      BY <1>6 DEF Launch, OutcomeInv
    <2>2. job' = [job EXCEPT ![p].stage = "working"] /\ job \in [Procs -> [stage : Stages,
             status : Outcomes \cup {"running", None}, keys : SUBSET Keys,
             cancellable : BOOLEAN, cancel : BOOLEAN]]
      BY <1>6 DEF Launch, IInv, JobsTypeOK
    <2> QED
      BY ONLY <2>1, <2>2 DEF NoSuccess
  <1>7. ASSUME NEW p \in Procs, Cancel(p)
        PROVE  NoSuccess
    <2>1. job' = [job EXCEPT ![p].cancel = TRUE] /\ job \in [Procs -> [stage : Stages,
             status : Outcomes \cup {"running", None}, keys : SUBSET Keys,
             cancellable : BOOLEAN, cancel : BOOLEAN]]
      BY <1>7 DEF Cancel, IInv, JobsTypeOK
    <2> QED
      BY ONLY <2>1 DEF NoSuccess
  <1> QED
    BY <1>3, <1>4, <1>5, <1>6, <1>7

\* A command or a job that begins.
LEMMA StartKeeps ==
    ASSUME CommandsInv, NEW p \in Procs, run[p].pc \in Stopped, job[p].stage # "settled",
           NEW b, Sound(b), run' = [run EXCEPT ![p] = b],
           UNCHANGED <<slack, hands, settled, record>>, NoSuccess
    PROVE  CommandsInv'
  <1>1. RunsInv' /\ HandsInv'
    BY HandsFollow DEF Follows
  <1>2. RecordInv'
    BY DEF CommandsInv, RecordInv
  <1>3. \A q \in Procs : q # p => run'[q] = run[q]
    BY DEF CommandsInv, RunsInv
  <1>4. OutcomeInv'
    BY <1>3, OutcomesStay DEF NoSuccess
  <1> QED
    BY <1>1, <1>2, <1>4 DEF CommandsInv

LEMMA CommandKeeps ==
    ASSUME FleetInv, NEW p \in Procs, Command(p)
    PROVE  CommandsInv'
  <1>1. PICK mode \in CommandModes : \E want \in Wants(mode) :
           \E all \in {Enabled} \cup IF mode \in Scheduled THEN {} ELSE {{k} : k \in Known \cap Alone} :
              run' = [run EXCEPT ![p] = Beginning(mode, None, want, all, {})]
    BY DEF Command
  <1>0. PICK want \in Wants(mode),
             all \in {Enabled} \cup IF mode \in Scheduled THEN {} ELSE {{k} : k \in Known \cap Alone} :
           run' = [run EXCEPT ![p] = Beginning(mode, None, want, all, {})]
    BY <1>1
  <1>2. mode \in Modes /\ want \in Availabilities \cup {None} /\ all \in SUBSET Kvms
    BY ModesAssumption, KnownAreKvms DEF Wants, FleetInv, Enabled
  <1> DEFINE b == Beginning(mode, None, want, all, {})
  <1>3. Sound(b)
    BY <1>2, BeginningIsSound DEF FleetInv
  <1> HIDE DEF b
  <1>4. run[p].pc = "idle" /\ job[p].stage = "none" /\ UNCHANGED <<slack, hands, settled, record, job>>
    BY DEF Command, Vacant, RunAt, keepHistory, keepJobs, keepFiles, jobVars
  <1>5. NoSuccess
    BY <1>4 DEF NoSuccess
  <1>6. run' = [run EXCEPT ![p] = b]
    BY <1>0 DEF b
  <1> QED
    BY <1>3, <1>4, <1>5, <1>6, StartKeeps DEF FleetInv, Stopped

LEMMA FiresKeeps ==
    ASSUME FleetInv, NEW p \in Procs, NEW a \in Agents, Fires(p, a)
    PROVE  CommandsInv'
  <1> DEFINE mode == IF agent[a].loaded = "new" THEN "due" ELSE "forced"
  <1>1. PICK want \in Wants(mode) :
           run' = [run EXCEPT ![p] = Beginning(mode, a, want, Enabled, {})]
    BY DEF Fires
  <1>2. /\ mode \in Modes /\ mode \notin Installing /\ want \in Availabilities \cup {None}
        /\ Enabled \in SUBSET Kvms
    BY KnownAreKvms DEF Wants, FleetInv, Enabled, Modes, Scheduled, Installing
  <1> HIDE DEF mode
  <1> DEFINE b == Beginning(mode, a, want, Enabled, {})
  <1>3. Sound(b)
    BY <1>2, BeginningIsSound DEF FleetInv
  <1> HIDE DEF b
  <1>4. run[p].pc = "idle" /\ job[p].stage = "none" /\ UNCHANGED <<slack, hands, settled, record, job>>
    BY DEF Fires, Vacant, RunAt, keepHistory, keepJobs, keepFiles, jobVars
  <1>5. NoSuccess
    BY <1>4 DEF NoSuccess
  <1>6. run' = [run EXCEPT ![p] = b]
    BY <1>1 DEF b
  <1> QED
    BY <1>3, <1>4, <1>5, <1>6, StartKeeps DEF FleetInv, Stopped

LEMMA JobBeginsKeeps ==
    ASSUME FleetInv, NEW p \in Procs, JobBegins(p)
    PROVE  CommandsInv'
  <1> DEFINE r == run[p]
             b == Beginning(r.mode, None, r.desired, r.all, r.rejected)
  <1>1. r \in Runs /\ r.pc = "queued" /\ run' = [run EXCEPT ![p] = b]
    BY DEF JobBegins, Queued, RunAt, FleetInv, CommandsInv, RunsInv
  <1>2. /\ r.desired \in Availabilities \cup {None} /\ r.all \in SUBSET Kvms
        /\ r.rejected \in SUBSET Kvms /\ r.mode \in Modes \cup {None}
    BY <1>1 DEF Runs
  <1>3. r.mode \in Modes /\ (r.mode \in Installing => r.label = None)
    BY <1>1 DEF FleetInv, CommandsInv, RunsInv, Sound, Targets
  <1>4. Sound(b)
    <2> DEFINE mode == r.mode  want == r.desired  all == r.all  rejected == r.rejected
    <2>1. /\ mode \in Modes /\ (mode \in Installing => None = None)
          /\ want \in Availabilities \cup {None} /\ all \in SUBSET Kvms
          /\ rejected \in SUBSET Kvms
      BY <1>2, <1>3
    <2>2. b = Beginning(mode, None, want, all, rejected)
      OBVIOUS
    <2> HIDE DEF r, mode, want, all, rejected, b
    <2> QED
      BY <2>1, <2>2, BeginningIsSound DEF FleetInv
  <1>5. NoSuccess
    BY JobsReportLater DEF JobBegins, FleetInv, CommandsInv
  <1> HIDE DEF b
  <1>6. job[p].stage = "starting" /\ UNCHANGED <<slack, hands, settled, record>>
    BY DEF JobBegins, Launch, keepHistory, keepFiles
  <1> QED
    BY <1>1, <1>4, <1>5, <1>6, StartKeeps DEF FleetInv, Stopped

\* What a request leaves in the queue.
LEMMA QueuedIsSound ==
    ASSUME NEW mode \in Modes, NEW want \in Availabilities \cup {None},
           NEW all \in SUBSET Kvms, NEW rejected \in SUBSET Kvms
    PROVE  Sound([Idle EXCEPT !.pc = "queued", !.mode = mode, !.desired = want,
                              !.all = all, !.rejected = rejected])
  <1> DEFINE n == [Idle EXCEPT !.pc = "queued", !.mode = mode, !.desired = want,
                               !.all = all, !.rejected = rejected]
  <1>1. /\ Idle \in Runs /\ Idle.won = {} /\ Idle.lost = {} /\ Idle.fresh = {}
        /\ Idle.todo = {} /\ Idle.round = {} /\ Idle.label = None
    BY IdleIsSound DEF Sound, Idle
  <1> HIDE DEF Idle
  <1>2. /\ n \in Runs /\ n.pc = "queued" /\ n.mode = mode /\ n.won = {} /\ n.lost = {}
        /\ n.fresh = {} /\ n.todo = {} /\ n.round = {} /\ n.label = None
    BY <1>1 DEF Runs, Stopped
  <1> HIDE DEF n
  <1>3. Targets(n) /\ Visits(n)
    BY <1>2 DEF Targets, Visits, Stopped
  <1>4. Sound(n)
    BY <1>2, <1>3 DEF Sound
  <1> QED
    BY <1>4 DEF n

LEMMA RequestQueues ==
    ASSUME FleetInv, NEW p \in Procs, Request(p)
    PROVE  \E mode \in Modes, want \in Availabilities \cup {None}, all \in SUBSET Kvms,
              rejected \in SUBSET Kvms :
              /\ \E keys, cancellable :
                    StartJob(p, keys, cancellable) /\ (mode \in Installing => keys = {Schedule})
              /\ run' = [run EXCEPT ![p] = [Idle EXCEPT !.pc = "queued", !.mode = mode,
                            !.desired = want, !.all = all, !.rejected = rejected]]
  <1>1. PICK mode \in JobModes : \E want \in Wants(mode) :
           \E asked \in {Enabled} \cup IF mode \in {"set", "read"} THEN {{k} : k \in Enabled \cap Alone} ELSE {} :
              LET all == {k \in asked : Usable(k)}
                  keys == IF mode = "meeting" THEN {Recorder}
                          ELSE IF mode \in {"install", "uninstall"} THEN {Schedule} ELSE all
              IN /\ StartJob(p, keys, mode \in {"now", "forced"})
                 /\ run' = [run EXCEPT ![p] = [Idle EXCEPT !.pc = "queued", !.mode = mode,
                               !.desired = want,
                               !.all = IF keys = all THEN all ELSE {},
                               !.rejected = IF keys = all THEN asked \ all ELSE {}]]
    BY DEF Request
  <1>2. mode \in Modes /\ \A want \in Wants(mode) : want \in Availabilities \cup {None}
    BY ModesAssumption DEF Wants
  <1>3. Enabled \subseteq Kvms
    BY KnownAreKvms DEF FleetInv, Enabled
  <1>4. PICK want \in Wants(mode),
             asked \in {Enabled} \cup IF mode \in {"set", "read"} THEN {{k} : k \in Enabled \cap Alone} ELSE {} :
           LET all == {k \in asked : Usable(k)}
               keys == IF mode = "meeting" THEN {Recorder}
                       ELSE IF mode \in {"install", "uninstall"} THEN {Schedule} ELSE all
           IN  /\ StartJob(p, keys, mode \in {"now", "forced"})
               /\ run' = [run EXCEPT ![p] = [Idle EXCEPT !.pc = "queued", !.mode = mode,
                             !.desired = want,
                             !.all = IF keys = all THEN all ELSE {},
                             !.rejected = IF keys = all THEN asked \ all ELSE {}]]
    BY <1>1
  <1> DEFINE all == {k \in asked : Usable(k)}
             keys == IF mode = "meeting" THEN {Recorder}
                     ELSE IF mode \in {"install", "uninstall"} THEN {Schedule} ELSE all
             targets == IF keys = all THEN all ELSE {}
             rejected == IF keys = all THEN asked \ all ELSE {}
  <1>5. targets \in SUBSET Kvms /\ rejected \in SUBSET Kvms
    BY <1>3
  <1>6. StartJob(p, keys, mode \in {"now", "forced"}) /\ (mode \in Installing => keys = {Schedule})
    BY <1>4 DEF Installing
  <1>7. run' = [run EXCEPT ![p] = [Idle EXCEPT !.pc = "queued", !.mode = mode,
                   !.desired = want, !.all = targets, !.rejected = rejected]]
    BY <1>4
  <1> HIDE DEF keys, targets, rejected
  <1> QED
    BY <1>2, <1>5, <1>6, <1>7

LEMMA RequestKeeps ==
    ASSUME FleetInv, NEW p \in Procs, Request(p)
    PROVE  CommandsInv'
  <1>1. /\ run[p].pc = "idle" /\ job[p].stage = "none"
        /\ UNCHANGED <<slack, hands, settled, record>>
    BY DEF Request, Vacant, RunAt, keepHistory, keepFiles
  <1>2. NoSuccess
    BY RequestQueues, JobsReportLater DEF FleetInv, CommandsInv
  <1>3. \E n : Sound(n) /\ run' = [run EXCEPT ![p] = n]
    BY RequestQueues, QueuedIsSound
  <1> QED
    BY <1>1, <1>2, <1>3, StartKeeps DEF FleetInv, Stopped

--------------------------------------------------------------------------------
\* Commands that end, with their process or with their job.
LEMMA EndKeeps ==
    ASSUME CommandsInv, NEW dead, run' = Ended(dead), ForgetHands(dead),
           UNCHANGED <<slack, settled, record>>, NoSuccess
    PROVE  CommandsInv'
  <1>1. RunsInv' /\ HandsInv'
    BY HandsForgotten
  <1>2. RecordInv'
    BY DEF CommandsInv, RecordInv
  <1>3. \A q \in Procs : run'[q] = run[q] \/ run'[q] = Idle
    BY DEF Ended
  <1>4. OutcomeInv'
    BY <1>3, OutcomesStay DEF NoSuccess
  <1> QED
    BY <1>1, <1>2, <1>4 DEF CommandsInv

LEMMA EndingOne ==
    ASSUME CommandsInv, NEW p \in Procs, run' = [run EXCEPT ![p] = Idle]
    PROVE  run' = Ended({p})
  BY DEF CommandsInv, RunsInv, Ended

LEMMA EndsKeep ==
    ASSUME FleetInv, Dies \/ \E p \in Procs : Exit(p) \/ JobReturns(p)
    PROVE  CommandsInv'
  <1>1. CommandsInv /\ IInv /\ OutcomeInv
    BY DEF FleetInv, CommandsInv
  <1>2. ASSUME NEW p \in Procs, Exit(p) PROVE CommandsInv'
    <2>1. /\ run' = Ended({p}) /\ ForgetHands({p})
          /\ UNCHANGED <<slack, settled, record, job>>
      BY <1>1, <1>2, EndingOne DEF Exit, keepJobs, keepFiles, jobVars
    <2>2. NoSuccess
      BY <2>1 DEF NoSuccess
    <2> QED
      BY <1>1, <2>1, <2>2, EndKeeps
  <1>3. ASSUME NEW p \in Procs, JobReturns(p) PROVE CommandsInv'
    <2>1. /\ run' = Ended({p}) /\ ForgetHands({p})
          /\ UNCHANGED <<slack, settled, record>>
      BY <1>1, <1>3, EndingOne DEF JobReturns, keepFiles
    <2>2. NoSuccess
      BY <1>1, <1>3, JobsReportLater DEF JobReturns
    <2> QED
      BY <1>1, <2>1, <2>2, EndKeeps
  <1>4. CASE Dies
    <2>1. UNCHANGED <<slack, settled, record>>
      BY <1>4 DEF Dies, keepFiles
    <2>2. \E dead : run' = Ended(dead) /\ ForgetHands(dead)
      BY <1>4 DEF Dies, Ends, Ended
    <2>3. NoSuccess
      <3>1. UNCHANGED job \/ DashboardStops
        BY <1>4 DEF Dies, keepJobs, jobVars
      <3> QED
        BY <1>1, <3>1, JobsReportLater
    <2> QED
      BY <1>1, <2>1, <2>2, <2>3, EndKeeps
  <1> QED
    BY <1>2, <1>3, <1>4

\* A thread that could not start, a cancel, and a job that settles.
LEMMA JobStepsKeep ==
    ASSUME FleetInv, NEW p \in Procs, JobCannotBegin(p) \/ CancelRequest(p) \/ JobSettles(p)
    PROVE  CommandsInv'
  <1>1. CommandsInv /\ IInv /\ OutcomeInv
    BY DEF FleetInv, CommandsInv
  <1>2. CASE JobCannotBegin(p)
    <2>1. /\ run' = [run EXCEPT ![p] = Idle] /\ run[p].pc = "queued"
          /\ UNCHANGED <<slack, hands, settled, record>> /\ ThreadRefused(p)
      BY <1>2 DEF JobCannotBegin, Queued, RunAt, keepHistory, keepFiles
    <2>2. NoSuccess /\ job[p].stage = "starting"
      BY <1>1, <2>1, JobsReportLater DEF ThreadRefused
    <2> QED
      BY <1>1, <2>1, <2>2, IdleIsSound, StartKeeps DEF Stopped
  <1>3. CASE CancelRequest(p)
    <2>1. UNCHANGED <<run, slack, hands, settled, record>>
      BY <1>3 DEF CancelRequest, keepHistory, keepFiles
    <2>2. NoSuccess
      BY <1>1, <1>3, JobsReportLater DEF CancelRequest
    <2>3. OutcomeInv'
      BY <1>1, <2>1, <2>2, OutcomesStay DEF NoSuccess
    <2> QED
      BY <1>1, <2>1, <2>3 DEF CommandsInv, RunsInv, HandsInv, RecordInv
  <1>4. CASE JobSettles(p)
    <2>1. /\ UNCHANGED <<run, slack, hands, settled, record>> /\ run[p].pc = "over"
          /\ job' = [job EXCEPT ![p].stage = "settled",
                                ![p].status = Status(run[p], job[p].cancel)]
      BY <1>4 DEF JobSettles, Settle, RunAt, keepHistory, keepFiles
    <2>2. job \in [Procs -> [stage : Stages, status : Outcomes \cup {"running", None},
                   keys : SUBSET Keys, cancellable : BOOLEAN, cancel : BOOLEAN]]
      BY <1>1 DEF IInv, JobsTypeOK
    <2>3. Status(run[p], job[p].cancel) = "succeeded" => Bad(run[p]) = {}
      BY DEF Status
    <2>4. /\ job'[p].status = Status(run[p], job[p].cancel) /\ job'[p].stage = "settled"
          /\ \A q \in Procs \ {p} : job'[q] = job[q]
      BY <2>1, <2>2
    <2>5. OutcomeInv'
      BY <1>1, <2>1, <2>3, <2>4 DEF OutcomeInv, Bad
    <2> QED
      BY <1>1, <2>1, <2>5 DEF CommandsInv, RunsInv, HandsInv, RecordInv
  <1> QED
    BY <1>2, <1>3, <1>4

--------------------------------------------------------------------------------
\* A command that moves on without a session on a KVM.
LEMMA WorkKeeps ==
    ASSUME CommandsInv, NEW p \in Procs, run[p].pc \notin {"idle", "over"},
           NEW n, Sound(n), run' = [run EXCEPT ![p] = n], Follows(run[p], n),
           UNCHANGED <<slack, hands, job>>, RecordInv'
    PROVE  CommandsInv'
  <1>1. RunsInv' /\ HandsInv'
    BY HandsFollow
  <1>2. \A q \in Procs : q # p => run'[q] = run[q]
    BY DEF CommandsInv, RunsInv
  <1>3. OutcomeInv'
    BY <1>2, OutcomesStay
  <1> QED
    BY <1>1, <1>3 DEF CommandsInv

LEMMA KeptRecord ==
    ASSUME CommandsInv, UNCHANGED <<slack, settled, record>>
    PROVE  RecordInv'
  BY DEF CommandsInv, RecordInv

\* A workflow's session on a KVM that may change what Slack shows.
LEMMA SessionKeeps ==
    ASSUME CommandsInv, NEW p \in Procs, run[p].pc = "working", run[p].mode \in Changing,
           NEW good \in BOOLEAN, run' = [run EXCEPT ![p] = Onward(Ticked(run[p], good))],
           NEW k, k = First(run[p].todo), UNCHANGED <<job, record>>,
           hands' = [hands EXCEPT ![k] = p], settled' = settled \ {k},
           \/ slack' = [slack EXCEPT ![k] = run[p].desired]
           \/ ~good /\ slack' = slack
    PROVE  CommandsInv'
  <1> DEFINE r == run[p]
             n == Onward(Ticked(r, good))
  <1>1. Sound(r) /\ r \in Runs
    BY DEF CommandsInv, RunsInv, Sound
  <1>2. /\ Sound(n) /\ k \in r.todo /\ n.pc \notin Stopped
        /\ n.mode = r.mode /\ n.all = r.all /\ n.desired = r.desired
        /\ n.won = IF good THEN r.won \cup {k} ELSE r.won \ {k}
    <2>1. Sound(r) /\ r.pc = "working" /\ good \in BOOLEAN /\ n = Onward(Ticked(r, good))
      BY <1>1 DEF r, n
    <2>2. k = First(r.todo)
      BY DEF r
    <2> HIDE DEF r, n
    <2>3. /\ Sound(n) /\ k \in r.todo /\ n.pc \in {"working", "record", "over"}
          /\ n.mode = r.mode /\ n.all = r.all /\ n.desired = r.desired
          /\ n.won = IF good THEN r.won \cup {k} ELSE r.won \ {k}
      BY ONLY <2>1, <2>2, TickedIsSound
    <2> QED
      BY ONLY <2>3 DEF Stopped
  <1>3. k \in r.all /\ k \in Kvms
    BY <1>1, <1>2 DEF Sound, Targets, Runs, Changing
  <1>4. \A q \in Procs : run'[q] = IF q = p THEN n ELSE run[q]
    BY DEF CommandsInv, RunsInv
  <1>5. r.desired \in Availabilities \cup {None}
    BY <1>1 DEF Runs
  <1> HIDE DEF n
  <1>6. /\ \A j \in Kvms : hands'[j] = IF j = k THEN p ELSE hands[j]
        /\ \A j \in Kvms : j # k => slack'[j] = slack[j]
        /\ good => slack'[k] = r.desired
    BY <1>3 DEF CommandsInv, RunsInv
  <1>7. RunsInv'
    <2>1. /\ slack' \in [Kvms -> Availabilities \cup {None}]
          /\ hands' \in [Kvms -> Procs \cup {None}]
      BY <1>3, <1>5 DEF CommandsInv, RunsInv
    <2>2. run' \in [Procs -> Runs] /\ \A q \in Procs : Sound(run'[q])
      BY <1>2, <1>4 DEF CommandsInv, RunsInv, Sound
    <2> QED
      BY <2>1, <2>2 DEF RunsInv, Sound, Targets, Visits
  <1>8. HandsInv'
    <2> SUFFICES ASSUME NEW j \in Kvms, NEW q \in Procs, hands'[j] = q
                 PROVE  /\ run'[q].mode \in Changing /\ run'[q].pc \notin Stopped
                        /\ j \in run'[q].all
                        /\ j \in run'[q].won => slack'[j] = run'[q].desired
      BY DEF HandsInv
    <2>1. CASE q # p
      BY <1>4, <1>6, <2>1 DEF CommandsInv, HandsInv
    <2>2. CASE q = p /\ j = k
      BY <1>2, <1>3, <1>4, <1>6, <2>2
    <2>3. CASE q = p /\ j # k
      <3>1. hands[j] = p
        BY <1>6, <2>3
      <3>2. j \in r.all /\ (j \in r.won => slack[j] = r.desired)
        BY <3>1 DEF CommandsInv, HandsInv
      <3> QED
        BY <1>2, <1>4, <1>6, <2>3, <3>2
    <2> QED
      BY <2>1, <2>2, <2>3
  <1>9. RecordInv'
    BY <1>6 DEF CommandsInv, RecordInv
  <1>10. OutcomeInv'
    BY <1>4, OutcomesStay
  <1> QED
    BY <1>7, <1>8, <1>9, <1>10 DEF CommandsInv

\* A result that no session on a KVM, or only a reading one, has brought.
LEMMA ResultKeeps ==
    ASSUME CommandsInv, NEW p \in Procs, run[p].pc = "working", NEW good \in BOOLEAN,
           run[p].mode \in Changing => ~good,
           run' = [run EXCEPT ![p] = Onward(Ticked(run[p], good))],
           UNCHANGED <<slack, hands, settled, record, job>>
    PROVE  CommandsInv'
  <1> DEFINE r == run[p]
             n == Onward(Ticked(r, good))
  <1>1. Sound(r)
    BY DEF CommandsInv, RunsInv
  <1>2. Sound(n) /\ Follows(r, n)
    <2>1. /\ Sound(r) /\ r.pc = "working" /\ good \in BOOLEAN /\ n = Onward(Ticked(r, good))
          /\ r.mode \in Changing => ~good
      BY <1>1 DEF r, n
    <2> DEFINE k == First(r.todo)
    <2> HIDE DEF r, n
    <2>5. k = First(r.todo)
      OBVIOUS
    <2> HIDE DEF k
    <2>2. /\ Sound(n) /\ n.pc \notin Stopped /\ n.mode = r.mode /\ n.all = r.all
          /\ n.desired = r.desired /\ n.won = IF good THEN r.won \cup {k} ELSE r.won \ {k}
      BY ONLY <2>1, <2>5, TickedIsSound DEF Stopped
    <2>3. CASE good
      BY ONLY <2>1, <2>2, <2>3 DEF Follows
    <2>4. CASE ~good
      BY ONLY <2>2, <2>4 DEF Follows
    <2> QED
      BY <2>3, <2>4
  <1> HIDE DEF n
  <1>3. run' = [run EXCEPT ![p] = n]
    BY DEF n
  <1> QED
    BY <1>2, <1>3, WorkKeeps, KeptRecord

LEMMA ExecutesKeep ==
    ASSUME FleetInv, NEW p \in Procs, UNCHANGED job, UNCHANGED record,
           ExecuteSucceeds(p) \/ ExecuteRefused(p) \/ ExecuteFails(p)
    PROVE  CommandsInv'
  <1> DEFINE k == First(run[p].todo)
  <1>1. CommandsInv /\ run[p].pc = "working" /\ run[p].mode \in Workflows
        /\ run \in [Procs -> Runs]
    BY DEF FleetInv, CommandsInv, RunsInv, ExecuteSucceeds, ExecuteRefused, ExecuteFails,
           OnKvms, RunAt
  <1>2. run[p].mode = "read" \/ run[p].mode \in Changing
    BY <1>1 DEF Changing
  <1>3. CASE ExecuteRefused(p)
    <2>1. /\ run' = [run EXCEPT ![p] = Onward(Ticked(run[p], FALSE))]
          /\ UNCHANGED <<slack, hands, settled>>
      BY <1>3 DEF ExecuteRefused
    <2> QED
      BY <1>1, <2>1, ResultKeeps
  <1>4. ASSUME NEW good \in BOOLEAN,
               run' = [run EXCEPT ![p] = Onward(Ticked(run[p], good))],
               run[p].mode = "read", UNCHANGED <<slack, hands, settled>>
        PROVE  CommandsInv'
    BY <1>1, <1>4, ResultKeeps DEF Changing
  <1>5. ASSUME NEW good \in BOOLEAN,
               run' = [run EXCEPT ![p] = Onward(Ticked(run[p], good))],
               run[p].mode # "read",
               hands' = [hands EXCEPT ![k] = p], settled' = settled \ {k},
               \/ slack' = [slack EXCEPT ![k] = run[p].desired]
               \/ ~good /\ slack' = slack
        PROVE  CommandsInv'
    BY <1>1, <1>2, <1>5, SessionKeeps
  <1>6. CASE ExecuteSucceeds(p)
    <2>1. /\ run' = [run EXCEPT ![p] = Onward(Ticked(run[p], TRUE))]
          /\ IF run[p].mode = "read" THEN UNCHANGED <<slack, hands, settled>>
             ELSE /\ slack' = [slack EXCEPT ![k] = run[p].desired]
                  /\ hands' = [hands EXCEPT ![k] = p]
                  /\ settled' = settled \ {k}
      BY <1>6 DEF ExecuteSucceeds
    <2> QED
      BY <1>4, <1>5, <2>1
  <1>7. CASE ExecuteFails(p)
    <2>1. /\ run' = [run EXCEPT ![p] = Onward(Ticked(run[p], FALSE))]
          /\ IF run[p].mode = "read" THEN UNCHANGED <<slack, hands, settled>>
             ELSE /\ slack' \in {slack, [slack EXCEPT ![k] = run[p].desired]}
                  /\ hands' = [hands EXCEPT ![k] = p]
                  /\ settled' = settled \ {k}
      BY <1>7 DEF ExecuteFails
    <2> QED
      BY <1>4, <1>5, <2>1
  <1> QED
    BY <1>3, <1>6, <1>7

\* The successes of a round are recorded; those that another session has followed are
\* not settled by it.
LEMMA RecordKeeps ==
    ASSUME FleetInv, NEW p \in Procs, RecordRound(p), UNCHANGED job
    PROVE  CommandsInv'
  <1> DEFINE r == run[p]
             S == r.fresh
             n == AfterRound(r)
  <1>1. /\ CommandsInv /\ Sound(r) /\ r \in Runs /\ r.pc = "record"
        /\ UNCHANGED <<slack, hands>>
    BY DEF FleetInv, CommandsInv, RunsInv, Sound, RecordRound, RunAt
  <1>2. Targets(r)
    BY <1>1 DEF Sound
  <1>3. r.mode \in Workflows /\ S \subseteq r.won /\ r.won \subseteq r.all
    BY <1>1, <1>2 DEF Targets, Workflows
  <1>4. S \subseteq Kvms
    BY <1>1, <1>3 DEF Runs
  <1>5. Sound(n) /\ Follows(r, n)
    <2>1. n = AfterRound(r)
      OBVIOUS
    <2> HIDE DEF r, n
    <2> QED
      BY ONLY <1>1, <2>1, AfterRoundIsSound DEF Stopped, Follows
  <1>6. RecordInv'
    <2>1. /\ settled' = (settled \ S) \cup {k \in S : hands[k] = p}
          /\ record' = [k \in Kvms |-> IF k \in S THEN [value |-> r.desired, at |-> now]
                                       ELSE IF k \in r.known THEN record[k] ELSE None]
      BY DEF RecordRound, Successes, RecordSuccesses
    <2>2. settled' \subseteq Kvms
      BY <1>1, <1>4, <2>1 DEF CommandsInv, RecordInv
    <2>3. ASSUME NEW k \in settled', record'[k] # None
          PROVE  slack[k] = record'[k].value
      <3>1. CASE k \in S
        <4>1. hands[k] = p /\ k \in Kvms /\ k \in r.won
          BY <1>3, <1>4, <2>1, <2>3, <3>1
        <4>2. slack[k] = r.desired
          BY <1>1, <4>1 DEF CommandsInv, HandsInv
        <4> QED
          BY <2>1, <3>1, <4>1, <4>2
      <3>2. CASE k \notin S
        <4>1. k \in settled /\ record'[k] = record[k]
          BY <2>1, <2>2, <2>3, <3>2
        <4> QED
          BY <1>1, <2>3, <4>1 DEF CommandsInv, RecordInv
      <3> QED
        BY <3>1, <3>2
    <2> QED
      BY <1>1, <2>2, <2>3 DEF RecordInv
  <1>7. run' = [run EXCEPT ![p] = n]
    BY DEF RecordRound
  <1> HIDE DEF n
  <1> QED
    BY <1>1, <1>5, <1>6, <1>7, WorkKeeps

LEMMA WakeKeeps ==
    ASSUME FleetInv, NEW p \in Procs, Wake(p), UNCHANGED <<job, record>>
    PROVE  CommandsInv'
  <1> DEFINE r == run[p]
  <1>1. /\ CommandsInv /\ Sound(r) /\ r \in Runs /\ r.pc = "wait"
        /\ UNCHANGED <<slack, hands, settled>>
    BY DEF FleetInv, CommandsInv, RunsInv, Sound, Wake, RunAt
  <1>2. RecordInv'
    BY <1>1, KeptRecord
  <1>3. ASSUME NEW n, Sound(n), Follows(r, n), run' = [run EXCEPT ![p] = n]
        PROVE  CommandsInv'
    BY <1>1, <1>2, <1>3, WorkKeeps
  <1>4. CASE run' = [run EXCEPT ![p] = Retrying(r)]
    <2> DEFINE n == Retrying(r)
    <2>1. n = Retrying(r)
      OBVIOUS
    <2>2. Sound(n) /\ Follows(r, n)
      <3> HIDE DEF r, n
      <3> QED
        BY ONLY <1>1, <2>1, RetryingIsSound DEF Stopped, Follows
    <2> HIDE DEF n
    <2> QED
      BY <1>3, <1>4, <2>1, <2>2
  <1>5. CASE run' = [run EXCEPT ![p] = [r EXCEPT !.pc = "over"]]
    <2> DEFINE n == [r EXCEPT !.pc = "over"]
    <2>1. Sound(n) /\ Follows(r, n)
      <3>1. n = [r EXCEPT !.pc = "over"]
        OBVIOUS
      <3> HIDE DEF r, n
      <3> QED
        BY ONLY <1>1, <3>1, OverIsSound DEF Stopped, Follows
    <2> HIDE DEF r
    <2> QED
      BY <1>3, <1>5, <2>1
  <1> QED
    BY <1>4, <1>5 DEF Wake

LEMMA FilterKeeps ==
    ASSUME FleetInv, NEW p \in Procs, FilterDue(p), UNCHANGED <<job, record>>
    PROVE  CommandsInv'
  <1> DEFINE r == run[p]
             due == RequiringReconciliation(r.round, r.desired, LastBoundary)
             n == [r EXCEPT !.round = due, !.todo = due,
                            !.pc = IF due = {} THEN "over" ELSE "working"]
  <1>1. /\ CommandsInv /\ Sound(r) /\ r \in Runs /\ r.pc = "filter"
        /\ UNCHANGED <<slack, hands, settled>>
    BY DEF FleetInv, CommandsInv, RunsInv, Sound, FilterDue, RunAt
  <1>2. RecordInv'
    BY <1>1, KeptRecord
  <1>3. run' = [run EXCEPT ![p] = n]
    BY DEF FilterDue
  <1>4. Sound(n) /\ Follows(r, n)
    <2>1. due \in SUBSET r.round
      BY RequiringIsSubset
    <2>2. n = [r EXCEPT !.round = due, !.todo = due,
                        !.pc = IF due = {} THEN "over" ELSE "working"]
      OBVIOUS
    <2> HIDE DEF r, due, n
    <2> QED
      BY ONLY <1>1, <2>1, <2>2, FilteredIsSound DEF Stopped, Follows
  <1> HIDE DEF n
  <1> QED
    BY <1>1, <1>2, <1>3, <1>4, WorkKeeps

LEMMA OverKeeps ==
    ASSUME FleetInv, NEW p \in Procs, UNCHANGED <<job, record>>,
           RecordFails(p) \/ \E good \in BOOLEAN : MeetingWork(p, good)
    PROVE  CommandsInv'
  <1> DEFINE r == run[p]
  <1>1. /\ CommandsInv /\ Sound(r) /\ r \in Runs /\ r.pc \in {"record", "meeting"}
        /\ UNCHANGED <<slack, hands, settled>>
    BY DEF FleetInv, CommandsInv, RunsInv, Sound, RecordFails, MeetingWork, RunAt
  <1>2. RecordInv'
    BY <1>1, KeptRecord
  <1>3. \E n : /\ run' = [run EXCEPT ![p] = n]
               /\ \/ r.pc = "record" /\ n = [r EXCEPT !.pc = "over", !.raised = TRUE]
                  \/ /\ r.pc = "meeting"
                     /\ \E lost \in {{}, {Recorder}} : n = [r EXCEPT !.pc = "over", !.lost = lost]
    <2>1. CASE RecordFails(p)
      <3> DEFINE n == [r EXCEPT !.pc = "over", !.raised = TRUE]
      <3>1. run' = [run EXCEPT ![p] = n] /\ r.pc = "record"
        BY <1>1, <2>1 DEF RecordFails, RunAt, CommandsInv, RunsInv
      <3> QED
        BY <3>1
    <2>2. ASSUME NEW good \in BOOLEAN, MeetingWork(p, good)
          PROVE  \E lost \in {{}, {Recorder}} :
                    /\ r.pc = "meeting"
                    /\ run' = [run EXCEPT ![p] = [r EXCEPT !.pc = "over", !.lost = lost]]
      <3> DEFINE lost == IF good THEN {} ELSE {Recorder}
      <3>1. r.pc = "meeting" /\ run' = [run EXCEPT ![p] = [r EXCEPT !.pc = "over", !.lost = lost]]
        BY <1>1, <2>2 DEF MeetingWork, RunAt, CommandsInv, RunsInv
      <3> QED
        BY <3>1
    <2> QED
      BY <2>1, <2>2
  <1>4. PICK n : /\ run' = [run EXCEPT ![p] = n]
                 /\ \/ r.pc = "record" /\ n = [r EXCEPT !.pc = "over", !.raised = TRUE]
                    \/ /\ r.pc = "meeting"
                       /\ \E lost \in {{}, {Recorder}} : n = [r EXCEPT !.pc = "over", !.lost = lost]
    BY <1>3
  <1>5. Sound(n) /\ Follows(r, n)
    <2> HIDE DEF r
    <2>1. /\ Sound(n) /\ n.pc = "over" /\ n.mode = r.mode /\ n.all = r.all
          /\ n.desired = r.desired /\ n.won = r.won
      <3>1. CASE r.pc = "record" /\ n = [r EXCEPT !.pc = "over", !.raised = TRUE]
        BY ONLY <1>1, <3>1, OverIsSound
      <3>2. CASE /\ r.pc = "meeting"
                 /\ \E lost \in {{}, {Recorder}} : n = [r EXCEPT !.pc = "over", !.lost = lost]
        BY ONLY <1>1, <3>2, OverIsSound
      <3> QED
        BY ONLY <1>4, <3>1, <3>2
    <2> QED
      BY ONLY <2>1 DEF Stopped, Follows
  <1> QED
    BY <1>1, <1>2, <1>4, <1>5, WorkKeeps

--------------------------------------------------------------------------------
\* An installation or a removal moves on by one agent, or is broken off there, and the
\* runs of that agent may go with it; its own is none of them.
AgentStep(p) ==
    \/ InstallStep(p) \/ InstallFails(p)
    \/ UninstallStep(p) \/ UninstallFails(p)

LEMMA AgentStepDoes ==
    ASSUME CommandsInv, NEW p \in Procs, AgentStep(p), NEW r, r = run[p], NEW a, a = First(r.todo)
    PROVE  /\ r.pc = "working" /\ r.mode \in Installing /\ a \in r.todo /\ a \in Agents
           /\ p \notin Evicted(a) /\ ForgetHands(Evicted(a)) /\ UNCHANGED <<slack, settled>>
           /\ \/ \E good \in BOOLEAN :
                    run' = [Ended(Evicted(a)) EXCEPT ![p] = Onward(Ticked(r, good))]
              \/ run' = [Ended(Evicted(a)) EXCEPT ![p] = [r EXCEPT !.pc = "over", !.raised = TRUE]]
  <1>1. r.pc = "working" /\ r.mode \in Installing
    BY DEF AgentStep, InstallStep, InstallFails, UninstallStep, UninstallFails, OnAgents, RunAt,
           Installing
  <1>2. Sound(r) /\ r \in Runs /\ Targets(r)
    BY DEF CommandsInv, RunsInv, Sound
  <1>3. a \in r.todo /\ a \in Agents /\ r.label = None
    <2>1. r.todo \in SUBSET Nat /\ r.todo # {} /\ r.todo \subseteq Agents /\ r.label = None
      BY <1>1, <1>2 DEF Targets, Runs
    <2> QED
      BY <2>1, FirstIsLeast
  <1>4. p \notin Evicted(a)
    BY <1>3, NamesAssumption DEF Evicted
  <1>5. Survivors(a) = Ended(Evicted(a)) /\ Survivors(a)[p] = r
    BY <1>4 DEF Survivors, Ended
  <1>6. /\ ForgetHands(Evicted(a)) /\ UNCHANGED <<slack, settled>>
        /\ \/ \E good \in BOOLEAN :
                 run' = [Survivors(a) EXCEPT ![p] = Onward(Ticked(Survivors(a)[p], good))]
           \/ run' = [Survivors(a) EXCEPT ![p].pc = "over", ![p].raised = TRUE]
    <2>1. CASE InstallStep(p)
      BY <2>1 DEF InstallStep
    <2>2. CASE InstallFails(p)
      BY <2>2 DEF InstallFails
    <2>3. CASE UninstallStep(p)
      BY <2>3 DEF UninstallStep
    <2>4. CASE UninstallFails(p)
      <3> DEFINE good == agent[a].loaded = None
      <3>1. good \in BOOLEAN
        OBVIOUS
      <3>2. /\ ForgetHands(Evicted(a)) /\ UNCHANGED <<slack, settled>>
            /\ \/ run' = [Survivors(a) EXCEPT ![p] = Onward(Ticked(@, good))]
               \/ run' = [Survivors(a) EXCEPT ![p].pc = "over", ![p].raised = TRUE]
        BY <2>4 DEF UninstallFails
      <3> HIDE DEF good
      <3> QED
        BY <3>1, <3>2
    <2> QED
      BY <2>1, <2>2, <2>3, <2>4 DEF AgentStep
  <1>7. [Survivors(a) EXCEPT ![p].pc = "over", ![p].raised = TRUE]
           = [Ended(Evicted(a)) EXCEPT ![p] = [r EXCEPT !.pc = "over", !.raised = TRUE]]
    <2> DEFINE w == Ended(Evicted(a))
    <2>1. w = Survivors(a) /\ w[p] = r /\ DOMAIN w = Procs
      BY <1>5 DEF Ended
    <2> HIDE DEF w
    <2>2. [w EXCEPT ![p].pc = "over", ![p].raised = TRUE]
             = [w EXCEPT ![p] = [r EXCEPT !.pc = "over", !.raised = TRUE]]
      BY <2>1, <1>2 DEF Runs
    <2> QED
      BY <2>1, <2>2 DEF w
  <1> QED
    BY <1>1, <1>3, <1>4, <1>5, <1>6, <1>7

LEMMA AgentStepsKeep ==
    ASSUME FleetInv, NEW p \in Procs, AgentStep(p), UNCHANGED <<job, record>>
    PROVE  CommandsInv'
  <1> DEFINE r == run[p]
             a == First(r.todo)
             dead == Evicted(a)
  <1>1. CommandsInv /\ Sound(r) /\ r \in Runs
    BY DEF FleetInv, CommandsInv, RunsInv, Sound
  <1>2. /\ r.pc = "working" /\ r.mode \in Installing
        /\ ForgetHands(dead) /\ UNCHANGED <<slack, settled>>
        /\ \/ \E good \in BOOLEAN : run' = [Ended(dead) EXCEPT ![p] = Onward(Ticked(r, good))]
           \/ run' = [Ended(dead) EXCEPT ![p] = [r EXCEPT !.pc = "over", !.raised = TRUE]]
    BY <1>1, AgentStepDoes
  <1> HIDE DEF dead, a
  <1>3. \E n : Sound(n) /\ run' = [Ended(dead) EXCEPT ![p] = n]
    <2>1. ASSUME NEW good \in BOOLEAN
          PROVE  Sound(Onward(Ticked(r, good)))
      <3> DEFINE n == Onward(Ticked(r, good))
                 k == First(r.todo)
      <3>1. n = Onward(Ticked(r, good)) /\ k = First(r.todo)
        OBVIOUS
      <3> HIDE DEF r, n, k
      <3>2. Sound(n)
        BY ONLY <1>1, <1>2, <2>1, <3>1, TickedIsSound
      <3> QED
        BY <3>2 DEF n
    <2>2. Sound([r EXCEPT !.pc = "over", !.raised = TRUE])
      <3> DEFINE n == [r EXCEPT !.pc = "over", !.raised = TRUE]
      <3>1. n = [r EXCEPT !.pc = "over", !.raised = TRUE]
        OBVIOUS
      <3> HIDE DEF r, n
      <3>2. Sound(n)
        BY ONLY <1>1, <1>2, <3>1, OverIsSound
      <3> QED
        BY <3>2 DEF n
    <2> QED
      BY <1>2, <2>1, <2>2
  <1>4. RunsInv' /\ HandsInv'
    BY <1>1, <1>2, <1>3, HandsEvicted
  <1>5. RecordInv'
    BY <1>1, <1>2, KeptRecord
  <1>6. \A q \in Procs : q # p => run'[q] = run[q] \/ run'[q] = Idle
    BY <1>3 DEF Ended
  <1>7. OutcomeInv'
    BY <1>1, <1>2, <1>6, OutcomesStay
  <1> QED
    BY <1>4, <1>5, <1>7 DEF CommandsInv

LEMMA StillKeeps ==
    ASSUME CommandsInv, UNCHANGED <<run, slack, hands, settled, record, job>>
    PROVE  CommandsInv'
  BY DEF CommandsInv, RunsInv, HandsInv, RecordInv, OutcomeInv, Bad, Sound, Targets, Visits

LEMMA StepsKeep ==
    ASSUME FleetInv, NEW p \in Procs, Step(p) \/ StepFails(p), keepJobs
    PROVE  CommandsInv'
  <1>1. UNCHANGED job
    BY DEF keepJobs, jobVars
  <1>2. CASE UNCHANGED record /\ (ExecuteSucceeds(p) \/ ExecuteRefused(p) \/ ExecuteFails(p))
    BY <1>1, <1>2, ExecutesKeep
  <1>3. CASE UNCHANGED record /\ (Wake(p) \/ FilterDue(p))
    BY <1>1, <1>3, WakeKeeps, FilterKeeps
  <1>4. CASE UNCHANGED record /\ (RecordFails(p) \/ MeetingWork(p, TRUE) \/ MeetingWork(p, FALSE))
    BY <1>1, <1>4, OverKeeps
  <1>5. CASE RecordRound(p)
    BY <1>1, <1>5, RecordKeeps
  <1>6. CASE UNCHANGED record /\ AgentStep(p)
    BY <1>1, <1>6, AgentStepsKeep
  <1> QED
    BY <1>2, <1>3, <1>4, <1>5, <1>6 DEF Step, StepFails, AgentStep, keepFiles

LEMMA FleetKept == FleetInv /\ [Next]_vars => FleetInv'
  <1> SUFFICES ASSUME FleetInv, [Next]_vars PROVE FleetInv'
    OBVIOUS
  <1>1. FilesOK' /\ IInv'
    BY FilesPreserved, StepIsJobStep, StepPreserves DEF FleetInv
  <1>2. ASSUME NEW p \in Procs,
               \/ Command(p) \/ \E a \in Agents : Fires(p, a)
               \/ Request(p) \/ JobBegins(p)
        PROVE  CommandsInv'
    BY <1>2, CommandKeeps, FiresKeeps, RequestKeeps, JobBeginsKeeps
  <1>3. ASSUME NEW p \in Procs,
               \/ Exit(p) \/ JobReturns(p)
               \/ JobCannotBegin(p) \/ CancelRequest(p) \/ JobSettles(p)
        PROVE  CommandsInv'
    BY <1>3, EndsKeep, JobStepsKeep
  <1>4. ASSUME NEW p \in Procs, Step(p) \/ StepFails(p), keepJobs
        PROVE  CommandsInv'
    BY <1>4, StepsKeep
  <1>5. ASSUME Dies PROVE CommandsInv'
    BY <1>5, EndsKeep
  <1>6. ASSUME \/ UNCHANGED <<run, record, agent>> /\ keepHistory /\ keepJobs
               \/ Tick \/ UNCHANGED vars
        PROVE  CommandsInv'
    <2>1. CommandsInv /\ UNCHANGED <<run, slack, hands, settled, record, job>>
      BY <1>6 DEF FleetInv, keepHistory, keepJobs, keepFiles, jobVars, Tick, vars
    <2> QED
      BY <2>1, StillKeeps
  <1>7. CommandsInv'
    BY <1>2, <1>3, <1>4, <1>5, <1>6 DEF Next
  <1> QED
    BY <1>1, <1>7 DEF FleetInv

\* Whatever interleaves on the Mac, its commands stay what their steps make of them: the
\* results of a run are of its targets, a KVM's last session is of a command that is
\* still there, and the record of a settled KVM tells what Slack shows
\* (schedule/cli.py:128-340, dashboard/operations.py, dashboard/jobs.py:133-180).
THEOREM FleetInvariant == Spec => []FleetInv
  BY InitFleet, FleetKept, PTL DEF Spec

--------------------------------------------------------------------------------
\* A reading of the clock as week, day and half hour.
At(q, d, h) == q * Week + d * Day + h

LEMMA Reading ==
    ASSUME NEW t \in Int
    PROVE  \E q \in Int, d \in 0..6, h \in 0..47 : t = At(q, d, h)
  <1> DEFINE q == t \div 336  r == t % 336  d == r \div 48  h == r % 48
  <1>1. q \in Int /\ r \in 0..335 /\ t = 336 * q + r
    OBVIOUS
  <1>2. d \in 0..6 /\ h \in 0..47 /\ r = 48 * d + h
    BY <1>1
  <1> HIDE DEF q, r, d, h
  <1> QED
    BY <1>1, <1>2 DEF At, Week, Day

LEMMA ReadingOf ==
    ASSUME NEW q \in Int, NEW d \in 0..6, NEW h \in 0..47
    PROVE  /\ At(q, d, h) \in Int /\ At(q, d, h) % Day = h /\ Weekday(At(q, d, h)) = d
           /\ DayStart(At(q, d, h)) = At(q, d, 0) /\ At(q, d, 0) \in Int
  <1>1. At(q, d, h) = 48 * (7 * q + d) + h /\ At(q, d, h) \in Int
    BY DEF At, Week, Day
  <1>2. At(q, d, h) \div 48 = 7 * q + d /\ At(q, d, h) % 48 = h
    BY <1>1
  <1>3. (7 * q + d) % 7 = d
    OBVIOUS
  <1> QED
    BY <1>1, <1>2, <1>3 DEF Weekday, DayStart, At, Week, Day

LEMMA WeekdayAhead ==
    ASSUME NEW q \in Int, NEW d \in 0..6, NEW n \in -8..8
    PROVE  Weekday(At(q, d, 0) + n * Day) = (d + n) % 7
  <1>1. At(q, d, 0) + n * 48 = 48 * (7 * q + d + n)
    BY DEF At, Week, Day
  <1>2. (At(q, d, 0) + n * 48) \div 48 = 7 * q + d + n
    BY <1>1
  <1>3. (7 * q + d + n) % 7 = (d + n) % 7
    OBVIOUS
  <1> QED
    BY <1>2, <1>3 DEF Weekday, Day

\* The boundaries of the d-th day of a week: at 2:00 after a working day, at 18:00 on one.
LEMMA BoundaryOf ==
    ASSUME NEW q \in Int, NEW d \in 0..6, NEW n \in -8..8, NEW b
    PROVE  b \in Boundaries(At(q, d, 0) + n * Day) <=>
              \/ /\ b = [at |-> At(q, d + n, AwayStart), state |-> "away"]
                 /\ (d + n) % 7 \in 1..5
              \/ /\ b = [at |-> At(q, d + n, ActiveStart), state |-> "active"]
                 /\ (d + n) % 7 \in 0..4
  <1>1. Weekday(At(q, d, 0) + n * Day) = (d + n) % 7
    BY WeekdayAhead
  <1>2. /\ At(q, d, 0) + n * Day + AwayStart = At(q, d + n, AwayStart)
        /\ At(q, d, 0) + n * Day + ActiveStart = At(q, d + n, ActiveStart)
    BY DEF At, Week, Day, AwayStart, ActiveStart
  <1> QED
    BY <1>1, <1>2 DEF Boundaries

\* The boundary that a reading follows and the one it precedes, in its week's half hours.
Previous(d, h) ==
    IF d = 0 THEN IF h < 36 THEN -92 ELSE 36
    ELSE IF d = 6 THEN 244
    ELSE IF h < 4 THEN 48 * d - 12
    ELSE IF h < 36 \/ d = 5 THEN 48 * d + 4 ELSE 48 * d + 36

Coming(d, h) ==
    IF d = 0 THEN IF h < 36 THEN 36 ELSE 52
    ELSE IF d = 6 THEN 372
    ELSE IF h < 4 THEN 48 * d + 4
    ELSE IF d = 5 THEN 372
    ELSE IF h < 36 THEN 48 * d + 36 ELSE 48 * d + 52

State(d, h) == IF (d \in 0..4 /\ h >= 36) \/ (d \in 1..5 /\ h < 4) THEN "active" ELSE "away"
Other(s) == IF s = "active" THEN "away" ELSE "active"

LEMMA LastIs ==
    ASSUME NEW q \in Int, NEW d \in 0..6, NEW h \in 0..47, NEW t, t = At(q, d, h)
    PROVE  LastTransition(t) = [at |-> At(q, 0, Previous(d, h)), state |-> State(d, h)]
  <1> DEFINE last == [at |-> At(q, 0, Previous(d, h)), state |-> State(d, h)]
  <1>1. \A c : c \in UpTo(t) <=>
           /\ c.at <= t
           /\ \E n \in 0..8 :
                \/ /\ c = [at |-> At(q, d - n, AwayStart), state |-> "away"]
                   /\ (d - n) % 7 \in 1..5
                \/ /\ c = [at |-> At(q, d - n, ActiveStart), state |-> "active"]
                   /\ (d - n) % 7 \in 0..4
    <2>1. \A n \in 0..8 : -n \in -8..8 /\ d + (-n) = d - n
                          /\ DayStart(t) - n * Day = At(q, d, 0) + (-n) * Day
      <3>1. DayStart(t) = At(q, d, 0) /\ At(q, d, 0) \in Int
        BY ReadingOf
      <3> QED
        BY <3>1 DEF Day
    <2>2. \A n \in 0..8 : \A c : c \in Boundaries(DayStart(t) - n * Day) <=>
                \/ /\ c = [at |-> At(q, d - n, AwayStart), state |-> "away"]
                   /\ (d - n) % 7 \in 1..5
                \/ /\ c = [at |-> At(q, d - n, ActiveStart), state |-> "active"]
                   /\ (d - n) % 7 \in 0..4
      <3> SUFFICES ASSUME NEW n \in 0..8, NEW c
                   PROVE  c \in Boundaries(DayStart(t) - n * Day) <=>
                \/ /\ c = [at |-> At(q, d - n, AwayStart), state |-> "away"]
                   /\ (d - n) % 7 \in 1..5
                \/ /\ c = [at |-> At(q, d - n, ActiveStart), state |-> "active"]
                   /\ (d - n) % 7 \in 0..4
        OBVIOUS
      <3> DEFINE m == -n
      <3>1. /\ m \in -8..8 /\ d + m = d - n
            /\ DayStart(t) - n * Day = At(q, d, 0) + m * Day
        BY <2>1
      <3> HIDE DEF m
      <3>2. c \in Boundaries(At(q, d, 0) + m * Day) <=>
               \/ /\ c = [at |-> At(q, d + m, AwayStart), state |-> "away"]
                  /\ (d + m) % 7 \in 1..5
               \/ /\ c = [at |-> At(q, d + m, ActiveStart), state |-> "active"]
                  /\ (d + m) % 7 \in 0..4
        BY <3>1, BoundaryOf
      <3> QED
        BY ONLY <3>1, <3>2
    <2> QED
      BY <2>2 DEF UpTo, SearchDays
  <1>2. last \in UpTo(t)
    <2>1. last.at <= t
      BY DEF Previous, At, Week, Day
    <2> QED
      BY <1>1, <2>1 DEF Previous, State, At, Week, Day, AwayStart, ActiveStart
  <1>3. ASSUME NEW c \in UpTo(t)
        PROVE  c.at \in Int /\ c.at <= last.at /\ (c.at = last.at => c = last)
    <2>1. c.at <= At(q, d, h)
      BY <1>1
    <2>2. PICK n \in 0..8 :
                \/ /\ c = [at |-> At(q, d - n, AwayStart), state |-> "away"]
                   /\ (d - n) % 7 \in 1..5
                \/ /\ c = [at |-> At(q, d - n, ActiveStart), state |-> "active"]
                   /\ (d - n) % 7 \in 0..4
      BY <1>1
    <2> QED
      BY <2>1, <2>2 DEF Previous, State, At, Week, Day, AwayStart, ActiveStart
  <1> HIDE DEF last
  <1>4. \A b \in UpTo(t) : (\A c \in UpTo(t) : c.at <= b.at) => b = last
    BY <1>2, <1>3
  <1> QED
    BY <1>2, <1>3, <1>4 DEF LastTransition, last

LEMMA NextIs ==
    ASSUME NEW q \in Int, NEW d \in 0..6, NEW h \in 0..47, NEW t, t = At(q, d, h)
    PROVE  NextTransition(t) = [at |-> At(q, 0, Coming(d, h)), state |-> Other(State(d, h))]
  <1> DEFINE next == [at |-> At(q, 0, Coming(d, h)), state |-> Other(State(d, h))]
  <1>1. \A c : c \in After(t) <=>
           /\ c.at > t
           /\ \E n \in 0..8 :
                \/ /\ c = [at |-> At(q, d + n, AwayStart), state |-> "away"]
                   /\ (d + n) % 7 \in 1..5
                \/ /\ c = [at |-> At(q, d + n, ActiveStart), state |-> "active"]
                   /\ (d + n) % 7 \in 0..4
    <2>1. DayStart(t) = At(q, d, 0)
      BY ReadingOf
    <2>2. \A n \in 0..8 : \A c : c \in Boundaries(DayStart(t) + n * Day) <=>
                \/ /\ c = [at |-> At(q, d + n, AwayStart), state |-> "away"]
                   /\ (d + n) % 7 \in 1..5
                \/ /\ c = [at |-> At(q, d + n, ActiveStart), state |-> "active"]
                   /\ (d + n) % 7 \in 0..4
      <3> SUFFICES ASSUME NEW n \in 0..8, NEW c
                   PROVE  c \in Boundaries(At(q, d, 0) + n * Day) <=>
                \/ /\ c = [at |-> At(q, d + n, AwayStart), state |-> "away"]
                   /\ (d + n) % 7 \in 1..5
                \/ /\ c = [at |-> At(q, d + n, ActiveStart), state |-> "active"]
                   /\ (d + n) % 7 \in 0..4
        BY <2>1
      <3>1. n \in -8..8
        OBVIOUS
      <3> QED
        BY <3>1, BoundaryOf
    <2> QED
      BY <2>2 DEF After, SearchDays
  <1>2. next \in After(t)
    <2>1. next.at > t
      BY DEF Coming, At, Week, Day
    <2> QED
      BY <1>1, <2>1 DEF Coming, State, Other, At, Week, Day, AwayStart, ActiveStart
  <1>3. ASSUME NEW c \in After(t)
        PROVE  c.at \in Int /\ next.at <= c.at /\ (c.at = next.at => c = next)
    <2>1. c.at > At(q, d, h)
      BY <1>1
    <2>2. PICK n \in 0..8 :
                \/ /\ c = [at |-> At(q, d + n, AwayStart), state |-> "away"]
                   /\ (d + n) % 7 \in 1..5
                \/ /\ c = [at |-> At(q, d + n, ActiveStart), state |-> "active"]
                   /\ (d + n) % 7 \in 0..4
      BY <1>1
    <2> QED
      BY <2>1, <2>2 DEF Coming, State, Other, At, Week, Day, AwayStart, ActiveStart
  <1> HIDE DEF next
  <1>4. \A b \in After(t) : (\A c \in After(t) : b.at <= c.at) => b = next
    BY <1>2, <1>3
  <1> QED
    BY <1>2, <1>3, <1>4 DEF NextTransition, next

LEMMA DesiredIs ==
    ASSUME NEW q \in Int, NEW d \in 0..6, NEW h \in 0..47
    PROVE  DesiredAvailability(At(q, d, h)) = State(d, h)
  <1>1. At(q, d, h) % Day = h /\ Weekday(At(q, d, h)) = d
    BY ReadingOf
  <1> QED
    BY <1>1 DEF DesiredAvailability, State, ActiveStart, AwayStart

\* At the coming boundary the desired state changes, not before.
LEMMA ChangesThere ==
    ASSUME NEW q \in Int, NEW d \in 0..6, NEW h \in 0..47
    PROVE  /\ At(q, 0, Coming(d, h)) \in Int
           /\ DesiredAvailability(At(q, 0, Coming(d, h))) = Other(State(d, h))
           /\ DesiredAvailability(At(q, 0, Coming(d, h)) - 1) = State(d, h)
  <1> DEFINE b == At(q, 0, Coming(d, h))
  <1>1. \E w \in Int, e \in 0..6, g \in 1..47 :
           /\ b = At(w, e, g) /\ b - 1 = At(w, e, g - 1)
           /\ State(e, g) = Other(State(d, h)) /\ State(e, g - 1) = State(d, h)
    <2>1. CASE Coming(d, h) = 372
      <3>1. b = At(q + 1, 0, 36) /\ b - 1 = At(q + 1, 0, 35)
        BY <2>1 DEF At, Week, Day
      <3>2. State(d, h) = "away" /\ State(0, 36) = "active" /\ State(0, 35) = "away"
        BY <2>1 DEF Coming, State
      <3> QED
        BY <3>1, <3>2 DEF Other
    <2>2. CASE Coming(d, h) # 372
      <3>1. PICK e \in 0..5, g \in {4, 36} :
               /\ Coming(d, h) = 48 * e + g
               /\ State(e, g) = Other(State(d, h)) /\ State(e, g - 1) = State(d, h)
        <4>1. \/ Coming(d, h) = 48 * d + 36 /\ d \in 0..4 /\ State(d, h) = "away"
              \/ Coming(d, h) = 48 * d + 4 /\ d \in 1..5 /\ State(d, h) = "active"
              \/ /\ Coming(d, h) = 48 * (d + 1) + 4 /\ d + 1 \in 1..5
                 /\ State(d, h) = "active"
          BY <2>2 DEF Coming, State
        <4>2. \A e \in 0..4 : State(e, 36) = "active" /\ State(e, 35) = "away"
          BY DEF State
        <4>3. \A e \in 1..5 : State(e, 4) = "away" /\ State(e, 3) = "active"
          BY DEF State
        <4> QED
          BY <4>1, <4>2, <4>3 DEF Other
      <3>2. /\ q \in Int /\ e \in 0..6 /\ g \in 1..47
            /\ b = At(q, e, g) /\ b - 1 = At(q, e, g - 1)
        BY <3>1 DEF At, Week, Day
      <3> QED
        BY <3>1, <3>2
    <2> QED
      BY <2>1, <2>2
  <1>2. PICK w \in Int, e \in 0..6, g \in 1..47 :
           /\ b = At(w, e, g) /\ b - 1 = At(w, e, g - 1)
           /\ State(e, g) = Other(State(d, h)) /\ State(e, g - 1) = State(d, h)
    BY <1>1
  <1>3. DesiredAvailability(b) = State(e, g)
    BY <1>2, DesiredIs
  <1>4. DesiredAvailability(b - 1) = State(e, g - 1)
    <2> DEFINE f == g - 1
    <2>1. f \in 0..47 /\ b - 1 = At(w, e, f)
      BY <1>2
    <2> HIDE DEF f
    <2>2. DesiredAvailability(b - 1) = State(e, f)
      BY <2>1, DesiredIs
    <2> QED
      BY <2>2 DEF f
  <1>5. b \in Int
    BY <1>2 DEF At, Week, Day
  <1> QED
    BY <1>2, <1>3, <1>4, <1>5

\* The three searches of the schedule agree at every reading of the clock.
LEMMA SearchesAgree ==
    ASSUME NEW t \in Int
    PROVE  /\ LastTransition(t).at \in Int /\ LastTransition(t).at <= t
           /\ NextTransition(t).at \in Int /\ t < NextTransition(t).at
           /\ DesiredAvailability(t) = LastTransition(t).state
           /\ NextTransition(t).state = DesiredAvailability(NextTransition(t).at)
           /\ NextTransition(t).state # LastTransition(t).state
           /\ DesiredAvailability(NextTransition(t).at - 1) = LastTransition(t).state
  <1>1. PICK q \in Int, d \in 0..6, h \in 0..47 : t = At(q, d, h)
    BY Reading
  <1>2. LastTransition(t) = [at |-> At(q, 0, Previous(d, h)), state |-> State(d, h)]
    BY <1>1, LastIs
  <1>3. NextTransition(t) = [at |-> At(q, 0, Coming(d, h)), state |-> Other(State(d, h))]
    BY <1>1, NextIs
  <1>4. /\ LastTransition(t).at = At(q, 0, Previous(d, h))
        /\ LastTransition(t).state = State(d, h)
        /\ NextTransition(t).at = At(q, 0, Coming(d, h))
        /\ NextTransition(t).state = Other(State(d, h))
    BY <1>2, <1>3
  <1>5. DesiredAvailability(t) = State(d, h)
    BY <1>1, DesiredIs
  <1> DEFINE b == At(q, 0, Coming(d, h))
  <1>6. /\ b \in Int /\ DesiredAvailability(b) = Other(State(d, h))
        /\ DesiredAvailability(b - 1) = State(d, h)
    BY ChangesThere
  <1>7. /\ At(q, 0, Previous(d, h)) \in Int /\ At(q, 0, Previous(d, h)) <= t
        /\ t < At(q, 0, Coming(d, h))
    BY <1>1 DEF At, Week, Day, Previous, Coming
  <1>8. Other(State(d, h)) # State(d, h)
    BY DEF Other, State
  <1> QED
    BY <1>4, <1>5, <1>6, <1>7, <1>8

\* The clock shows one of its readings, and a record is of one.
ClockInv ==
    /\ now \in Moments
    /\ \A k \in Kvms : record[k] # None => record[k].at \in Int

LEMMA MomentsAreBounded ==
    /\ Min(Moments) \in Moments /\ Max(Moments) \in Moments
    /\ \A m \in Moments : m \in Nat /\ Min(Moments) <= m /\ m <= Max(Moments)
  <1>1. Moments \subseteq Nat /\ Moments # {}
    BY MomentsAssumption
  <1>2. Min(Moments) \in Moments /\ \A m \in Moments : Min(Moments) <= m
    BY <1>1, FirstIsLeast DEF First
  <1>3. Max(Moments) \in Moments /\ \A m \in Moments : m <= Max(Moments)
    BY <1>1, MomentsAssumption DEF Max
  <1> QED
    BY <1>1, <1>2, <1>3

LEMMA InitClock == Init => ClockInv
  BY MomentsAreBounded DEF Init, RecordInit, ClockInv

LEMMA ClockKept == ClockInv /\ [Next]_vars => ClockInv'
  <1> SUFFICES ASSUME ClockInv, [Next]_vars PROVE ClockInv'
    OBVIOUS
  <1>1. CASE Tick
    <2>1. UNCHANGED record
      BY <1>1 DEF Tick, keepFiles
    <2>2. now' \in Moments
      <3> DEFINE later == {m \in Moments : m > now}
      <3>1. later \in SUBSET Nat /\ later # {} /\ now' = First(later)
        BY <1>1, MomentsAssumption DEF Tick, First
      <3> HIDE DEF later
      <3>2. now' \in later
        BY <3>1, FirstIsLeast
      <3> QED
        BY <3>2 DEF later
    <2> QED
      BY <2>1, <2>2 DEF ClockInv
  <1>2. ASSUME NEW p \in Procs, RecordRound(p), UNCHANGED now
        PROVE  ClockInv'
    <2>1. now \in Int
      BY MomentsAssumption DEF ClockInv
    <2> QED
      BY <1>2, <2>1 DEF ClockInv, RecordRound, RecordSuccesses
  <1>3. CASE UNCHANGED <<now, record>>
    BY <1>3 DEF ClockInv
  <1>4. ASSUME NEW p \in Procs, Step(p) \/ StepFails(p)
        PROVE  (RecordRound(p) /\ UNCHANGED now) \/ UNCHANGED <<now, record>>
    BY <1>4 DEF Step, StepFails, keepFiles, ExecuteSucceeds, ExecuteRefused, ExecuteFails, Wake, FilterDue,
                MeetingWork, RecordRound, RecordFails, InstallStep, InstallFails, UninstallStep,
                UninstallFails
  <1>5. ASSUME NEW p \in Procs,
               \/ Command(p) \/ Exit(p) \/ \E a \in Agents : Fires(p, a)
               \/ Request(p) \/ JobBegins(p) \/ JobCannotBegin(p) \/ CancelRequest(p)
               \/ JobSettles(p) \/ JobReturns(p)
        PROVE  UNCHANGED <<now, record>>
    BY <1>5 DEF Command, Exit, Fires, Request, JobBegins, JobCannotBegin, CancelRequest,
                JobSettles, JobReturns, keepHistory, keepFiles
  <1>6. Dies \/ UNCHANGED vars \/ (UNCHANGED <<run, record, agent>> /\ keepHistory)
           => UNCHANGED <<now, record>>
    BY DEF Dies, vars, keepHistory, keepFiles
  <1> QED
    BY <1>1, <1>2, <1>3, <1>4, <1>5, <1>6 DEF Next

LEMMA ClockInvariant == Spec => []ClockInv
  BY InitClock, ClockKept, PTL DEF Spec

\* At whatever moments the clock is read: the desired state is that of the last boundary
\* and holds until the next one, which changes it, for every half hour of the week ahead.
\* The three searches of schedule/reconcile.py never disagree.
THEOREM ScheduleIsItsBoundariesHolds == Spec => []ScheduleIsItsBoundaries
  <1>1. ASSUME ClockInv
        PROVE  ScheduleIsItsBoundaries
    <2> SUFFICES ASSUME NEW t \in now..now + Week
                 PROVE  t \in Consistent
      BY DEF ScheduleIsItsBoundaries
    <2>1. /\ Min(Moments) \in Nat /\ Max(Moments) \in Nat /\ now \in Nat
          /\ Min(Moments) <= now /\ now <= Max(Moments)
      BY <1>1, MomentsAreBounded DEF ClockInv
    <2>2. t \in Min(Moments)..Max(Moments) + Week /\ t \in Int
      BY <2>1 DEF Week, Day
    <2>3. /\ LastTransition(t).at <= t /\ t < NextTransition(t).at
          /\ DesiredAvailability(t) = LastTransition(t).state
          /\ NextTransition(t).state = DesiredAvailability(NextTransition(t).at)
          /\ NextTransition(t).state # LastTransition(t).state
          /\ DesiredAvailability(NextTransition(t).at - 1) = LastTransition(t).state
      BY <2>2, SearchesAgree
    <2> QED
      BY <2>2, <2>3 DEF Consistent
  <1> QED
    BY <1>1, ClockInvariant, PTL

--------------------------------------------------------------------------------
\* With any number of runs, commands and jobs, at every boundary and after every failure:
\* where no session that may change a KVM's availability came after the one its record is
\* of, a record that calls the profile reconciled tells what Slack shows there
\* (schedule/cli.py:203-207, schedule/state.py).
THEOREM ReconciledIsAppliedHolds == Spec => []ReconciledIsApplied
  <1>1. ASSUME FleetInv
        PROVE  ReconciledIsApplied
    <2> SUFFICES ASSUME NEW k \in settled, ~Due(k)
                 PROVE  slack[k] = DesiredAvailability(now)
      BY DEF ReconciledIsApplied
    <2>1. record[k] # None /\ record[k].value = DesiredAvailability(now)
      BY DEF Due, RequiringReconciliation
    <2> QED
      BY <1>1, <2>1 DEF FleetInv, CommandsInv, RecordInv
  <1> QED
    BY <1>1, FleetInvariant, PTL

\* A job that reports success has applied its state on every profile it was asked for, in
\* every interleaving with other jobs, scheduled runs and edits: no target is left out by
\* a retry, a boundary in a wait or a refusal (dashboard/jobs.py:151-161,
\* operations.py:470-483).
THEOREM SucceededIsAppliedHolds == Spec => []SucceededIsApplied
  <1>1. ASSUME FleetInv
        PROVE  SucceededIsApplied
    <2> SUFFICES ASSUME NEW p \in Procs, job[p].status = "succeeded",
                        run[p].mode \in {"set", "now", "forced"}
                 PROVE  /\ run[p].won = run[p].all /\ run[p].rejected = {}
                        /\ \A k \in Kvms : hands[k] = p => slack[k] = run[p].desired
      BY DEF SucceededIsApplied
    <2>1. run[p] # Idle
      <3>1. Idle.mode = None /\ run[p].mode \in Modes
        BY DEF Idle, Modes, Scheduled
      <3> QED
        BY <3>1, RunsAssumption
    <2>2. run[p].pc = "over" /\ run[p].lost = {} /\ run[p].rejected = {}
      BY <1>1, <2>1 DEF FleetInv, CommandsInv, OutcomeInv, Bad
    <2>3. Targets(run[p])
      BY <1>1 DEF FleetInv, CommandsInv, RunsInv, Sound
    <2>4. run[p].todo = {} /\ run[p].won \subseteq run[p].all
      BY <2>2, <2>3 DEF Targets, Workflows, Scheduled
    <2>5. run[p].won = run[p].all
      BY <2>2, <2>3, <2>4 DEF Targets, Stopped
    <2>6. \A k \in Kvms : hands[k] = p => slack[k] = run[p].desired
      BY <1>1, <2>5 DEF FleetInv, CommandsInv, HandsInv
    <2> QED
      BY <2>2, <2>5, <2>6
  <1> QED
    BY <1>1, FleetInvariant, PTL

\* However its rounds fail, wait, are overtaken by a boundary or find profiles that others
\* have reconciled: a scheduled run never operates again a profile that it has brought to
\* the state it still wants (schedule/cli.py:283-320).
THEOREM RetriesLeaveSuccessesAloneHolds == Spec => []RetriesLeaveSuccessesAlone
  <1>1. ASSUME FleetInv
        PROVE  RetriesLeaveSuccessesAlone
    <2> SUFFICES ASSUME NEW p \in Procs, run[p].mode \in Scheduled
                 PROVE  run[p].todo \cap run[p].won = {}
      BY DEF RetriesLeaveSuccessesAlone
    <2>1. Targets(run[p])
      BY <1>1 DEF FleetInv, CommandsInv, RunsInv, Sound
    <2> QED
      BY <2>1 DEF Targets
  <1> QED
    BY <1>1, FleetInvariant, PTL
================================================================================
