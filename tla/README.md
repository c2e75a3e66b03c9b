# Work Agent in TLA+

Work Agent operates the Macs behind PiKVM devices (keyboard, video and mouse
over IP) and records meetings from their audio. This directory holds TLA+
models of the parts where processes, files, locks, deadlines and retries meet,
the TLC configurations that check them on small instances, and TLAPS proofs of
what holds for every value of the constants. Paths below are relative to
`src/src/work_agent/` unless they start with `src/`.

## 1. The system

### Parts, their state and operations

| part | state | operations | works with |
|---|---|---|---|
| meeting state file, `meeting/state.py` | one JSON record behind an flock | reserve, compare_and_set, claim_worker, request_stop, mark_recording_started, abandon, clear, set_aside_corrupt | every meeting process |
| recorder worker, `meeting/worker.py` | stop event, signal, last view of the record | claim, capture, heartbeat, checkpoint, finish, fail | state file, capture lock, stop file, capture |
| meeting service, `meeting/service.py` | locals of one command | start with handshake, stop with recovery and processing, abandon, status | state file, worker process, artifacts, providers |
| artifacts, `meeting/storage.py`, `meeting/manifest.py` | session directories, capture and processing lock | read and write manifest, checkpoint, transcript, intelligence, report | service, worker |
| audio capture, `meeting/capture.py` | Janus session, segmented recorder, open part | connect, rotate, promote a part, reconnect, stop | worker (callbacks), PiKVM |
| transcripts and intelligence, `meeting/transcription.py`, `meeting/intelligence.py`, ... | none | call a provider | service |
| agent controller, `agent/controller.py` | one session's run | observe, verify, plan, decide, approve, guard, execute, settle | vision model, planner, policy, user, executor |
| executor and PiKVM client, `agent/executor.py`, `pikvm/client.py`, `agent/pikvm_session.py` | authenticated session | login, HID requests, screenshots, renewal of a session | controller, PiKVM |
| controller lock, `agent/lock.py` | one flock per KVM, depth per instance | acquire with wait, release | every workflow on a KVM, the dashboard's probe |
| policies, `agent/policy.py`, `slack/policy.py`, `slack/triage_policy.py`, `agenda/policy.py` | none | evaluate a proposal on a screen | controller |
| Slack availability, `slack/agent_operator.py`, `slack/state.py` | tracker of what was seen | up to three controller sessions under one lease, Escape at the end | controller, lock |
| Slack triage, agenda, `slack/triage_operator.py`, `agenda/operator.py` | what was read | foreground, read, dismiss, scroll, merge | controller, lock, vision |
| schedule, `schedule/cli.py`, `schedule/state.py`, `schedule/reconcile.py` | what was last verified of each profile | run now, reconcile if due, retry | Slack service, launchd |
| schedule installation, `schedule/launchd.py` | property lists, what launchd has loaded | install, uninstall, status | launchd |
| dashboard jobs, `dashboard/jobs.py`, `dashboard/operations.py`, `dashboard/app.py` | jobs, reserved KVMs | start, cancel, end | all services, on threads |
| profiles, `pikvm/profiles.py`, `pikvm/profile_service.py` | profile file, keychain | add, remove, enable, disable, enroll a seed | commands, dashboard |

The rest (perception, planner, command lines, configuration, printing, the
meeting library) turns data into data or talks to one external service; it is in
the list of components with the reason it is not modelled.

### What is hard

* **Meetings.** A start spawns a detached recorder that outlives it. Starts,
  stops, abandons, status probes and the recorder share one file and two locks
  per session, each may be killed between any two steps, and every wait ends by
  a deadline. The state is read, changed and compared as three steps. What is
  right: one recorder and it owns its session; a stop sticks; a session with audio
  on disk is not failed; what is processed is of one manifest; nothing over is
  reopened; a recorder asked to stop stops.
* **Audio.** Tasks of one event loop rotate, announce, heartbeat and stop, a
  thread promotes the finished part, and sessions fail and reconnect. What is
  right: what was received stays on disk and is returned in order; nothing is
  left running; the outcome says what was recorded; a stop ends the capture.
* **Agent sessions.** A verdict on an action comes one or two loops after it,
  the screen may change between plan and action, every step may raise or be
  interrupted, and four budgets bound the loop. What is right: never a second
  action before the first is judged; nothing runs that was not authorised;
  repeats stay in their budget; the history tells what was sent; a session ends.
* **HID requests.** A timed-out request may have been acted on or be acted on
  later, and a session may expire between two requests of one action. What is
  right: no request is applied twice, a report says no more than what happened,
  and renewing the session never loops.
* **Workflows on one KVM.** Several processes want one computer, a workflow is
  several sessions, its planner may propose anything, inputs get lost or react
  late, and menus, dialogs and the lock screen come up by themselves. What is
  right: one driver from the first session to the closing Escape; what is reported
  is what the screen showed; an empty list is not a covered one; on the screen it
  was shown no session opens, joins or answers what it must not.
* **The fleet.** Scheduled runs, commands and dashboard jobs work on the same
  KVMs across a boundary of the schedule, with retries, cancels, kills, failing
  writes and edits of the profiles. What is right: the record is what the KVMs
  show; success means all of it; a KVM is reserved as long as a thread may use
  it; an edit costs no other profile its secrets.

## 2. Modules

    MeetingPhases          phases and transition table
      MeetingStateStore    the state file              refines MeetingLifecycle
        MeetingSession     locks, artifacts, the update loop
          MeetingWorker    MeetingService
            MeetingRecorder    composition with deaths and probes
    SegmentedRecorder      the recorder of one session
      AudioCapture         the capture over sessions   refines MeetingAudio
    AgentController        one session                 refines ActVerifyLoop
    HidTransport           client, executor, PiKVM     refines HidDelivery
    ControllerLock  AgentPolicy
                      RemoteDesktop
      WorkflowSession      one session inside a workflow
        AvailabilityWorkflow  TriageWorkflow  AgendaWorkflow
          Workstation      composition on one KVM
    ScheduleClock
    FleetNames
      ReconciliationState  KvmProfiles  DashboardJobs  LaunchAgents
        ScheduleRuns       the work of commands and jobs
          FleetControl     composition on the controlling Mac

`*Proofs` hold the theorems, `MC*` the instances. Operators named in comments
as slips are plausible bugs of the code; nothing in the models uses them, they
are there for the mutation of each property.

The families are separate compositions, joined by what one promises the next.
`HidTransport` justifies what `AgentController` assumes of the executor;
`AgentController` has in full the session that `WorkflowSession` condenses;
`AudioCapture` refines the callbacks `MeetingWorker` takes from the capture;
`FleetControl` takes a whole workflow as one step on its KVM, because
`Workstation` shows that it holds the lease throughout.

### Meetings

**MeetingStateStore** has a record or `NoState` or `Corrupt`. Every operation
runs under an exclusive lock and ends in an atomic rename, so it is one step; an
operation that raises changes nothing and is no step. A caller of
`compare_and_set` is not trusted: it may offer any record of the session and
revision it expects. A session fixes its KVM, start time and directory, so these
are the session itself, and session IDs are never drawn twice. `updated_at` and
`heartbeat_at`, which decide nothing, are left out. `Damage` is a file that
stops parsing.

**MeetingLifecycle** is what the file promises: one meeting, one owner while it
is captured, then only processing, then the end. `ImplementsLifecycle` maps a
record to its stage by phase and owner.

**MeetingSession** adds what the processes share: the artifacts of each session
directory, the two locks and the loop of `_update_state` and
`_WorkerState.update` as a frame with separate steps for read, commit and
conflict. An artifact is reduced to what others compare: a checkpoint and a
manifest carry the start they name, transcript and intelligence the manifest
they were made from, which is what its fingerprint tells.

**MeetingWorker** is one event loop, so a step is what runs between two points
where another process can act: the state file's operations and the artifacts. The
capture below it appears as its callbacks (first frame, heartbeat, finished
part) and outcomes (stopped, lost, no audio, local failure), all at any time: "no
audio" may come with audio on disk, when the first frame arrives as the wait for it
is given up (section 6).

**MeetingService** is the commands, each step a file or lock operation. Waits
have two exits, what they wait for and their deadline. `StartInterrupted` is
control-C in the handshake. With `StorageFails` a recovery may fail to read or write
the artifacts at any time.

**MeetingRecorder** composes callers, workers and status probes (which hold the
capture lock for an instant) with deaths: the kernel drops a dead process's
locks and nothing else is cleaned up. The worker's pid is its session, which
`PidAlive` reads as `os.kill(pid, 0)` does; pids are not reused.

### Audio capture

**SegmentedRecorder** is the recorder of one WebRTC session: start, rotation,
announcement of the first frame, promotion and stop are tasks of one event loop,
each a program counter whose steps are what runs between two awaits; the thread
that validates and renames a part runs beside them. The lock is fair in one
respect the code relies on: a stop that waits is served before the loop that
took it last. The directory is a set of files, unfinished or final, each with
the part and the session it holds, so that a rename that replaces another part
shows. Cancelling a task is the assignment to its counter that the `except` and
`finally` clauses amount to.

**AudioCapture** adds the sessions: connection, a row of signalling replies that
come, fail or time out, the wait for a stop or a failure, the closing, the
decision to return, raise or reconnect, the numbers of the parts, and the worker's
callbacks. `ConnectionFails` stands for both audio tracks, the keepalive and the
ICE state. The contents of messages, offsets, durations and the degraded flag
are left out.

**MeetingAudio** is what the worker may rely on: audio is announced at most once,
parts are handed over in the order they were recorded, and what is returned is
what was handed over.

### Agent session

**AgentController** is `AgentController.run` from the first capture to the
result, in the order of the code: the runtime limit, the observation and the
verification ladder, step limit, plan, refusal of the unverified action, policy,
the refusals after it, approval, step mode, the guard, the executor, settling.
The models, the policy, the user and the screen answer as they like. `Send` and
`Executed` are two steps so that an interrupt can come between input and
record. What the executor may report is `Report`: a sent action has reached the
computer. `reached` is a history variable.

**ActVerifyLoop** is the promise: act, judge, act, at most `MaxSteps` times.

### HID transport

**HidTransport** is one client session. Every `post` is a step; the request is
on the wire until PiKVM applies it or turns it away, which may be after the
client gave up. Login, screenshot retries, the one renewal of an expired
session, the one replacement of the client for a screenshot and the mapping of
errors to `sent`, `uncertain` or `failed` are as in the code. A login's request
has no effect the model could tell from no request, so its answer is a choice.

**HidDelivery** is the promise to the caller: the requests of an action reach
the computer in order and at most once, `sent` means all of them, and only the
requests of an uncertain action may come after its report. A `failed` action may
have been applied in part (its session expired half-way and the login that
followed was rejected), so nothing is promised of it.

### Workflows on one KVM

**ControllerLock** is the flock of one endpoint with the depth of the instance
that holds it: acquire, give up at the deadline, enter again, release, the death
of the holder and the instant in which the dashboard's probe has it.

**AgentPolicy** is the four engines as operators: a label is the set of word
classes they look for in it, a screen what the analysis says of it, an answer one
of allow, approval and deny, in the order of the code's rules.

**RemoteDesktop** is the computer: the application in front (one of them with Slack
in sight beside it), what covers it, the profile menu, the availability, the unread
entries, and a day of `Slots` hours, any of them empty, of which `View` are on the
screen and of which one scroll passes up to `MaxJump`, either way. Analyses may be
wrong about safety and about a search field, not about what is shown. An input is
lost, takes effect, or is taken by a control that reacts later (`Slow`, `React`); a
click hits whatever is there if the screen has changed since it was analysed;
Enter activates whatever may have the focus. Menus, dialogs, notifications and the
lock screen come up at any moment.

**WorkflowSession** is one controller session: look at the screen, plan on that
frame, then send, drop, complete or stop. Look and input are two steps, and anything
may happen between them: the pre-action guard compares two whole screenshots, misses
small changes, and the input follows it unlocked. The planner proposes any action
under any risk, and what the policies let through is all that binds it
(`Permitted`). What stops a session other than its completion is an outcome it may
take at any time. **AvailabilityWorkflow**, **TriageWorkflow** and
**AgendaWorkflow** are the operators above it with their recovery, verification,
dismissal, scrolling and merge. Five fields are there for the properties only:
`sent` (the type of the input just sent), `shown` and `sure` (what Slack showed
first, and that nothing was to react late at the last look), `covered` and `gap` (a
read was covered, a scroll left out more than a screenful since the read `at`).

**Workstation** composes two of them, started and killed at any time, with the
probe and the desktop. Left out: manual HID commands and a standalone `agent
run`, which do not take the lease; somebody who changes the availability by hand.

### The fleet

**ScheduleClock** has the schedule's three searches over half hours of the week.
**ReconciliationState** is the file with what was last verified of each profile.
**KvmProfiles** has the profile file, replaced whole and edited without a lock,
the passwords and seeds of the keychain and the edits as steps between them, each of
which may fail, a rollback included, or be the editor's last.
**DashboardJobs** is the job manager: a KVM is reserved from the start to the
second section of the lock at the end of the thread. **LaunchAgents** is the
installation agent by agent, from whatever was there before.

**ScheduleRuns** is the work of a command or a job: which profiles, in rounds,
profile by profile, with the record between rounds and the wait before a retry,
after which a scheduled run reads the clock again. A run that reconciles only what
is due reads the clock a second time, with the record, in a step of its own
(`FilterDue`): a boundary may pass between the two readings and before the first
session of the round. **FleetControl** lets launchd, terminals and the dashboard start them,
the dashboard cancel them, the system kill them and the clock move.

Left out: the streaks of failures and their notification, the probe of
reachability, the prompt for a one-time code, the event stream, the run log and
the jobs kept for display. Installations run as dashboard jobs, which reserve their
agents, and from a terminal, which reserves nothing.

## 3. Runs

| run | instance | question |
|---|---|---|
| `state_store` | 2 sessions, 2 pids, 2 times, 6 revisions | Can any sequence of calls, by callers that offer anything, reopen a session or move its evidence, and is the file a meeting's lifecycle? |
| `recorder_commands` | 1 session, 2 callers, 3 commands, 1 death | Does a live recorder keep its session, and does what the state says stay on disk, whoever interleaves or dies? |
| `recorder_succession` | 2 sessions, 1 caller, 3 commands, 1 death | Can the recorder of an earlier meeting record or take the next? |
| `recorder_liveness` | 1 session, 1 caller, 3 commands, 1 death, 1 heartbeat, 1 probe | Do stops, audio and finished stages survive crashes and retries, does a recorder that was asked to stop stop, and does every command return? |
| `stale_recovery` | 1 session, 2 callers, 2 commands | Violation, see section 6. |
| `audio_capture` | 3 parts and 2 reconnects (5 part numbers) | With a failure or a stop at any await: is all audio kept, returned in order and honestly reported, does nothing outlive the capture, and does it end when told? |
| `agent_session` | 2 screens, 2 HID actions, 3 steps, repeat limit 2, other limits 1 | All modes: is everything that ran authorised, judged and reported, and is nothing unverified tried again at once? |
| `agent_limits` | 1 screen, 1 HID action, 4 steps, repeat limit 2 | Can waits, dropped plans and recoveries stretch the repeat limit or keep a session going? |
| `hid_transport` | actions of 1 or 3 requests, 3 actions, 1 retry | Through loss, delay and expiry: is anything applied twice, or reported better than it went? |
| `workstation` | 2 workflows of any kind, 3 inputs, 1 surprise (a pop-up, a late toggle or a kill), 3 hours of which 1 is visible and the first is free, scrolls of up to 2 hours, 2 scroll rounds | Is there one driver, is every report true, and does no session do harm? |
| `agenda_gap` | 1 workflow, 2 of 3 hours visible | Violation, see section 6. |
| `fleet` | 2 profiles (1 of the environment, 1 managed) on one host, 2 processes, 2 editors, 1 agent, 1 retry | Do the record, the reports, the retries, the reservations and the secrets stay consistent? |

Bounds. `MaxRevision` ends the writes of `state_store` at six, enough to take one
session from reservation to its end and reserve the next; in the recorder
runs it is 40, which no behaviour reaches, because commands, heartbeats and
deaths bound the writes. `Attempts` is 2 where the code has 8: one conflict
retried and one that exhausts the loop are the two cases there are. `StorageFails` is
on in `recorder_commands` and `recorder_succession` and off in `recorder_liveness`,
where the recovery that it fails would only take one excuse of `AudioIsNotFailed`;
its theorem has both. One session
with three commands has a start, a stop and their rival or a retry. `recorder_liveness`
has one command at a time, because two at once meet the race of section 6, which
breaks `AudioIsNotFailed` and `ProvenanceHolds`; their theorems exclude that
race only, and any number of commands besides. The agent's
three or four steps hold an action, its recovery and a repeat; a repeat limit of two,
of the one to three that the settings allow, lets something unverified be proposed
again at all. Three HID actions
let a late request of the first be overtaken by a whole later action, and shapes
1 and 3 are a key press and a double click. Two workflows are the holder of the
lease and its rival; three inputs open the menu, use the toggle and press once too
often. A day of three hours in a view of one, with the first hour free, begins with
an empty read, has to be scrolled twice, and a scroll of two hours jumps over one:
the rounds end on an empty stretch, on the limit, on a failure and at the end of the
day. One surprise at a time is a dialog, a lock, a popup, a late toggle or a kill;
`ReportIsTrue` and `QuietMeansQuiet` need one to be put to the test, and the theorems
have any number. In the fleet a budget
decides what goes together: two commands and a failure, or a command, an edit
and a failure, or three edits and a failure; the clock is read on a Monday at
17:30 and at 20:30, before the boundary and past the grace after it, and
`ScheduleIsItsBoundaries` looks at every half hour of the week from each on. Retries
are one where the command line has two. Two rotations and two reconnects let a
session rotate after a reconnection.
Sessions, callers, screens, HID actions, workflows, processes and editors are
interchangeable and declared symmetric in runs without liveness.

Deadlock is off everywhere, since the bounds stop the models and a session or a
capture really ends; that nothing waits for ever is what the liveness properties
say.

Fairness. A recorder and a command are processes that the operating system runs
(WF on each one's steps). A command's deadline passes however often the wait polls, and a
poll disables it for a moment, so deadlines have SF. A status probe closes its
descriptor (WF). Nothing is assumed of locks, commands, deaths or of the
callbacks of the capture. Of the capture: every wait for an answer has a
timeout, the promotion's thread and the media recorder return, and the loop runs
the tasks that can run (WF on each); no frame, rotation, failure or stop need
come. Of an agent session only that its process runs on and its prompts are
answered (WF on `Run`); its clock, exceptions and interrupts are not needed. Of
the HID client only that its thread runs and each wait has a timeout (WF on
`Client`); PiKVM may never answer.

## 4. Proofs

TLAPS proves these for every value of the constants that the named assumptions
allow; TLC evaluates the assumptions and checks the properties first.
`OwnerOnlyWhileCapturing`, `OwnershipIsExclusive`, the inductive invariants below
and the type invariants other than `StoreTypeOK` are proved but in no run: the
runs check what follows from them.

| family | properties of runs that are theorems | assumption beyond the constants' |
|---|---|---|
| state file | `StoreTypeOK`, `TerminalIsFinal`, `EvidenceIsImmutable`, `ImplementsLifecycle` | |
| recorder | `RecorderIsOwner`, `StopIsSticky`, `ArtifactsMatchState` | |
| | `AudioIsNotFailed`, `ProvenanceHolds` | two attempts at least (the code makes 8); no command processes a session while another recovers it |
| capture | `HeardAudioIsKept`, `ReturnedIsEverythingHeard`, `OutcomeIsHonest`, `QuietAfterwards`, `ImplementsMeetingAudio` | |
| agent session | `ImplementsLoop`, `RepeatsAreBounded`, `RunsAreAuthorised`, `HistoryTellsWhatWasSent`, `DeliberateEndsAreJudged`, `UnverifiedNotRepeatedBlindly` | |
| transport | `ImplementsDelivery` | |
| workflows | `LeaseIsKept`, `ReportIsTrue`, `QuietMeansQuiet`, `DayIsComplete`, `SessionsDoNoHarm` | |
| fleet | `KeysFollowThreads`, `SecretsFollowProfiles`, `ReconciledIsApplied`, `SucceededIsApplied`, `RetriesLeaveSuccessesAlone`, `ScheduleIsItsBoundaries` | |

**MeetingStateStoreProofs** (any sets of sessions, processes and times, any
number of revisions). The inductive invariant is
`StoreTypeOK /\ OwnerOnlyWhileCapturing`. The second part is a safety property of
its own, and the refinement rests on it: the mapping reads the abstract holder
from the record, so a record outside capture must not name one. Every operation is first shown to
write a record that `ValidUpdate` accepts; ownership, finality, evidence and the
refinement of `MeetingLifecycle` follow from that and the transition table.
`StoreAssumption` says that the sentinels differ from values and records.

**MeetingRecorderProofs** (any sessions, callers, commands, deaths and retries).
Three kinds of process share one file, two locks per session and the artifacts, so
the argument is rely-guarantee. `WorkerInv` and `CallerInv` say what a process
may count on at each of its places: what it holds, what the record says while it
does, what its copy of the record still tells. `StateInv` ties the record to the
artifacts, `Untouched` says that a session not yet reserved has nothing on disk,
`OneCreator` that one start at most is creating a session. `Guarantee(a)` is what a
step of process `a` leaves to all others: locks it does not hold, records it does
not own, stops, starts and artifacts that are there. Each step is shown to
keep its own process's invariant and to give the guarantee, and the guarantee to
keep everybody else's, which makes the proof a sum over the places instead of a
product. A death or a probe is one more step. With it `RecorderImplementsStore` is
short: each step writes as an operation of `MeetingStateStore` does, and
`ImplementsLifecycle`, `EvidenceIsImmutable` and `TerminalIsFinal` carry over from
the file to the composed recorder.

`AudioIsKept` and `ProvenanceIsKept` are about more than one process's part: they
say what a process may give up, or make something from, while others are between
their own steps. Their invariant is `SparingInv`, on top of the first:

* a worker has no audio before its setup and takes an end that loses the session
  only without a checkpoint (`BeginsWithoutAudio`, `LosesNothing`). It gets to the
  last resort, `toplevel`, with audio only if its update as interrupted is refused
  for good. That update `Outlasts` the others: while the worker holds the lock they
  write at most one stop request, so one more attempt is enough and eight are
  plenty. With a single attempt TLC refutes it, hence `Attempts > 1`
  (`meeting/worker.py:51`, `meeting/service.py:835`);
* a recovery writes over what it read (`IsAsRead`: the same start, and the same
  phase or another one of the capture), so the manifest it writes names the
  recorded start and its update is accepted, again with a stop request to outlast
  (`RecoversWhatItRead`, `RecoveryFits`); it fails a session only without audio or
  because the disk failed it (`FailsWithoutAudio`);
* an abandon without the lock, of a session that has no directory, is of a revision
  without audio (`AbandonsNoAudio`);
* a command processes only what has left capture, makes artifacts only once the
  state says so, and from the manifest on disk, which nothing rewrites after
  that (`PastCapture`, `PastWaiting`, `KeepsManifest`, `RecoversUnprocessed`,
  `UnprocessedFirst`).

All of it is kept by the steps of any other process but one: a command in
`_process` may take a session out of the phases that a recovery has read, or have
fingerprinted the manifest that it rewrites, because they hold different locks. This
is the race of `stale_recovery`, and `RecoversApart`, the hypothesis `[]RecoversApart`
of the two theorems, is its absence: a command between reading a dead capture under
the lock and updating its state (`Recovering`) and another in the stages of `_process`
(`Processing`) are not about the same session. Commands that do not overlap satisfy
it, and so do overlapping ones that start, stop, wait, abandon, die or process. The
theorems then hold with any number of commands, deaths and retries.

**AudioCaptureProofs** (any number of parts and reconnects). `HeardAudioIsKept`
is not inductive: a promotion renames over whatever has its number, and a closed
part without audio is unlinked. The invariant adds who may touch the open part
(`LockInv`, `StopInv`, `SinkInv`: whoever is inside the lock holds it, a recorder
that is being stopped rotates and announces no more), that no two parts with
audio have the same number (`NumberInv`), that the open part has its file and a
part in promotion has audio (`FileInv`), and what a session that never had audio
can have ended with (`OutcomeInv`). The same invariant gives `QuietAfterwards`
and `OutcomeIsHonest`. For `ReturnedIsEverythingHeard` a second invariant, `LInv`,
keeps a ledger: the parts recorded are the finished ones in order, and every
other part with audio waits, open or in promotion, or its session has an error that
makes the capture raise. The same order is what `MeetingAudio` asks of each
step.

**AgentControllerProofs** (any screens, actions and limits). The refinement of
`ActVerifyLoop` needs `LastIsProposal` (from the decision to the end of the
execution the last step is the proposal, has not run and has no verdict),
`Judged` (a step that ran and has no verdict is the last one, and the run is on
its way to verify it) and `RoomForStep` (a step is only added below the limit, so
that `reached` has at most `MaxSteps` members). `RepeatsBounded` adds
`CheckedForRepeats`: a step past the refusals was counted against the limit
together with all like it. The argument needs cardinalities of sets of indices,
from the library's finite-set theorems. `SInv` adds when a decision is made
(`AuthorisedInTime`: a step past the policy was allowed or is waiting for the
user, and is approved before it goes on) and that only what ran is judged
(`OnlyRunsAreJudged`); what ran, what is told and what is judged follow. `Remembered` says
that a judged step that was not confirmed is the action the session still refuses, or
that another one has been judged since; `UnverifiedNotRepeatedBlindly` follows for
every repeat limit and on every screen.

**HidTransportProofs** (any shapes, retries and number of actions). The
invariant ties the request the client waits for to the wire and to what was
applied: `WireOK` (a request on the wire is not applied yet, all before it in its
action are, and its action is in progress or was uncertain), `HidCallOK` (the
call's earlier requests are applied, this one is not unless the answer is one
that follows an application), `AppliedOK` and `QuietOK`. From it each step is a
step of `HidDelivery` or a stutter.

**WorkstationProofs** (any number of workflows, inputs, rounds and surprises, any
slow controls, a day, a view and scrolls of any length). `LeaseInv` says that the
holder's depth in the lock is the `Level` of its place: one for the workflow, one
more in a session. So whoever is past the wait for the lease is alone, and a step is
one of three: the workflow's own (`Advances`), another workflow's, which the lease
keeps off the desktop (`Apart`), or the desktop's (`Surroundings`), which may change
the availability by a late click. What a workflow noted of the screen is kept by
them. `AvailabilityInv`: the first observation survives the sessions (`shown` is
`FirstObserved`, the code's way to keep it), the tracker's last view is the frame's,
and it is still so unless a click was to react late (`Still`); the planner is not
trusted anywhere. `TriageInv`: an uncovered read that shows nothing found nothing
above the fold. `DayInv` follows the scrolled day: what is merged reaches down from
the first hour to the bottom of the last read (`Read`, `DownTo`), be the stretches
on the way empty or not, as long as nothing was covered and no scroll left a gap.
`SessionsDoNoHarm` rests on `EnginesAreCautious`: what each policy allows, for all
risks a planner may declare and all labels and screens, has none of the named
effects on the screen it was asked about. It is about that screen: with one that has
changed since, no engine could promise anything (section 6).

**DashboardJobsProofs** and **FleetControlProofs** (any number of jobs and keys,
any fleet, agents, editors and retries). `KeysFollowThreads` with the types and
with `VacantHoldsNothing`, that a process without a job holds no key, is inductive
for the job manager; `FleetImplementsJobs` shows that every step of the fleet is a
step of the manager or leaves it alone, which needs that a job's keys are KVMs, and
so that profile edits keep the file within the KVMs (`FilesOK`). `FleetInv`
adds what a run in its rounds is (`RunsInv`: its results are of its targets), whose
session was last on a KVM (`HandsInv`: a live command's, and Slack shows what it
reports to have applied), what the record of a KVM that nobody works on
tells (`RecordInv`), and what a job that succeeded has behind it (`OutcomeInv`).
`ProfilesInv` is the one for the secrets while edits do not overlap.
The schedule is arithmetic on a reading of the clock: the previous and the coming
boundary are given in closed form, the three searches are shown to find them, and
`ScheduleIsItsBoundaries` follows at whatever moments the clock is read
(`ClockInv`). `RetriesLeaveSuccessesAlone` is part of `Sound`: what a round still has to
do and what it has won for the wanted state are disjoint, through the retry pool, the
second look at the record and a boundary in the wait, which empties the latter.

Assumptions of the fleet: `NamesAssumption` and `RunsAssumption` (sentinels are no
names), `MomentsAssumption` (the clock is read at numbered moments of which there is
a last one) and `ModesAssumption` (commands and jobs start runs that exist).

Only model-checked:

* Liveness and everything about ENABLED, which the prover does not do:
  `CallsReturn`, `CommandsReturn`, `EndsWhenTold`, `SessionEnds` and
  `StopEndsRecording`.

## 5. Hazards and properties

PROJECT.json lists the hazards at their lines with the properties that would
catch them. Each property of a passing run has a mutant: a slip in the code's
definition that makes TLC refute it under the run's own configuration.

## 6. Where the code does otherwise

* `stale_recovery` (code bug). A recovery reads INTERRUPTED under the capture
  lock; another stop takes the processing lock and moves on to TRANSCRIBING; the
  recovery's update is refused, and its handler then fails the session
  (`meeting/service.py` around 482 and 569), although the comment at 78-79 says
  that must never happen. The same recovery may rewrite the manifest that the
  other stop has fingerprinted, so that later stops refuse the transcript
  (`meeting/service.py:554`) instead of resuming as `src/README.md:559-561` says.
  `AudioIsKept` and `ProvenanceIsKept` (section 4) show that it is the only way two
  commands can break these two properties.
* `agenda_gap` (code bug). The reads of a scrolled day are merged, but whether one
  was covered is taken from the last read only (`agenda/operator.py:262`): a
  covered first read and a clear last one give a day with a meeting missing that
  is reported as neither clipped nor covered, against `src/README.md:504-508`. In the
  same way an empty day passes as free (`agenda/operator.py:236-239`), and a scroll of
  more than a screenful, which `agent/models.py:174` allows and nothing compares with
  the read before (`agenda/operator.py:205-226`), leaves a gap that no flag tells:
  `DayIsComplete` excepts both.

Noticed while modelling, and not a run:

* With a repeat limit above one, which the settings allow (`agent/config.py:105-106`),
  an action that was not verified can be sent again on the same screen after another
  action was verified, which `src/docs/DECISIONS.md:114-115` and `src/README.md:332`
  exclude. What holds for every limit is the weaker `UnverifiedNotRepeatedBlindly`.
* An availability read whose planner presses the toggle, which the policy lets it do
  (`slack/policy.py:171-178`), has changed the state and reports `changed` as false,
  which is hard-coded for a read (`slack/agent_operator.py:177-178`). So does a failed
  read-back whose click came late (`slack/agent_operator.py:315-321`).
  `ReportIsTrue` therefore speaks of what a success that wanted a state says.
* A session that sees a part of Slack behind another application may click a direct
  message there and mark it read: only labels with a `#` are refused by name
  (`slack/triage_policy.py:56-64`).
* With a search field in sight, Enter is allowed (`agent/policy.py:273-300`) and
  activates whatever Tab has moved the focus to, Join included. The promises about calls
  and channels in `SessionsDoNoHarm` are of clicks.
* The Escape that closes the profile menu asks no policy and looks at nothing
  (`slack/agent_operator.py:95-105`), and answers a dialog that came up, which
  `agent/policy.py:211-220` denies to any session.
* A dialog or menu that comes up between the guard's screenshot and the input, or is too
  small for its threshold, gets the input (`agent/controller.py:638-659`).
* An action reported as failed may have been sent in part: its session expired
  between two requests and the login that followed was rejected
  (`agent/executor.py:162`).
* A verified availability is recorded with the time of the write
  (`schedule/state.py:128`), not of the verification, so a batch that ends after a
  boundary counts as verified after it; `ReconciledIsApplied` therefore speaks of
  the profiles whose last session is the one the record is of.
* `schedule/launchd.py:164-166` speaks of what launchd already has "byte-for-byte",
  but the code compares the file: after a failure between file and launchd the agent
  is taken as up to date and never repaired (`UpToDate`). An install from a terminal
  reserves nothing (`schedule/cli.py:111-132`), so an overlapping uninstall can undo it
  before it reports success. No property is stated of the installation.
* What an overtaken write, a direct `availability set` or a failed later run leaves
  wrong in the record stays wrong until the next boundary; `ReconciledIsApplied` is of
  the profiles where none came after.
* Two edits of the profile file at once lose one of them, such as a disable
  (`pikvm/profiles.py:184`); `SecretsFollowProfiles` speaks of edits that do not
  overlap.
* The result of a cancelled job speaks of the retry wait also when it was cancelled
  elsewhere (`dashboard/operations.py:472-483`).
* Audio capture: (a) a first frame that arrives as the wait for it times out is
  recorded and handed over while the capture reports that audio is unavailable
  (`meeting/capture.py:844` lacks the check of line 841): the session ends
  `audio_unavailable` with its audio on disk, and `stop` refuses to process it
  (`meeting/service.py:295-298`). `NoAudio` has this end, and `AudioIsNotFailed` is
  named for what it leaves: such a session is lost without being called failed; (b) a
  rotation that could not open its next segment and is cancelled by a stop while the
  part before is promoted loses its error, and the recording counts as complete; (c)
  with the first frame and a failure in one turn of the loop `on_ready` is never
  called; (d) a source that ends just after a stop marks the recording interrupted;
  (e) a stop during the connection is noticed only after its timeouts; (f) a failed
  connection hides a failure of the local signalling, which is then retried.

## 7. Not modelled

* Wording, formats, permissions, logging, token counts and clocks' values. Times
  are told apart where something compares them.
* A moment between the second reading of the clock and the reading of the record: they
  are one step, `FilterDue`.
* Image comparison, coordinates, how a label is matched by a policy: data.
* Providers of transcripts and intelligence, the vision model and the planner:
  each is an outcome in the module that calls it.
* Reuse of a pid or a session ID, and a file system that loses a rename.
* `reset_corrupt_state` in the composed recorder (it is `SetAsideCorrupt` of the
  store) and damage to artifacts.
* The components marked not modelled in PROJECT.json, each with its reason.

## 8. What is left

1. A capture below the worker in one composition, in which the first frame during the
   timeout (section 6), which `NoAudio` allows at any time, comes from the capture.
2. Two operator sessions of the fleet step by step on one KVM, instead of one
   workflow as one step.
