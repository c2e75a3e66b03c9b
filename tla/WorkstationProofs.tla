--------------------------- MODULE WorkstationProofs ---------------------------
(***************************************************************************)
(* Theorems about Workstation for any number of workflows on one KVM: the  *)
(* lease is never given back between the phases of a workflow, what the    *)
(* workflows report is what the desktop shows, and no session does harm.   *)
(***************************************************************************)
EXTENDS Workstation, TLAPS

Labels == {"idle", "acquire", "main", "session", "planned", "decide", "seen", "merged",
           "close", "report"}

Fields == {"kind", "pc", "desired", "goal", "acted", "last", "stop", "stage", "first", "final",
           "menuSeen", "frame", "earliest", "read", "merged", "earlier", "result",
           "sent", "shown", "sure", "covered", "at", "gap"}

\* What a workflow knows before its first session.
Fresh(f) ==
    /\ f.stage = 0 /\ f.first = "none" /\ f.earliest = "none" /\ f.shown = "none"
    /\ f.merged = {} /\ ~f.covered /\ ~f.gap

Desks == [app : Apps, over : Covers, menu : BOOLEAN, avail : Availabilities,
          unread : SUBSET {"dm", "channel", "below"}, day : Days, top : 1..(Slots - View + 1)]

\* Every workflow keeps its record; it is a new one until its first session, and of no
\* kind until it has the lease.
FlowTypes ==
    /\ DOMAIN flow = Flows /\ flow = [w \in Flows |-> flow[w]]
    /\ \A w \in Flows :
          /\ DOMAIN flow[w] = Fields
          /\ flow[w].kind \in Kinds \cup {"none"} /\ flow[w].pc \in Labels
          /\ flow[w].desired \in Availabilities \cup {"none"}
          /\ flow[w].stage \in Nat /\ flow[w].at \in Nat
          /\ flow[w].pc \in {"idle", "acquire", "main"} => Fresh(flow[w])
          /\ flow[w].pc = "planned" => flow[w].frame \in Desks
          /\ flow[w].kind = "none" <=> flow[w].pc \in {"idle", "acquire"}

\* How often a workflow has entered its lock: once for itself, once more for a session.
Level(pc) == IF pc \in {"idle", "acquire"} THEN 0
             ELSE IF pc \in {"session", "planned"} THEN 2 ELSE 1

LeaseInv ==
    /\ depth \in [Flows -> Nat]
    /\ \A w \in Flows : depth[w] = Level(flow[w].pc) /\ (lease = w <=> depth[w] > 0)

TInv ==
    FlowTypes /\ desk \in Desks /\ late \in Slow \cup {"none"} /\ inputs \in Nat /\ LeaseInv

\* What was observed last is so, unless a click was to react late.
Still(w, observed) == flow[w].sure => late = "none" /\ observed = desk.avail

\* A success tells the wanted state, and whether it is the one Slack showed first.
Told(w) ==
    LET f == flow[w]
        result == f.result IN
    /\ f.desired \in {"none", result.observed}
    /\ Still(w, result.observed)
    /\ f.desired # "none" => result.changed = (IF f.shown = result.observed THEN "no" ELSE "yes")

\* The first observation survives the sessions, the frame's evidence is the tracker's
\* last, and a completed session saw the toggle that proves its goal.
AvailabilityInv(w) ==
    LET f == flow[w] IN
    f.kind = "availability" =>
        /\ f.pc \in {"session", "planned", "decide"} =>
              /\ f.shown = FirstObserved(w)
              /\ f.goal \in {"read", Goal(w)} /\ (f.stage # 3 => f.goal = Goal(w))
        /\ f.pc = "planned" =>
              LET seen == Evidence(f.frame) IN
              /\ seen \in Availabilities \cup {"none"}
              /\ seen # "none" => seen = f.final /\ f.shown # "none" /\ Still(w, seen)
        /\ f.pc = "decide" /\ f.stop = "completed" =>
              /\ f.final \in Availabilities /\ f.goal \in {"read", f.final}
              /\ f.shown # "none" /\ Still(w, f.final)
        /\ f.pc \in {"close", "report"} /\ f.result.success => Told(w)

\* Nothing unread but below the fold, and there only if that is said.
Quiet(flagged) == desk.unread \subseteq {"below"} /\ (flagged \/ desk.unread = {})

\* A read that saw nothing of an uncovered sidebar found nothing unread there.
TriageInv(w) ==
    LET f == flow[w] IN
    f.kind = "triage" =>
        /\ f.pc \in {"session", "planned", "decide"} /\ f.stage = 2 => f.read.obstructed
        /\ f.pc = "seen" /\ ~f.read.obstructed /\ f.read.items = {} => Quiet(f.read.later)
        /\ f.pc = "report" /\ f.result.success /\ f.result.items = {} => Quiet(f.result.flagged)

\* The day down to the bottom of a screen whose first hour is t.
DownTo(t) == desk.day \cap (1 .. t + View - 1)

\* These items are the day as far down as the last read went, if it began at its top.
Read(w, items, earlier) ==
    /\ items \subseteq desk.day
    /\ ~earlier => DownTo(flow[w].at) \subseteq items
    /\ ~flow[w].read.obstructed
    /\ flow[w].read.later = (flow[w].at + View <= Slots)

\* As long as nothing was covered or jumped over, what was merged is the whole day down
\* to the bottom of the last read.
DayInv(w) ==
    LET f == flow[w] IN
    f.kind = "agenda" /\ ~f.covered /\ ~f.gap =>
        /\ f.pc \in {"session", "planned", "decide", "seen", "merged"} =>
              f.stage # 0 /\ f.stage # 2 /\ (f.stage = 1 => f.merged = {} /\ f.pc # "merged")
        /\ f.pc = "seen" => Read(w, Merged(w), EarlierTruncated(w))
        /\ f.pc \in {"session", "planned", "decide", "merged"} /\ f.stage > 2 =>
              Read(w, f.merged, f.earlier) /\ f.read.items \subseteq f.merged
        /\ f.pc = "report" /\ f.result.success /\ ~f.result.flagged => f.result.items = desk.day

WorkInv(w) == AvailabilityInv(w) /\ TriageInv(w) /\ DayInv(w)

\* The inductive invariant: the records and the lease are in order, and what each
\* workflow has noted so far is so.
IInv == TInv /\ \A w \in Flows : WorkInv(w)

-----------------------------------------------------------------------------
\* What a step does to the records and the lease.

LEMMA FieldsAre == DOMAIN Idle = Fields
  BY DEF Fields, Idle

\* Only one record changes.
Touches(w) ==
    /\ DOMAIN flow' = Flows /\ flow' = [v \in Flows |-> flow'[v]]
    /\ DOMAIN flow'[w] = Fields
    /\ \A v \in Flows \ {w} : flow'[v] = flow[v]

LEMMA GotoGoes ==
    ASSUME FlowTypes, NEW w \in Flows, NEW changes, Goto(w, changes)
    PROVE  /\ Touches(w)
           /\ \A f \in Fields :
                flow'[w][f] = IF f \in DOMAIN changes THEN changes[f] ELSE flow[w][f]
  BY DEF FlowTypes, Goto, Over, Touches

\* A step of one workflow: the others' records stay, its own keeps its types.
StepOf(w) == FlowTypes' /\ \A v \in Flows \ {w} : flow'[v] = flow[v]

\* A workflow's level of its lock follows its place.
Deeper(w) == Enter(w) /\ Level(flow'[w].pc) = Level(flow[w].pc) + 1
Higher(w) == Exit(w) /\ Level(flow'[w].pc) = Level(flow[w].pc) - 1
Stays(w) == UNCHANGED lockVars /\ Level(flow'[w].pc) = Level(flow[w].pc)
Drops(w) == Drop(w) /\ Level(flow'[w].pc) = 0

LEMMA LevelsKeepLease ==
    ASSUME TInv, NEW w \in Flows, StepOf(w),
           Deeper(w) \/ Higher(w) \/ Stays(w) \/ Drops(w)
    PROVE  LeaseInv'
  <1>1. \A v \in Flows : Level(flow'[v].pc) \in {0, 1, 2} /\ Level(flow[v].pc) \in {0, 1, 2}
    BY DEF Level
  <1>2. depth \in [Flows -> Nat] /\ depth[w] = Level(flow[w].pc) /\ (lease = w <=> depth[w] > 0)
    BY DEF TInv, LeaseInv
  <1>3. /\ depth' \in [Flows -> Nat]
        /\ depth'[w] = Level(flow'[w].pc) /\ \A v \in Flows \ {w} : depth'[v] = depth[v]
    <2>1. CASE Deeper(w)
      BY <2>1, <1>1, <1>2 DEF Deeper, Enter
    <2>2. CASE Higher(w)
      BY <2>2, <1>1, <1>2 DEF Higher, Exit, Held
    <2>3. CASE Stays(w)
      BY <2>3, <1>1, <1>2 DEF Stays, lockVars
    <2>4. CASE Drops(w)
      BY <2>4, <1>1, <1>2 DEF Drops, Drop
    <2> QED
      BY <2>1, <2>2, <2>3, <2>4
  <1>4. \A v \in Flows : lease' = v <=> depth'[v] > 0
    <2>1. CASE Deeper(w)
      BY <2>1, <1>2, <1>3, LockAssumption DEF Deeper, Enter, Held, TInv, LeaseInv
    <2>2. CASE Higher(w)
      BY <2>2, <1>2, <1>3, LockAssumption DEF Higher, Exit, Held, TInv, LeaseInv
    <2>3. CASE Stays(w)
      BY <2>3 DEF Stays, lockVars, TInv, LeaseInv
    <2>4. CASE Drops(w)
      BY <2>4, <1>2, <1>3, LockAssumption DEF Drops, Drop, TInv, LeaseInv
    <2> QED
      BY <2>1, <2>2, <2>3, <2>4
  <1>5. \A v \in Flows : depth'[v] = Level(flow'[v].pc)
    BY <1>3 DEF TInv, LeaseInv, StepOf
  <1> QED
    BY <1>3, <1>4, <1>5 DEF LeaseInv

LEMMA TypesKept ==
    ASSUME FlowTypes, NEW w \in Flows, Touches(w),
           flow'[w].kind \in Kinds, flow'[w].pc \in Labels \ {"idle", "acquire", "main"},
           flow'[w].desired \in Availabilities \cup {"none"},
           flow'[w].stage \in Nat, flow'[w].at \in Nat,
           flow'[w].pc = "planned" => flow'[w].frame \in Desks
    PROVE  StepOf(w)
  BY DEF StepOf, FlowTypes, Touches, Kinds

Kept(w, S) == \A f \in S : flow'[w][f] = flow[w][f]

\* A workflow that waits for the lease has nothing to lose.
LEMMA StartSteps ==
    ASSUME FlowTypes, NEW w \in Flows, Start(w)
    PROVE  /\ StepOf(w) /\ Stays(w) /\ UNCHANGED <<desk, late>>
           /\ flow'[w].kind = "none"
  <1>1. /\ Touches(w) /\ flow[w].pc = "idle" /\ flow'[w].pc = "acquire"
        /\ Kept(w, Fields \ {"pc"}) /\ UNCHANGED lockVars /\ UNCHANGED <<desk, late>>
    BY GotoGoes DEF Start, Fields, deskVars, Kept
  <1>2. /\ flow'[w].kind = "none" /\ flow'[w].desired = flow[w].desired
        /\ flow'[w].stage \in Nat /\ flow'[w].at \in Nat /\ Fresh(flow'[w])
    BY <1>1 DEF Kept, Fields, FlowTypes, Fresh
  <1>3. StepOf(w)
    BY <1>1, <1>2 DEF StepOf, Touches, FlowTypes, Labels
  <1> QED
    BY <1>1, <1>2, <1>3 DEF Stays, Level

LEMMA AcquireSteps ==
    ASSUME FlowTypes, NEW w \in Flows, Acquire(w)
    PROVE  /\ StepOf(w) /\ Deeper(w) /\ UNCHANGED <<desk, late>>
           /\ flow'[w].pc = "main"
  <1>1. PICK kind \in Kinds, desired \in Availabilities \cup {"none"} :
             Goto(w, [kind |-> kind, desired |-> desired, pc |-> "main"])
    BY DEF Acquire
  <1>2. /\ Touches(w) /\ flow[w].pc = "acquire" /\ flow'[w].pc = "main"
        /\ flow'[w].kind = kind /\ flow'[w].desired = desired
        /\ Kept(w, Fields \ {"pc", "kind", "desired"})
        /\ Enter(w) /\ UNCHANGED <<desk, late>>
    BY <1>1, GotoGoes DEF Acquire, Fields, deskVars, Kept
  <1>3. flow'[w].stage \in Nat /\ flow'[w].at \in Nat /\ Fresh(flow'[w])
    BY <1>2 DEF Kept, Fields, FlowTypes, Fresh
  <1>4. StepOf(w)
    BY <1>2, <1>3 DEF StepOf, Touches, FlowTypes, Labels, Kinds
  <1> QED
    BY <1>2, <1>4 DEF Deeper, Level

\* The ends of a workflow: its record is a new one.
LEMMA IdleSteps ==
    ASSUME FlowTypes, NEW w \in Flows, LockBusy(w) \/ Finish(w) \/ Dies(w)
    PROVE  /\ StepOf(w) /\ (Stays(w) \/ Higher(w) \/ Drops(w))
           /\ UNCHANGED <<desk, late>> /\ flow'[w].kind = "none"
  <1>1. Goto(w, Idle) /\ UNCHANGED <<desk, late>>
    BY DEF LockBusy, Finish, Dies, deskVars
  <1>2. Touches(w) /\ \A f \in Fields : flow'[w][f] = Idle[f]
    BY <1>1, GotoGoes, FieldsAre
  <1>3. /\ flow'[w].kind = "none" /\ flow'[w].pc = "idle" /\ flow'[w].desired = "none"
        /\ flow'[w].stage = 0 /\ flow'[w].at = 1 /\ Fresh(flow'[w])
    BY <1>2 DEF Idle, Fields, Fresh
  <1>4. StepOf(w)
    BY <1>2, <1>3 DEF FlowTypes, StepOf, Touches, Labels
  <1>5. Stays(w) \/ Higher(w) \/ Drops(w)
    BY <1>3 DEF LockBusy, GiveUp, Finish, Dies, Stays, Higher, Drops, Level
  <1> QED
    BY <1>1, <1>3, <1>4, <1>5

\* The fields no session of a workflow writes.
Lasting == {"kind", "desired", "earliest", "read", "merged", "earlier", "covered", "at", "gap",
            "result"}

\* A workflow enters a session.
LEMMA RunSteps ==
    ASSUME FlowTypes, NEW w \in Flows, NEW goal, NEW stage \in {1, 2}, Run(w, goal, stage),
           flow[w].kind # "none", Level(flow[w].pc) = 1
    PROVE  /\ StepOf(w) /\ Deeper(w) /\ UNCHANGED <<desk, late>>
           /\ flow'[w].pc = "session" /\ flow'[w].goal = goal /\ flow'[w].stage = stage
           /\ flow'[w].first = "none" /\ Kept(w, Lasting \cup {"shown"})
  <1>1. /\ Touches(w)
        /\ flow'[w].pc = "session" /\ flow'[w].goal = goal /\ flow'[w].stage = stage
        /\ flow'[w].first = "none" /\ Kept(w, Lasting \cup {"shown"})
        /\ Enter(w) /\ UNCHANGED <<desk, late>>
    BY GotoGoes DEF Run, Fields, deskVars, Kept, Lasting
  <1>2. /\ flow'[w].kind \in Kinds /\ flow'[w].desired \in Availabilities \cup {"none"}
        /\ flow'[w].at \in Nat
    BY <1>1 DEF FlowTypes, Kept, Lasting
  <1>3. StepOf(w)
    BY <1>1, <1>2, TypesKept DEF Labels
  <1> QED
    BY <1>1, <1>3 DEF Deeper, Level

\* A session's look: the tracker of the availability workflow takes note.
LEMMA LooksSteps ==
    ASSUME FlowTypes, desk \in Desks, NEW w \in Flows, flow[w].kind # "none", SessionLooks(w)
    PROVE  /\ StepOf(w) /\ Stays(w) /\ UNCHANGED <<desk, late>>
           /\ flow[w].pc \in {"session", "planned"} /\ flow'[w].pc = "planned"
           /\ flow'[w].frame = desk
           /\ Kept(w, Lasting \cup {"goal", "stage", "stop"})
           /\ flow[w].kind = "availability" =>
                 /\ flow'[w].first = (IF flow[w].first = "none" THEN Evidence(desk) ELSE flow[w].first)
                 /\ flow'[w].shown = (IF flow[w].shown = "none" THEN Evidence(desk) ELSE flow[w].shown)
                 /\ Evidence(desk) # "none" => flow'[w].final = Evidence(desk)
                 /\ flow'[w].sure = (late = "none")
  <1> DEFINE changes == [pc |-> "planned", frame |-> desk, sent |-> "none"]
             seen == Tracked(w)
  <1>1. DOMAIN seen \subseteq {"menuSeen", "first", "final", "shown", "sure"}
    BY DEF Tracked
  <1>2. flow' = [flow EXCEPT ![w] = Over(changes, Over(seen, @))]
    BY DEF SessionLooks
  <1> HIDE DEF changes, seen
  <1>3. /\ Touches(w)
        /\ \A f \in Fields :
                flow'[w][f] = IF f \in DOMAIN changes THEN changes[f]
                              ELSE IF f \in DOMAIN seen THEN seen[f] ELSE flow[w][f]
    BY <1>2 DEF FlowTypes, Over, Touches
  <1> USE DEF changes, seen
  <1>4. /\ flow[w].pc \in {"session", "planned"} /\ flow'[w].pc = "planned" /\ flow'[w].frame = desk
        /\ Kept(w, Lasting \cup {"goal", "stage", "stop"})
        /\ UNCHANGED lockVars /\ UNCHANGED <<desk, late>>
    BY <1>1, <1>3 DEF SessionLooks, Fields, Kept, Lasting, deskVars
  <1>5. ASSUME flow[w].kind = "availability"
        PROVE  /\ flow'[w].first = Tracked(w).first /\ flow'[w].shown = Tracked(w).shown
               /\ flow'[w].final = Tracked(w).final /\ flow'[w].sure = Tracked(w).sure
    BY <1>3, <1>5 DEF Tracked, Fields
  <1>6. StepOf(w)
    <2>1. /\ flow'[w].kind \in Kinds /\ flow'[w].desired \in Availabilities \cup {"none"}
          /\ flow'[w].at \in Nat /\ flow'[w].stage \in Nat
      BY <1>4 DEF FlowTypes, Kept, Lasting
    <2> QED
      BY <1>3, <1>4, <2>1, TypesKept DEF Labels
  <1> QED
    BY <1>4, <1>5, <1>6 DEF Stays, Level, Tracked

\* An input sent, or a plan dropped: the record notes little of it.
Sending(w) ==
    \E a \in Proposals(w) : Send(a, flow[w].frame # desk) /\ flow'[w].sent = a.type

LEMMA ActsSteps ==
    ASSUME FlowTypes, NEW w \in Flows, flow[w].kind # "none", SessionActs(w) \/ SessionDrops(w)
    PROVE  /\ StepOf(w) /\ Stays(w)
           /\ flow[w].pc = "planned" /\ flow'[w].pc = "session"
           /\ Kept(w, Lasting \cup {"goal", "stage", "stop", "first", "final", "shown"})
           /\ UNCHANGED <<desk, late, inputs>> \/ Sending(w)
  <1> DEFINE Result == /\ Touches(w) /\ flow'[w].pc = "session"
                       /\ Kept(w, Lasting \cup {"goal", "stage", "stop", "first", "final", "shown"})
                       /\ flow[w].pc = "planned" /\ UNCHANGED lockVars
                       /\ UNCHANGED <<desk, late, inputs>> \/ Sending(w)
  <1>1. ASSUME SessionActs(w) PROVE Result
    <2>1. PICK a \in Proposals(w) :
               /\ Send(a, flow[w].frame # desk)
               /\ Goto(w, [pc |-> "session", frame |-> NoFrame, acted |-> TRUE,
                           last |-> Kind(w, a), sent |-> a.type])
      BY <1>1 DEF SessionActs
    <2> DEFINE c == [pc |-> "session", frame |-> NoFrame, acted |-> TRUE,
                     last |-> Kind(w, a), sent |-> a.type]
    <2>2. /\ DOMAIN c = {"pc", "frame", "acted", "last", "sent"} /\ c.pc = "session"
          /\ c.sent = a.type
      OBVIOUS
    <2>3. Goto(w, c)
      BY <2>1
    <2> HIDE DEF c
    <2>4. /\ Touches(w) /\ flow'[w].pc = "session" /\ flow'[w].sent = a.type
          /\ Kept(w, Lasting \cup {"goal", "stage", "stop", "first", "final", "shown"})
      BY <2>2, <2>3, GotoGoes DEF Kept, Lasting, Fields
    <2> QED
      BY <1>1, <2>1, <2>4 DEF SessionActs, Sending
  <1>2. ASSUME SessionDrops(w) PROVE Result
    <2>1. PICK a \in Proposals(w) :
               Goto(w, [pc |-> "session", frame |-> NoFrame,
                        last |-> IF Kind(w, a) = "profile" THEN "other" ELSE Kind(w, a)])
      BY <1>2 DEF SessionDrops
    <2> DEFINE c == [pc |-> "session", frame |-> NoFrame,
                     last |-> IF Kind(w, a) = "profile" THEN "other" ELSE Kind(w, a)]
    <2>2. DOMAIN c = {"pc", "frame", "last"} /\ c.pc = "session"
      OBVIOUS
    <2>3. Goto(w, c)
      BY <2>1
    <2> HIDE DEF c
    <2>4. /\ Touches(w) /\ flow'[w].pc = "session"
          /\ Kept(w, Lasting \cup {"goal", "stage", "stop", "first", "final", "shown"})
      BY <2>2, <2>3, GotoGoes DEF Kept, Lasting, Fields
    <2> QED
      BY <1>2, <2>4 DEF SessionDrops, deskVars
  <1>3. Result
    BY <1>1, <1>2
  <1>4. StepOf(w)
    <2>1. /\ flow'[w].kind \in Kinds /\ flow'[w].desired \in Availabilities \cup {"none"}
          /\ flow'[w].at \in Nat /\ flow'[w].stage \in Nat
      BY <1>3 DEF FlowTypes, Kept, Lasting
    <2> QED
      BY <1>3, <2>1, TypesKept DEF Labels
  <1> QED
    BY <1>3, <1>4 DEF Stays, Level

Stopping(w) ==
    SessionCompletes(w) \/ SessionBlocked(w) \/ SessionStops(w) \/ SessionUnverified(w)
        \/ SessionRaises(w)

\* The end of a session: what was noted stays noted.
LEMMA EndsSteps ==
    ASSUME FlowTypes, NEW w \in Flows, NEW stop, NEW last, Ends(w, stop, last)
    PROVE  /\ Touches(w) /\ flow'[w].pc = "decide" /\ flow'[w].stop = stop
           /\ Kept(w, Lasting \cup {"goal", "stage", "first", "final", "shown", "sure"})
           /\ Exit(w) /\ UNCHANGED <<desk, late>>
  <1> DEFINE c == [pc |-> "decide", stop |-> stop, last |-> last, sent |-> "none",
                   acted |-> FALSE, frame |-> NoFrame]
  <1>1. /\ DOMAIN c = {"pc", "stop", "last", "sent", "acted", "frame"}
        /\ c.pc = "decide" /\ c.stop = stop
    OBVIOUS
  <1>2. Goto(w, c) /\ Exit(w) /\ UNCHANGED <<desk, late>>
    BY DEF Ends, deskVars
  <1> HIDE DEF c
  <1> QED
    BY <1>1, <1>2, GotoGoes DEF Fields, Kept, Lasting

LEMMA StoppingSteps ==
    ASSUME FlowTypes, NEW w \in Flows, flow[w].kind # "none", Stopping(w)
    PROVE  /\ StepOf(w) /\ Higher(w) /\ UNCHANGED <<desk, late>>
           /\ flow[w].pc \in {"session", "planned"} /\ flow'[w].pc = "decide"
           /\ Kept(w, Lasting \cup {"goal", "stage", "first", "final", "shown", "sure"})
           /\ flow'[w].stop = "completed" => flow[w].pc = "planned" /\ Validated(w)
  <1>1. PICK stop : \E last :
             /\ Ends(w, stop, last)
             /\ flow[w].pc \in {"session", "planned"}
             /\ stop = "completed" => flow[w].pc = "planned" /\ Validated(w)
    <2>1. CASE SessionCompletes(w)
      BY <2>1 DEF SessionCompletes
    <2>2. CASE SessionBlocked(w)
      BY <2>2 DEF SessionBlocked
    <2>3. CASE SessionStops(w)
      BY <2>3 DEF SessionStops
    <2>4. CASE SessionUnverified(w)
      BY <2>4 DEF SessionUnverified
    <2>5. CASE SessionRaises(w)
      BY <2>5 DEF SessionRaises
    <2> QED
      BY <2>1, <2>2, <2>3, <2>4, <2>5 DEF Stopping
  <1>2. /\ Touches(w) /\ flow'[w].pc = "decide" /\ flow'[w].stop = stop
        /\ Kept(w, Lasting \cup {"goal", "stage", "first", "final", "shown", "sure"})
        /\ Exit(w) /\ UNCHANGED <<desk, late>>
    BY <1>1, EndsSteps
  <1>3. StepOf(w)
    <2>1. /\ flow'[w].kind \in Kinds /\ flow'[w].desired \in Availabilities \cup {"none"}
          /\ flow'[w].at \in Nat /\ flow'[w].stage \in Nat
      BY <1>2 DEF FlowTypes, Kept, Lasting
    <2> QED
      BY <1>2, <2>1, TypesKept DEF Labels
  <1> QED
    BY <1>1, <1>2, <1>3 DEF Higher, Level

-----------------------------------------------------------------------------
\* What an input, or the desktop itself, does to the desktop.

\* The day stays, and nothing unread is added.
Follows(next) ==
    next \in Desks /\ next.day = desk.day /\ next.unread \subseteq desk.unread

LEMMA FrontDesk ==
    ASSUME desk \in Desks, NEW app \in Apps
    PROVE  Follows(Front(app)) /\ Front(app).avail = desk.avail /\ Front(app).app = app
           /\ Front(app).unread = desk.unread /\ Front(app).over = desk.over
  BY DEF Front, Desks, Follows

LEMMA ClickedDesk ==
    ASSUME desk \in Desks, NEW e \in Elements
    PROVE  LET next == Clicked(e) IN
           /\ Follows(next)
           /\ e # "channel" /\ "channel" \in desk.unread => "channel" \in next.unread
           /\ e # "join" /\ next.app = "call" => desk.app = "call"
           /\ e \notin {"answer", "shutdown"} /\ desk.over = "dialog" => next.over = "dialog"
           /\ e \in Slow => next.unread = desk.unread
  <1> DEFINE next == Clicked(e)
  <1> USE DEF Clicked
  <1>1. CASE e \in {"launcher", "calendar", "join"}
    BY <1>1, FrontDesk DEF Apps
  <1>2. CASE e = "profile"
    BY <1>2 DEF Desks, Follows
  <1>3. CASE e = "toggle"
    <2>1. (CHOOSE a \in Availabilities : a # desk.avail) \in Availabilities
      BY DEF Availabilities
    <2> QED
      BY <1>3, <2>1 DEF Desks, Follows
  <1>4. CASE e \in {"conversation", "channel"}
    <2>1. e \notin Slow
      BY <1>4, DesktopAssumption
    <2> QED
      BY <1>4, <2>1 DEF Opened, Desks, Apps, Follows
  <1>5. CASE e = "event"
    BY <1>5 DEF Covers, Desks, Follows
  <1>6. CASE e \in {"answer", "shutdown"}
    BY <1>6 DEF Answered, Covers, Desks, Follows
  <1>7. CASE e \in {"send", "blur"}
    BY <1>7 DEF Desks, Follows
  <1> QED
    BY <1>1, <1>2, <1>3, <1>4, <1>5, <1>6, <1>7 DEF Elements, Words

LEMMA EscapedDesk ==
    ASSUME desk \in Desks
    PROVE  Follows(Escaped) /\ Escaped.avail = desk.avail /\ Escaped.unread = desk.unread
  BY DEF Escaped, Answered, Desks, Covers, Follows

LEMMA ScrolledDesk ==
    ASSUME desk \in Desks, NEW t \in Reach
    PROVE  Follows(Scrolled(t)) /\ Scrolled(t).over = desk.over /\ Scrolled(t).unread = desk.unread
  BY DEF Scrolled, Desks, Reach, Follows

LEMMA ShownElements ==
    ASSUME NEW s
    PROVE  Shown(s) \subseteq Elements
  BY DEF Shown, Elements, Words

LEMMA EnteredDesk ==
    ASSUME desk \in Desks, NEW next \in Entered
    PROVE  Follows(next)
  <1>1. CASE next = Answered
    BY <1>1 DEF Answered, Desks, Covers, Follows
  <1>2. CASE next = Front("slack")
    BY <1>2, FrontDesk DEF Apps
  <1>3. CASE \E e \in Elements : next = Clicked(e)
    BY <1>3, ClickedDesk
  <1> QED
    BY <1>1, <1>2, <1>3, ShownElements DEF Entered

LEMMA ActionTypes ==
    ASSUME NEW e
    PROVE  /\ Click(e).type = "click" /\ Click(e).on = e
           /\ Key(e).type = "key" /\ Key(e).on = e
           /\ Hotkey(e).type = "hotkey" /\ Text(e).type = "text" /\ Scroll.type = "scroll"
           /\ \A k : Click(e) # Key(k) /\ Click(e) # Hotkey(k) /\ Click(e) # Text(k)
           /\ \A k : Key(e) # Hotkey(k) /\ Key(e) # Text(k) /\ Key(e) # Click(k)
  BY DEF Click, Key, Hotkey, Text, Scroll

\* An action is a click, Escape, Enter, the hotkey that switches, a scroll or of no effect.
LEMMA EffectsAre ==
    ASSUME NEW a \in Actions, NEW changed \in BOOLEAN, NEW next \in Effects(a, changed)
    PROVE  \/ next = desk
           \/ a.type = "click" /\ a.on \in Elements /\ \E e \in Hits(a.on, changed) : next = Clicked(e)
           \/ a = Key("Escape") /\ next = Escaped
           \/ a = Key("Enter") /\ next \in Entered
           \/ a = Hotkey("switch") /\ \E app \in Apps \ {"call"} : next = Front(app)
           \/ a = Scroll /\ \E t \in Reach : next = Scrolled(t)
  <1>1. CASE a \in {Click(e) : e \in Elements}
    BY <1>1, ActionTypes DEF Effects
  <1>2. CASE a \in {Key(k) : k \in Keys}
    BY <1>2, ActionTypes DEF Effects, Key, Hotkey
  <1>3. CASE a = Scroll
    BY <1>3 DEF Effects, Scroll, Key, Hotkey
  <1>4. CASE a \in {Hotkey(k) : k \in Hotkeys}
    BY <1>4 DEF Effects, Key, Hotkey
  <1>5. CASE a \in {Text(p) : p \in Purposes}
    BY <1>5 DEF Effects, Key, Hotkey, Text
  <1> QED
    BY <1>1, <1>2, <1>3, <1>4, <1>5 DEF Actions

LEMMA EffectsOnDesk ==
    ASSUME desk \in Desks, NEW a \in Actions, NEW changed \in BOOLEAN, NEW next \in Effects(a, changed)
    PROVE  Follows(next)
  <1>1. Follows(desk)
    BY DEF Follows
  <1>2. ASSUME a.on \in Elements, NEW e \in Hits(a.on, changed)
        PROVE  Follows(Clicked(e))
    BY <1>2, ShownElements, ClickedDesk DEF Hits
  <1> QED
    BY <1>1, <1>2, EffectsAre, EscapedDesk, EnteredDesk, FrontDesk, ScrolledDesk

LEMMA SentDesk ==
    ASSUME desk \in Desks, NEW a \in Actions, NEW changed \in BOOLEAN, Send(a, changed)
    PROVE  Follows(desk')
  <1>1. Follows(desk)
    BY DEF Follows
  <1> QED
    BY <1>1, EffectsOnDesk DEF Send

\* The desktop itself changes nothing that the workflows note, but for a late reaction.
LEMMA DesktopSteps ==
    ASSUME desk \in Desks, late # "none" => late \in Slow, Desktop
    PROVE  /\ Follows(desk') /\ UNCHANGED inputs
           /\ late = "none" => late' = "none" /\ desk'.avail = desk.avail
  <1>1. CASE React
    <2>1. late \in Slow /\ late \in Elements /\ desk' = Clicked(late)
      BY <1>1, DesktopAssumption DEF React, Elements, Words
    <2> QED
      BY <1>1, <2>1, ClickedDesk DEF React
  <1>2. CASE PopUp
    BY <1>2 DEF PopUp, Desks, Follows, Surprise
  <1>3. CASE Vanish
    BY <1>3 DEF Vanish, Desks, Follows, Covers
  <1> QED
    BY <1>1, <1>2, <1>3 DEF Desktop

-----------------------------------------------------------------------------
\* What the policies forbid, whatever a planner proposes and calls its risk.

\* A safe screen that a session is told of is the scene that is there.
Tells(screen, s) ==
    /\ screen.safe /\ screen.app = s.app
    /\ screen.dialog = (s.over = "dialog") /\ screen.shown = Shown(s)

LEMMA AnalysesTell ==
    ASSUME NEW s, NEW t \in Analyses(s)
    PROVE  /\ t.app = s.app /\ t.shown = Shown(s) /\ t.dialog = (s.over = "dialog")
           /\ [t EXCEPT !.safe = FALSE, !.shown = {}].safe = FALSE
           /\ [t EXCEPT !.safe = TRUE].safe = TRUE
           /\ [t EXCEPT !.safe = TRUE].app = s.app
           /\ [t EXCEPT !.safe = TRUE].shown = Shown(s)
           /\ [t EXCEPT !.safe = TRUE].dialog = (s.over = "dialog")
  BY DEF Analyses

LEMMA ScreensTell ==
    ASSUME NEW p \in Policies, NEW s, NEW screen \in Screens(p, s), screen.safe
    PROVE  Tells(screen, s)
  <1>1. CASE p = "availability"
    <2>1. PICK t \in Analyses(s) : screen \in Confirmed(t, s)
      BY <1>1 DEF Screens
    <2>2. PICK u \in Analyses(s) : screen \in {u, [u EXCEPT !.safe = FALSE, !.shown = {}]}
      BY <2>1 DEF Confirmed
    <2>3. screen = u
      BY <2>2, AnalysesTell
    <2> QED
      BY <2>3, AnalysesTell DEF Tells
  <1>2. CASE p = "triage"
    BY <1>2, AnalysesTell DEF Screens, Tells
  <1>3. CASE p \in {"agenda", "scroll"}
    <2>1. PICK t \in Analyses(s) : screen = AroundDialog(t)
      BY <1>3 DEF Screens
    <2> QED
      BY <2>1, AnalysesTell DEF AroundDialog, Tells
  <1> QED
    BY <1>1, <1>2, <1>3 DEF Policies, Kinds

\* What would answer a system dialog.
Replies(a, s) ==
    \/ a \in {Click("answer"), Click("shutdown")}
    \/ s.over = "dialog" /\ a \in {Key("Enter"), Key("Escape")}

\* The generic engine: a key is denied where it would answer a dialog, a dialog's
\* controls and what is not there are never allowed.
LEMMA GenericIsCautious ==
    ASSUME NEW s, NEW screen, Tells(screen, s), NEW risk, NEW a
    PROVE  /\ s.over = "dialog" /\ a \in {Key("Enter"), Key("Escape")} =>
                 Generic(a, risk, screen) = Deny
           /\ a \in {Click("answer"), Click("shutdown")} => Generic(a, risk, screen) # Allow
           /\ a.type = "click" /\ a.on \notin Shown(s) => Generic(a, risk, screen) # Allow
  <1> USE DEF Tells
  <1>1. ASSUME a.type = "click", a.on \notin Shown(s)
        PROVE  Generic(a, risk, screen) # Allow
    BY <1>1 DEF Generic, SlackToggle, ElementAction, Allow, Deny, Approval
  <1>2. ASSUME s.over = "dialog", a \in {Key("Enter"), Key("Escape")}
        PROVE  Generic(a, risk, screen) = Deny
    BY <1>2 DEF Generic, Answers
  <1>3. ASSUME a \in {Click("answer"), Click("shutdown")}
        PROVE  Generic(a, risk, screen) # Allow
    <2>1. a.type = "click" /\ a.on \in {"answer", "shutdown"}
      BY <1>3, ActionTypes
    <2>2. CASE a.on \notin Shown(s)
      BY <1>1, <2>1, <2>2
    <2>3. CASE a.on \in Shown(s)
      <3>1. s.over = "dialog"
        BY <2>1, <2>3 DEF Shown
      <3>2. CASE a.on = "answer"
        <4>1. "answer" \in Words[a.on]
          BY <3>2 DEF Words
        <4>2. Answers(a, screen)
          BY <2>1, <2>3, <3>1, <4>1 DEF Answers
        <4> QED
          BY <4>2 DEF Generic, Allow, Deny
      <3>3. CASE a.on = "shutdown"
        <4>1. "destructive" \in Words[a.on] /\ "toggle" \notin Words[a.on]
          BY <3>3 DEF Words
        <4> QED
          BY <2>1, <4>1 DEF Generic, SlackToggle, ElementAction, Allow, Deny, Approval
      <3> QED
        BY <2>1, <3>2, <3>3
    <2> QED
      BY <2>2, <2>3
  <1> QED
    BY <1>1, <1>2, <1>3

\* The engines in front of it let no answer through either; triage sends nothing but
\* Escape to Slack and clicks no channel, agenda does not click into a call.
LEMMA EnginesAreCautious ==
    ASSUME NEW p \in Policies, NEW s, NEW screen, Tells(screen, s), NEW risk, NEW a \in Actions,
           Policy(p, a, risk, screen) = Allow
    PROVE  /\ ~Replies(a, s)
           /\ p = "triage" /\ s.app = "slack" => a = Key("Escape")
           /\ p = "triage" => a # Click("channel")
           /\ p \in {"agenda", "scroll"} => a # Click("join")
           /\ p = "scroll" => a.type = "scroll"
  <1>1. /\ Allow # Deny /\ Allow # Approval /\ Deny # Approval
        /\ screen.app = s.app /\ screen.shown = Shown(s)
    BY DEF Allow, Deny, Approval, Tells
  <1>2. CASE p = "availability"
    <2>1. SlackAvailability(a, risk, screen) = Allow
      BY <1>2 DEF Policy
    <2>2. \/ Generic(a, risk, screen) = Allow
          \/ Generic(a, risk, screen) = Approval /\ ScopedNavigation(a, screen)
      BY <1>1, <2>1 DEF SlackAvailability
    <2>3. ASSUME NEW e \in {"answer", "shutdown"}
          PROVE  ~ScopedNavigation(Click(e), screen)
      <3>1. "slack" \notin Words[e] /\ "profile" \notin Words[e]
        <4>1. CASE e = "answer"
          BY <4>1 DEF Words
        <4>2. CASE e = "shutdown"
          BY <4>2 DEF Words
        <4> QED
          BY <4>1, <4>2
      <3> QED
        BY <3>1, ActionTypes DEF ScopedNavigation, NavigationElement
    <2>4. ~Replies(a, s)
      BY <1>1, <2>2, <2>3, GenericIsCautious DEF Replies
    <2> QED
      BY <1>2, <2>4
  <1>3. CASE p = "triage"
    <2>1. SlackTriage(a, risk, screen) = Allow
      BY <1>3 DEF Policy
    <2>2. \E r : \/ Generic(a, r, screen) = Allow
                 \/ a = Key("Escape") /\ Generic(a, r, screen) # Deny
      BY <1>1, <2>1 DEF SlackTriage, Relaxed
    <2>3. ~Replies(a, s)
      BY <1>1, <2>2, GenericIsCautious, ActionTypes DEF Replies
    <2>4. s.app = "slack" => a = Key("Escape")
      BY <1>1, <2>1 DEF SlackTriage
    <2>5. ASSUME a = Click("channel") PROVE FALSE
      <3>1. a # Key("Escape") /\ a.type = "click" /\ a.on = "channel"
        BY <2>5, ActionTypes
      <3>2. "#" \in Words[a.on]
        BY <3>1 DEF Words
      <3>3. a.on \notin Shown(s)
        BY <1>1, <2>1, <2>4, <3>1, <3>2 DEF SlackTriage
      <3> QED
        BY <2>2, <3>1, <3>3, GenericIsCautious
    <2> QED
      BY <1>3, <2>3, <2>4, <2>5
  <1>4. CASE p \in {"agenda", "scroll"}
    <2>1. Agenda(a, risk, screen) = Allow
      BY <1>1, <1>4 DEF Policy, AgendaScroll
    <2>2. \E r : Generic(a, r, screen) = Allow
      BY <1>1, <2>1 DEF Agenda, Relaxed
    <2>3. ~Replies(a, s)
      BY <1>1, <2>2, GenericIsCautious, ActionTypes DEF Replies
    <2>4. ASSUME a = Click("join") PROVE FALSE
      <3>1. a.type = "click" /\ a.on = "join"
        BY <2>4, ActionTypes
      <3>2. "join" \in Words[a.on]
        BY <3>1 DEF Words
      <3>3. a.on \notin Shown(s)
        BY <1>1, <2>1, <3>1, <3>2 DEF Agenda
      <3> QED
        BY <2>2, <3>1, <3>3, GenericIsCautious
    <2>5. p = "scroll" => a.type = "scroll"
      BY <1>1 DEF Policy, AgendaScroll
    <2> QED
      BY <1>4, <2>3, <2>4, <2>5
  <1> QED
    BY <1>2, <1>3, <1>4 DEF Policies, Kinds

\* What may be sent on a scene does no harm there.
LEMMA PermittedIsCautious ==
    ASSUME NEW p \in Policies, NEW s \in Scenes, NEW a \in Permitted[p][s]
    PROVE  /\ a \in Actions /\ ~Replies(a, s)
           /\ p = "triage" /\ s.app = "slack" => a = Key("Escape")
           /\ p = "triage" => a # Click("channel")
           /\ p \in {"agenda", "scroll"} => a # Click("join")
           /\ p = "scroll" => a.type = "scroll"
  <1>1. a \in Actions /\ \E screen \in Screens(p, s), risk \in Risks :
                            screen.safe /\ Policy(p, a, risk, screen) = Allow
    <2> DEFINE Some(q, t) == {b \in Actions : \E screen \in Screens(q, t), risk \in Risks :
                                 screen.safe /\ Policy(q, b, risk, screen) = Allow}
    <2>1. Permitted = [q \in Policies |-> [t \in Scenes |-> Some(q, t)]]
      BY DEF Permitted
    <2> HIDE DEF Some
    <2>2. Permitted[p][s] = Some(p, s)
      BY <2>1
    <2> QED
      BY <2>2 DEF Some
  <1> QED
    BY <1>1, ScreensTell, EnginesAreCautious

-----------------------------------------------------------------------------
\* The steps of the workflows between their sessions.

Working(w) == flow[w].pc \notin {"idle", "acquire"}

LEMMA ChangeSteps ==
    ASSUME FlowTypes, NEW w \in Flows, Working(w), NEW changes, Goto(w, changes),
           "pc" \in DOMAIN changes, changes.pc \in Labels \ {"idle", "acquire", "main", "planned"},
           DOMAIN changes \cap {"kind", "desired", "stage", "at"} = {}
    PROVE  /\ StepOf(w) /\ flow'[w].pc = changes.pc
           /\ \A f \in Fields :
                 flow'[w][f] = IF f \in DOMAIN changes THEN changes[f] ELSE flow[w][f]
  <1>1. /\ Touches(w)
        /\ \A f \in Fields :
              flow'[w][f] = IF f \in DOMAIN changes THEN changes[f] ELSE flow[w][f]
    BY GotoGoes
  <1>2. /\ flow'[w].pc = changes.pc /\ flow'[w].kind = flow[w].kind
        /\ flow'[w].desired = flow[w].desired
        /\ flow'[w].stage = flow[w].stage /\ flow'[w].at = flow[w].at
    BY <1>1 DEF Fields
  <1>3. flow[w].kind \in Kinds
    BY DEF FlowTypes, Working
  <1> QED
    BY <1>1, <1>2, <1>3, TypesKept DEF FlowTypes

LEMMA LabelSteps ==
    ASSUME FlowTypes, NEW w \in Flows, Working(w),
           NEW label \in Labels \ {"idle", "acquire", "main", "planned"}, Goto(w, [pc |-> label])
    PROVE  StepOf(w) /\ flow'[w].pc = label /\ Kept(w, Fields \ {"pc"})
  <1> DEFINE changes == [pc |-> label]
  <1>1. /\ DOMAIN changes = {"pc"} /\ changes.pc = label
    OBVIOUS
  <1> HIDE DEF changes
  <1>2. Goto(w, changes)
    BY DEF changes
  <1> QED
    BY <1>1, <1>2, ChangeSteps DEF Kept

\* What is left of a workflow that is over.
Leaves == {"kind", "desired", "menuSeen", "shown", "sure", "covered", "gap"}

LEMMA ConcludesSteps ==
    ASSUME FlowTypes, NEW w \in Flows, Working(w), NEW label \in {"close", "report"}, NEW result,
           Concludes(w, label, result)
    PROVE  /\ StepOf(w) /\ flow'[w].pc = label /\ Kept(w, Leaves)
           /\ flow'[w].result = Over(result, NoResult)
  <1> DEFINE f == flow[w]
             next == [Idle EXCEPT !.kind = f.kind, !.pc = label, !.desired = f.desired,
                             !.menuSeen = f.menuSeen, !.result = Over(result, NoResult),
                             !.shown = f.shown, !.sure = f.sure, !.covered = f.covered,
                             !.gap = f.gap]
  <1>1. /\ DOMAIN next = Fields /\ next.kind = f.kind /\ next.pc = label
        /\ next.desired = f.desired /\ next.menuSeen = f.menuSeen
        /\ next.result = Over(result, NoResult) /\ next.shown = f.shown
        /\ next.sure = f.sure /\ next.covered = f.covered /\ next.gap = f.gap
        /\ next.stage = 0 /\ next.at = 1
    BY FieldsAre DEF Idle
  <1>2. flow' = [flow EXCEPT ![w] = next]
    BY DEF Concludes
  <1> HIDE DEF next
  <1>3. Touches(w) /\ flow'[w] = next
    BY <1>1, <1>2 DEF FlowTypes, Touches
  <1>4. flow[w].kind \in Kinds /\ flow[w].desired \in Availabilities \cup {"none"}
    BY DEF FlowTypes, Working
  <1> QED
    BY <1>1, <1>3, <1>4, TypesKept DEF Labels, Kept, Leaves

LEMMA FailsSteps ==
    ASSUME FlowTypes, NEW w \in Flows, Working(w), Fails(w)
    PROVE  /\ StepOf(w) /\ flow'[w].pc = "report" /\ Kept(w, Leaves)
           /\ flow'[w].result.success = FALSE
  <1>1. Over(NoResult, NoResult).success = FALSE
    BY DEF Over, NoResult
  <1> QED
    BY <1>1, ConcludesSteps DEF Fails, Reports

\* The sessions of an availability workflow after its first.
LEMMA AgainSteps ==
    ASSUME FlowTypes, NEW w \in Flows, NEW goal, NEW stage \in {2, 3},
           Availability(w, "decide"), Again(w, goal, stage)
    PROVE  /\ StepOf(w) /\ Deeper(w) /\ UNCHANGED <<desk, late>>
           /\ flow'[w].pc = "session" /\ flow'[w].goal = goal /\ flow'[w].stage = stage
           /\ flow'[w].first = "none" /\ flow'[w].earliest = FirstObserved(w)
           /\ Kept(w, {"kind", "desired", "shown"})
  <1>1. /\ Touches(w) /\ flow[w].pc = "decide" /\ flow[w].kind = "availability"
        /\ flow'[w].pc = "session"
        /\ flow'[w].goal = goal /\ flow'[w].stage = stage
        /\ flow'[w].first = "none" /\ flow'[w].earliest = FirstObserved(w)
        /\ Kept(w, {"kind", "desired", "shown", "at"})
        /\ Enter(w) /\ UNCHANGED <<desk, late>>
    BY GotoGoes DEF Again, Availability, At, Fields, deskVars, Kept
  <1>2. StepOf(w)
    BY <1>1, TypesKept DEF FlowTypes, Labels, Kept, Kinds
  <1> QED
    BY <1>1, <1>2 DEF Deeper, Level, Kept


\* How a workflow's own step goes on.
Moves(w) == StepOf(w) /\ (Deeper(w) \/ Stays(w))

\* What an availability workflow concludes is what it noted.
LEMMA ConcludesTruly ==
    ASSUME NEW w \in Flows, AvailabilityInv(w), Availability(w, "decide"),
           flow[w].desired \in Availabilities \cup {"none"}, Outcome(w).success
    PROVE  /\ Outcome(w).observed = flow[w].final
           /\ Still(w, flow[w].final)
           /\ flow[w].desired \in {"none", flow[w].final}
           /\ flow[w].desired # "none" =>
                 Outcome(w).changed = (IF flow[w].shown = flow[w].final THEN "no" ELSE "yes")
  <1>1. /\ flow[w].shown = FirstObserved(w)
        /\ flow[w].goal \in {"read", Goal(w)} /\ (flow[w].stage # 3 => flow[w].goal = Goal(w))
        /\ flow[w].stop = "completed" =>
              /\ flow[w].final \in Availabilities /\ flow[w].goal \in {"read", flow[w].final}
              /\ flow[w].shown # "none" /\ Still(w, flow[w].final)
    BY DEF AvailabilityInv, Availability, At
  <1>2. Outcome(w) # NoResult
    BY DEF NoResult
  <1>3. CASE flow[w].stage = 3
    <2>1. Outcome(w) = ReadBack(w)
      BY <1>2, <1>3 DEF Outcome
    <2> DEFINE good == flow[w].stop = "completed" /\ flow[w].final = flow[w].desired
    <2>0. /\ ReadBack(w).success = good /\ ReadBack(w).observed = flow[w].final
          /\ good => ReadBack(w).changed = Changed(w)
      BY DEF ReadBack
    <2>2. /\ flow[w].stop = "completed" /\ flow[w].final = flow[w].desired
          /\ Outcome(w).observed = flow[w].final /\ Outcome(w).changed = Changed(w)
      BY <2>0, <2>1
    <2> QED
      BY <1>1, <2>2 DEF Changed
  <1>4. CASE flow[w].stage # 3
    <2>1. Outcome(w) = Conclusion(w)
      BY <1>2, <1>4 DEF Outcome
    <2> DEFINE good == flow[w].stop = "completed" /\ flow[w].final # "none"
    <2>0. /\ Conclusion(w).success = good /\ Conclusion(w).observed = flow[w].final
          /\ good /\ flow[w].desired # "none" => Conclusion(w).changed = Changed(w)
      BY DEF Conclusion
    <2>2. /\ flow[w].stop = "completed" /\ Outcome(w).observed = flow[w].final
          /\ flow[w].desired # "none" => Outcome(w).changed = Changed(w)
      BY <2>0, <2>1
    <2>3. flow[w].desired # "none" => flow[w].goal = flow[w].desired /\ flow[w].goal # "read"
      BY <1>1, <1>4 DEF Goal, Availabilities
    <2>4. flow[w].desired \in {"none", flow[w].final}
      BY <1>1, <2>2, <2>3
    <2> QED
      BY <1>1, <2>2, <2>4 DEF Changed
  <1> QED
    BY <1>3, <1>4

\* The Escape at the end answers or closes something, and changes no availability.
LEMMA CloseDesk ==
    ASSUME desk \in Desks, Send(Key("Escape"), FALSE)
    PROVE  Follows(desk') /\ desk'.avail = desk.avail /\ UNCHANGED late
  <1>1. Key("Escape") \in Actions /\ Key("Escape").type # "click"
    BY ActionTypes DEF Actions, Keys
  <1>2. desk' \in {desk} \cup Effects(Key("Escape"), FALSE) /\ UNCHANGED late
    BY <1>1 DEF Send
  <1>3. Effects(Key("Escape"), FALSE) \subseteq {desk, Escaped}
    BY ActionTypes DEF Effects
  <1> QED
    BY <1>2, <1>3, EscapedDesk DEF Follows

\* The steps of the availability workflow outside its sessions.
LEMMA AvailabilitySteps ==
    ASSUME TInv, NEW w \in Flows, AvailabilityStep(w), AvailabilityInv(w)
    PROVE  /\ Moves(w) /\ Follows(desk') /\ UNCHANGED late
           /\ flow[w].kind = "availability" /\ flow'[w].kind = "availability"
           /\ AvailabilityInv(w)'
  <1> USE DEF TInv
  <1>0. UNCHANGED desk => Follows(desk')
    BY DEF Follows
  <1>1. CASE MainSession(w)
    <2>1. /\ Run(w, Goal(w), 1) /\ flow[w].kind = "availability" /\ flow[w].pc = "main"
          /\ Fresh(flow[w])
      BY <1>1 DEF MainSession, Availability, At, FlowTypes
    <2>2. /\ StepOf(w) /\ Deeper(w) /\ UNCHANGED <<desk, late>>
          /\ flow'[w].pc = "session" /\ flow'[w].goal = Goal(w) /\ flow'[w].stage = 1
          /\ flow'[w].first = "none" /\ Kept(w, Lasting \cup {"shown"})
      BY <2>1, RunSteps DEF Level
    <2>3. /\ flow'[w].kind = "availability" /\ flow'[w].desired = flow[w].desired
          /\ flow'[w].shown = "none" /\ flow'[w].earliest = "none"
      BY <2>1, <2>2 DEF Kept, Lasting, Fresh
    <2>4. AvailabilityInv(w)'
      BY <2>2, <2>3 DEF AvailabilityInv, FirstObserved, Goal
    <2> QED
      BY <1>0, <2>1, <2>2, <2>3, <2>4 DEF Moves
  <1>2. CASE Recover(w) \/ Verify(w)
    <2>0. PICK stage \in {2, 3} : \E goal \in {"read", Goal(w)} :
               /\ Availability(w, "decide") /\ Again(w, goal, stage)
               /\ stage # 3 => goal = Goal(w)
      BY <1>2 DEF Recover, Verify
    <2>1. PICK goal \in {"read", Goal(w)} :
               /\ Availability(w, "decide") /\ Again(w, goal, stage)
               /\ stage # 3 => goal = Goal(w)
      BY <2>0
    <2>2. /\ StepOf(w) /\ Deeper(w) /\ UNCHANGED <<desk, late>>
          /\ flow'[w].pc = "session" /\ flow'[w].goal = goal /\ flow'[w].stage = stage
          /\ flow'[w].first = "none" /\ flow'[w].earliest = FirstObserved(w)
          /\ Kept(w, {"kind", "desired", "shown"})
      BY <2>1, AgainSteps
    <2>3. /\ flow[w].kind = "availability" /\ flow'[w].kind = "availability"
          /\ flow'[w].desired = flow[w].desired /\ flow'[w].shown = flow[w].shown
          /\ flow[w].shown = FirstObserved(w)
      BY <2>1, <2>2 DEF Kept, Availability, At, AvailabilityInv
    <2>4. AvailabilityInv(w)'
      BY <2>1, <2>2, <2>3 DEF AvailabilityInv, FirstObserved, Goal
    <2> QED
      BY <1>0, <2>2, <2>3, <2>4 DEF Moves
  <1>3. CASE Conclude(w)
    <2>1. /\ Availability(w, "decide") /\ Concludes(w, "close", Outcome(w))
          /\ UNCHANGED <<lockVars, desk, late>>
          /\ flow[w].kind = "availability" /\ flow[w].pc = "decide" /\ Working(w)
      BY <1>3 DEF Conclude, Availability, At, Working, deskVars
    <2>2. /\ StepOf(w) /\ flow'[w].pc = "close" /\ Kept(w, Leaves)
          /\ flow'[w].result = Over(Outcome(w), NoResult)
      BY <2>1, ConcludesSteps
    <2>3. /\ flow'[w].kind = "availability" /\ flow'[w].desired = flow[w].desired
          /\ flow'[w].shown = flow[w].shown /\ flow'[w].sure = flow[w].sure
      BY <2>1, <2>2 DEF Kept, Leaves
    <2>4. {"success", "observed", "changed"} \subseteq DOMAIN Outcome(w)
      BY DEF Outcome, ReadBack, Conclusion, NoResult
    <2>5. /\ flow'[w].result.success = Outcome(w).success
          /\ flow'[w].result.observed = Outcome(w).observed
          /\ flow'[w].result.changed = Outcome(w).changed
      <3>1. /\ Over(Outcome(w), NoResult).success = Outcome(w).success
            /\ Over(Outcome(w), NoResult).observed = Outcome(w).observed
            /\ Over(Outcome(w), NoResult).changed = Outcome(w).changed
        BY <2>4 DEF Over, NoResult
      <3> QED
        BY <2>2, <3>1
    <2>6. Outcome(w).success =>
             /\ Outcome(w).observed = flow[w].final
             /\ Still(w, flow[w].final)
             /\ flow[w].desired \in {"none", flow[w].final}
             /\ flow[w].desired # "none" =>
                   Outcome(w).changed = (IF flow[w].shown = flow[w].final THEN "no" ELSE "yes")
      BY <2>1, ConcludesTruly DEF FlowTypes
    <2>7. AvailabilityInv(w)'
      BY <2>1, <2>2, <2>3, <2>5, <2>6 DEF AvailabilityInv, Told, Still
    <2> QED
      BY <1>0, <2>1, <2>2, <2>3, <2>7 DEF Moves, Stays, Level
  <1>4. CASE CloseMenu(w) \/ NoMenu(w)
    <2>1. /\ Goto(w, [pc |-> "report"]) /\ UNCHANGED lockVars
          /\ flow[w].kind = "availability" /\ flow[w].pc = "close" /\ Working(w)
      BY <1>4 DEF CloseMenu, NoMenu, Availability, At, Working
    <2>2. Follows(desk') /\ desk'.avail = desk.avail /\ UNCHANGED late
      BY <1>0, <1>4, CloseDesk DEF CloseMenu, NoMenu, deskVars
    <2>3. StepOf(w) /\ flow'[w].pc = "report" /\ Kept(w, Fields \ {"pc"})
      BY <2>1, LabelSteps DEF Labels
    <2>4. /\ flow'[w].kind = flow[w].kind /\ flow'[w].desired = flow[w].desired
          /\ flow'[w].shown = flow[w].shown /\ flow'[w].sure = flow[w].sure
          /\ flow'[w].result = flow[w].result
      BY <2>3 DEF Kept, Fields
    <2>5. AvailabilityInv(w)'
      BY <2>1, <2>2, <2>3, <2>4 DEF AvailabilityInv, Told, Still
    <2> QED
      BY <2>1, <2>2, <2>3, <2>4, <2>5 DEF Moves, Stays, Level
  <1> QED
    BY <1>1, <1>2, <1>3, <1>4 DEF AvailabilityStep


\* A screenshot's reading of an uncovered window is what is there.
LEMMA PerceptionsTell ==
    ASSUME NEW app, NEW all, NEW p \in Perceptions(app, all)
    PROVE  /\ p.obstructed = Obstructed /\ (~p.obstructed => p.items = all)
           /\ app = "calendar" => p.earlier = (desk.top > 1) /\ p.later = (desk.top + View <= Slots)
           /\ app = "slack" => p.later = ("below" \in desk.unread)
           /\ p.items \subseteq all
  BY DEF Perceptions

\* The steps of the triage workflow outside its sessions.
LEMMA TriageSteps ==
    ASSUME TInv, NEW w \in Flows, TriageStep(w), TriageInv(w)
    PROVE  /\ Moves(w) /\ UNCHANGED <<desk, late>>
           /\ flow[w].kind = "triage" /\ flow'[w].kind = "triage"
           /\ TriageInv(w)'
  <1> USE DEF TInv
  <1>1. CASE Foreground(w)
    <2>1. Run(w, "slack", 1) /\ flow[w].kind = "triage" /\ flow[w].pc = "main"
      BY <1>1 DEF Foreground, Triage, At
    <2>2. /\ StepOf(w) /\ Deeper(w) /\ UNCHANGED <<desk, late>>
          /\ flow'[w].pc = "session" /\ flow'[w].stage = 1 /\ flow'[w].kind = "triage"
      BY <2>1, RunSteps DEF Level, Kept, Lasting
    <2> QED
      BY <2>1, <2>2 DEF TriageInv, Moves
  <1>2. ASSUME Fails(w), UNCHANGED <<lockVars, deskVars>>,
               flow[w].kind = "triage", flow[w].pc \in {"decide", "seen"}
        PROVE  /\ Moves(w) /\ UNCHANGED <<desk, late>> /\ flow'[w].kind = "triage"
               /\ TriageInv(w)'
    <2>1. /\ StepOf(w) /\ flow'[w].pc = "report" /\ flow'[w].kind = "triage"
          /\ flow'[w].result.success = FALSE
      BY <1>2, FailsSteps DEF Kept, Leaves, Working
    <2> QED
      BY <1>2, <2>1 DEF TriageInv, Moves, Stays, Level, deskVars
  <1>3. CASE NotInFront(w)
    BY <1>2, <1>3 DEF NotInFront, Triage, At
  <1>4. CASE ReadSidebar(w)
    <2>1. PICK p \in Perceptions("slack", Unread) : Goto(w, [pc |-> "seen", read |-> p])
      BY <1>4 DEF ReadSidebar
    <2>2. /\ UNCHANGED lockVars /\ UNCHANGED <<desk, late>>
          /\ flow[w].kind = "triage" /\ flow[w].pc = "decide" /\ Working(w)
      BY <1>4 DEF ReadSidebar, Triage, At, deskVars, Working
    <2> DEFINE changes == [pc |-> "seen", read |-> p]
    <2>3. DOMAIN changes = {"pc", "read"} /\ changes.pc = "seen" /\ changes.read = p
      OBVIOUS
    <2>4. Goto(w, changes)
      BY <2>1
    <2> HIDE DEF changes
    <2>5. /\ StepOf(w) /\ flow'[w].pc = "seen" /\ flow'[w].kind = "triage"
          /\ flow'[w].read = p
      BY <2>2, <2>3, <2>4, ChangeSteps DEF Labels, Fields
    <2>6. ~p.obstructed /\ p.items = {} => Quiet(p.later)
      <3>1. p.later = ("below" \in desk.unread) /\ (~p.obstructed => p.items = Unread)
        BY PerceptionsTell
      <3> QED
        BY <3>1 DEF Unread, Quiet
    <2> QED
      BY <2>2, <2>5, <2>6 DEF TriageInv, Quiet, Moves, Stays, Level
  <1>5. CASE Dismiss(w)
    <2>1. /\ Run(w, "dismiss", 2) /\ flow[w].kind = "triage" /\ flow[w].pc = "seen"
          /\ flow[w].read.obstructed
      BY <1>5 DEF Dismiss, Triage, At
    <2>2. /\ StepOf(w) /\ Deeper(w) /\ UNCHANGED <<desk, late>>
          /\ flow'[w].pc = "session" /\ flow'[w].kind = "triage" /\ flow'[w].read = flow[w].read
      BY <2>1, RunSteps DEF Level, Kept, Lasting
    <2> QED
      BY <2>1, <2>2 DEF TriageInv, Moves
  <1>6. CASE KeepRead(w)
    <2>1. /\ UNCHANGED <<lockVars, deskVars>>
          /\ Fails(w) \/ Goto(w, [pc |-> "seen"])
          /\ flow[w].kind = "triage" /\ flow[w].pc = "decide" /\ flow[w].stage = 2
      BY <1>6 DEF KeepRead, Triage, At
    <2>2. CASE Fails(w)
      BY <1>2, <2>1, <2>2
    <2>3. CASE Goto(w, [pc |-> "seen"])
      <3>1. /\ StepOf(w) /\ flow'[w].pc = "seen" /\ Kept(w, Fields \ {"pc"})
        BY <2>1, <2>3, LabelSteps DEF Labels, Working
      <3>2. flow'[w].kind = "triage" /\ flow'[w].read = flow[w].read
        BY <2>1, <3>1 DEF Kept, Fields
      <3> QED
        BY <2>1, <3>1, <3>2 DEF TriageInv, Moves, Stays, Level, deskVars
    <2> QED
      BY <2>1, <2>2, <2>3
  <1>7. CASE ReportTriage(w)
    <2> DEFINE flagged == flow[w].read.obstructed \/ flow[w].read.later
               told == [success |-> TRUE, items |-> flow[w].read.items, flagged |-> flagged]
    <2>1. /\ UNCHANGED <<lockVars, deskVars>>
          /\ flow[w].kind = "triage" /\ flow[w].pc = "seen"
          /\ Fails(w) \/ (Trustworthy(w) /\ Reports(w, told))
      BY <1>7 DEF ReportTriage, Triage, At
    <2>2. CASE Fails(w)
      BY <1>2, <2>1, <2>2
    <2>3. CASE Trustworthy(w) /\ Reports(w, told)
      <3>1. /\ StepOf(w) /\ flow'[w].pc = "report" /\ flow'[w].kind = "triage"
            /\ flow'[w].result = Over(told, NoResult)
        BY <2>1, <2>3, ConcludesSteps DEF Reports, Kept, Leaves, Working
      <3>2. /\ Over(told, NoResult).items = flow[w].read.items
            /\ Over(told, NoResult).flagged = flagged
        BY DEF Over, NoResult
      <3>3. flow[w].read.items = {} => Quiet(flagged)
        BY <2>1, <2>3 DEF TriageInv, Trustworthy, Quiet
      <3> HIDE DEF told, flagged
      <3>4. flow'[w].result.items = {} => Quiet(flow'[w].result.flagged)
        BY <3>1, <3>2, <3>3
      <3> QED
        BY <2>1, <3>1, <3>4 DEF TriageInv, Quiet, Moves, Stays, Level, deskVars
    <2> QED
      BY <2>1, <2>2, <2>3
  <1> QED
    BY <1>1, <1>3, <1>4, <1>5, <1>6, <1>7 DEF TriageStep, NotInFront, ReadSidebar, Dismiss,
       KeepRead, ReportTriage, Triage, At


\* The hours are numbers.
LEMMA HoursAre ==
    ASSUME desk \in Desks
    PROVE  /\ Slots \in Nat /\ View \in Nat /\ View > 0
           /\ desk.top \in Nat /\ desk.top >= 1
           /\ \A x \in desk.day : x \in Nat /\ 1 <= x /\ x <= Slots
  <1>1. desk.day \subseteq 1..Slots /\ desk.top \in 1..(Slots - View + 1)
    BY DesktopAssumption DEF Desks
  <1> QED
    BY <1>1, DesktopAssumption

\* What is shown from an hour that no gap separates from what was read continues it.
LEMMA DayGrows ==
    ASSUME desk \in Desks, NEW at \in Nat, desk.top <= at + View
    PROVE  DownTo(desk.top) \subseteq DownTo(at) \cup Visible
  BY HoursAre DEF DownTo, Visible

LEMMA DayBegins ==
    ASSUME desk \in Desks, desk.top = 1
    PROVE  DownTo(1) \subseteq Visible
  BY HoursAre DEF DownTo, Visible

LEMMA DayEnds ==
    ASSUME desk \in Desks, NEW at \in Nat, ~(at + View <= Slots)
    PROVE  desk.day \subseteq DownTo(at)
  BY HoursAre DEF DownTo

LEMMA ScrollsSteps ==
    ASSUME FlowTypes, NEW w \in Flows, Scrolls(w)
    PROVE  /\ StepOf(w) /\ Deeper(w) /\ UNCHANGED <<desk, late>>
           /\ flow[w].kind = "agenda" /\ flow[w].pc = "seen" /\ flow'[w].pc = "session"
           /\ flow'[w].stage > 2
           /\ flow'[w].merged = Merged(w) /\ flow'[w].earlier = EarlierTruncated(w)
           /\ Kept(w, {"kind", "read", "covered", "gap", "at"})
  <1> DEFINE changes == [pc |-> "session", goal |-> "scroll",
                stage |-> IF flow[w].stage < 3 THEN 3 ELSE flow[w].stage + 1,
                acted |-> FALSE, last |-> "none", stop |-> "none",
                merged |-> Merged(w), earlier |-> EarlierTruncated(w)]
  <1>1. /\ DOMAIN changes = {"pc", "goal", "stage", "acted", "last", "stop", "merged", "earlier"}
        /\ changes.pc = "session" /\ changes.merged = Merged(w)
        /\ changes.earlier = EarlierTruncated(w)
        /\ changes.stage = IF flow[w].stage < 3 THEN 3 ELSE flow[w].stage + 1
    OBVIOUS
  <1>2. Goto(w, changes) /\ Enter(w) /\ UNCHANGED <<desk, late>>
        /\ flow[w].kind = "agenda" /\ flow[w].pc = "seen"
    BY DEF Scrolls, FirstReadDone, Reading, At, deskVars
  <1> HIDE DEF changes
  <1>3. /\ Touches(w) /\ flow'[w].pc = "session" /\ flow'[w].stage = changes.stage
        /\ flow'[w].merged = Merged(w) /\ flow'[w].earlier = EarlierTruncated(w)
        /\ Kept(w, {"kind", "desired", "read", "covered", "gap", "at"})
    BY <1>1, <1>2, GotoGoes DEF Kept, Fields
  <1>4. flow[w].stage \in Nat
    BY DEF FlowTypes
  <1>5. flow'[w].stage \in Nat /\ flow'[w].stage > 2
    BY <1>1, <1>3, <1>4
  <1>6. StepOf(w)
    BY <1>2, <1>3, <1>5, TypesKept DEF FlowTypes, Labels, Kept, Kinds
  <1> QED
    BY <1>2, <1>3, <1>5, <1>6 DEF Deeper, Level, Kept

LEMMA ReadCalendarSteps ==
    ASSUME FlowTypes, desk \in Desks, NEW w \in Flows, ReadCalendar(w)
    PROVE  /\ StepOf(w) /\ Stays(w) /\ UNCHANGED <<desk, late>>
           /\ flow[w].kind = "agenda" /\ flow[w].pc = "decide" /\ flow'[w].pc = "seen"
           /\ flow'[w].read \in Perceptions("calendar", Visible)
           /\ flow'[w].covered = (flow[w].covered \/ flow'[w].read.obstructed)
           /\ flow'[w].at = desk.top
           /\ flow'[w].gap = (flow[w].gap \/ (flow[w].stage > 2 /\ desk.top > flow[w].at + View))
           /\ Kept(w, {"kind", "stage", "merged", "earlier"})
  <1>1. PICK p \in Perceptions("calendar", Visible) :
          Goto(w, [pc |-> "seen", read |-> p, covered |-> flow[w].covered \/ p.obstructed,
                   at |-> desk.top,
                   gap |-> flow[w].gap \/ (flow[w].stage > 2 /\ desk.top > flow[w].at + View)])
    BY DEF ReadCalendar
  <1>2. /\ UNCHANGED lockVars /\ UNCHANGED <<desk, late>>
        /\ flow[w].kind = "agenda" /\ flow[w].pc = "decide"
    BY DEF ReadCalendar, Reading, At, deskVars
  <1> DEFINE changes ==
                [pc |-> "seen", read |-> p, covered |-> flow[w].covered \/ p.obstructed,
                 at |-> desk.top,
                 gap |-> flow[w].gap \/ (flow[w].stage > 2 /\ desk.top > flow[w].at + View)]
  <1>3. /\ DOMAIN changes = {"pc", "read", "covered", "at", "gap"} /\ changes.pc = "seen"
        /\ changes.read = p /\ changes.covered = (flow[w].covered \/ p.obstructed)
        /\ changes.at = desk.top
        /\ changes.gap = (flow[w].gap \/ (flow[w].stage > 2 /\ desk.top > flow[w].at + View))
    OBVIOUS
  <1>4. Goto(w, changes)
    BY <1>1
  <1> HIDE DEF changes
  <1>5. /\ Touches(w) /\ flow'[w].pc = "seen" /\ flow'[w].read = p
        /\ flow'[w].covered = changes.covered /\ flow'[w].at = desk.top
        /\ flow'[w].gap = changes.gap
        /\ Kept(w, {"kind", "desired", "stage", "merged", "earlier"})
    BY <1>3, <1>4, GotoGoes DEF Fields, Kept
  <1>6. StepOf(w)
    BY <1>2, <1>5, HoursAre, TypesKept DEF FlowTypes, Labels, Kept, Kinds
  <1> QED
    BY <1>2, <1>3, <1>5, <1>6 DEF Stays, Level, Kept

LEMMA ReportDaySteps ==
    ASSUME FlowTypes, NEW w \in Flows, ReportDay(w)
    PROVE  /\ StepOf(w) /\ Stays(w) /\ UNCHANGED <<desk, late>>
           /\ flow[w].kind = "agenda" /\ flow'[w].pc = "report"
           /\ Kept(w, {"kind", "covered", "gap"})
           /\ flow[w].pc \in {"seen", "merged"}
           /\ flow'[w].result.success =>
                 /\ flow'[w].result.items = Merged(w)
                 /\ ~flow'[w].result.flagged => ~flow[w].read.later /\ ~EarlierTruncated(w)
  <1>1. /\ UNCHANGED lockVars /\ UNCHANGED <<desk, late>>
        /\ flow[w].kind = "agenda" /\ flow[w].pc \in {"seen", "merged"} /\ Working(w)
        /\ Day(w) \/ Fails(w)
    BY DEF ReportDay, FirstReadDone, Reading, At, deskVars, Working
  <1>2. CASE Fails(w)
    <2>1. /\ StepOf(w) /\ flow'[w].pc = "report" /\ Kept(w, Leaves)
          /\ flow'[w].result.success = FALSE
      BY <1>1, <1>2, FailsSteps
    <2> QED
      BY <1>1, <2>1 DEF Kept, Leaves, Stays, Level
  <1>3. CASE Day(w)
    <2> DEFINE cut == flow[w].read.obstructed \/ flow[w].read.later \/ EarlierTruncated(w)
               told == [success |-> TRUE, items |-> Merged(w), flagged |-> cut]
    <2>1. Reports(w, told)
      BY <1>3 DEF Day
    <2>2. Over(told, NoResult).items = Merged(w) /\ Over(told, NoResult).flagged = cut
      BY DEF Over, NoResult
    <2>3. /\ StepOf(w) /\ flow'[w].pc = "report" /\ Kept(w, Leaves)
          /\ flow'[w].result = Over(told, NoResult)
      BY <1>1, <2>1, ConcludesSteps DEF Reports
    <2>4. ~cut => ~flow[w].read.later /\ ~EarlierTruncated(w)
      OBVIOUS
    <2> HIDE DEF told, cut
    <2>5. /\ flow'[w].result.items = Merged(w)
          /\ ~flow'[w].result.flagged => ~flow[w].read.later /\ ~EarlierTruncated(w)
      BY <2>2, <2>3, <2>4
    <2> QED
      BY <1>1, <2>3, <2>5 DEF Kept, Leaves, Stays, Level
  <1> QED
    BY <1>1, <1>2, <1>3


\* A failed agenda, and one that goes on with what it had.
LEMMA KeepsReading ==
    ASSUME FlowTypes, NEW w \in Flows, flow[w].kind = "agenda", flow[w].pc \in {"decide", "seen"},
           NEW label \in {"seen", "merged"}, UNCHANGED <<lockVars, deskVars>>,
           Fails(w) \/ Goto(w, [pc |-> label])
    PROVE  /\ Moves(w) /\ UNCHANGED <<desk, late>> /\ flow'[w].kind = "agenda"
           /\ Kept(w, {"covered", "gap"})
           /\ \/ flow'[w].pc = "report" /\ flow'[w].result.success = FALSE
              \/ flow'[w].pc = label /\ Kept(w, {"stage", "merged", "earlier", "read", "at"})
  <1>1. Working(w)
    BY DEF Working
  <1>2. CASE Fails(w)
    <2>1. /\ StepOf(w) /\ flow'[w].pc = "report" /\ Kept(w, Leaves)
          /\ flow'[w].result.success = FALSE
      BY <1>1, <1>2, FailsSteps
    <2> QED
      BY <2>1 DEF Kept, Leaves, Moves, Stays, Level, deskVars
  <1>3. CASE Goto(w, [pc |-> label])
    <2>1. StepOf(w) /\ flow'[w].pc = label /\ Kept(w, Fields \ {"pc"})
      BY <1>1, <1>3, LabelSteps DEF Labels
    <2>2. /\ flow'[w].kind = "agenda" /\ Kept(w, {"covered", "gap"})
          /\ Kept(w, {"stage", "merged", "earlier", "read", "at"})
      BY <2>1 DEF Kept, Fields
    <2> QED
      BY <2>1, <2>2 DEF Moves, Stays, Level, deskVars
  <1> QED
    BY <1>2, <1>3

\* A read of the calendar continues the day, or something was covered or left out.
LEMMA ReadingKeepsDay ==
    ASSUME TInv, NEW w \in Flows, ReadCalendar(w), DayInv(w)
    PROVE  DayInv(w)'
  <1> USE DEF TInv
  <1>1. /\ UNCHANGED <<desk, late>>
        /\ flow[w].kind = "agenda" /\ flow[w].pc = "decide" /\ flow'[w].pc = "seen"
        /\ flow'[w].read \in Perceptions("calendar", Visible)
        /\ flow'[w].covered = (flow[w].covered \/ flow'[w].read.obstructed)
        /\ flow'[w].at = desk.top
        /\ flow'[w].gap = (flow[w].gap \/ (flow[w].stage > 2 /\ desk.top > flow[w].at + View))
        /\ flow'[w].stage = flow[w].stage /\ flow'[w].merged = flow[w].merged
        /\ flow'[w].earlier = flow[w].earlier
    BY ReadCalendarSteps DEF Kept
  <1>2. SUFFICES ASSUME ~flow'[w].covered, ~flow'[w].gap
                 PROVE  /\ flow'[w].stage # 0 /\ flow'[w].stage # 2
                        /\ flow'[w].stage = 1 => flow'[w].merged = {}
                        /\ Read(w, Merged(w), EarlierTruncated(w))'
    BY <1>1 DEF DayInv
  <1>3. /\ ~flow[w].covered /\ ~flow[w].gap /\ ~flow'[w].read.obstructed
        /\ flow[w].stage > 2 => ~(desk.top > flow[w].at + View)
    BY <1>1, <1>2
  <1>4. /\ flow'[w].read.items = Visible
        /\ flow'[w].read.earlier = (desk.top > 1) /\ flow'[w].read.later = (desk.top + View <= Slots)
    BY <1>1, <1>3, PerceptionsTell
  <1>5. /\ flow[w].stage # 0 /\ flow[w].stage # 2
        /\ flow[w].stage = 1 => flow[w].merged = {}
        /\ flow[w].stage > 2 => Read(w, flow[w].merged, flow[w].earlier)
    BY <1>1, <1>3 DEF DayInv
  <1>6. /\ Merged(w)' = flow[w].merged \cup Visible
        /\ EarlierTruncated(w)' = IF flow[w].stage < 3 THEN desk.top > 1 ELSE flow[w].earlier
    BY <1>1, <1>4 DEF Merged, EarlierTruncated
  <1>7. Visible \subseteq desk.day
    BY DEF Visible
  <1>8. flow[w].stage \in Nat /\ flow[w].at \in Nat /\ desk.top \in Nat /\ desk.top >= 1 /\ View \in Nat
    BY HoursAre DEF FlowTypes
  <1>9. CASE flow[w].stage = 1
    <2>1. ~(desk.top > 1) => DownTo(desk.top) \subseteq Visible
      BY <1>8, DayBegins
    <2>2. Merged(w)' = Visible /\ EarlierTruncated(w)' = (desk.top > 1)
      BY <1>5, <1>6, <1>9
    <2>3. ~EarlierTruncated(w)' => DownTo(desk.top) \subseteq Merged(w)'
      BY <2>1, <2>2
    <2> QED
      BY <1>1, <1>3, <1>4, <1>5, <1>7, <1>9, <2>2, <2>3 DEF Read, DownTo
  <1>10. CASE flow[w].stage > 2
    <2>1. DownTo(desk.top) \subseteq DownTo(flow[w].at) \cup Visible
      BY <1>3, <1>8, <1>10, DayGrows
    <2>2. /\ flow[w].merged \subseteq desk.day
          /\ ~flow[w].earlier => DownTo(flow[w].at) \subseteq flow[w].merged
      BY <1>5, <1>10 DEF Read
    <2>3. Merged(w)' \subseteq desk.day
      BY <1>6, <1>7, <2>2
    <2>4. ~EarlierTruncated(w)' => DownTo(desk.top) \subseteq Merged(w)'
      BY <1>6, <1>10, <2>1, <2>2, <1>8
    <2> QED
      BY <1>1, <1>3, <1>4, <1>5, <1>10, <2>3, <2>4 DEF Read, DownTo
  <1> QED
    BY <1>5, <1>8, <1>9, <1>10

\* The steps of the agenda workflow outside its sessions.
LEMMA AgendaSteps ==
    ASSUME TInv, NEW w \in Flows, AgendaStep(w), DayInv(w)
    PROVE  /\ Moves(w) /\ UNCHANGED <<desk, late>>
           /\ flow[w].kind = "agenda" /\ flow'[w].kind = "agenda"
           /\ DayInv(w)'
  <1> USE DEF TInv
  <1>1. CASE ForegroundCalendar(w)
    <2>1. /\ Run(w, "calendar", 1) /\ flow[w].kind = "agenda" /\ flow[w].pc = "main"
          /\ Fresh(flow[w])
      BY <1>1 DEF ForegroundCalendar, Reading, At, FlowTypes
    <2>2. /\ StepOf(w) /\ Deeper(w) /\ UNCHANGED <<desk, late>>
          /\ flow'[w].pc = "session" /\ flow'[w].stage = 1 /\ Kept(w, Lasting)
      BY <2>1, RunSteps DEF Level, Kept
    <2>3. flow'[w].kind = "agenda" /\ flow'[w].merged = {}
      BY <2>1, <2>2 DEF Kept, Lasting, Fresh
    <2> QED
      BY <2>1, <2>2, <2>3 DEF DayInv, Moves
  <1>2. CASE Unreadable(w) \/ Refused(w) \/ KeepCovered(w)
    <2>1. /\ flow[w].kind = "agenda" /\ flow[w].pc \in {"decide", "seen"}
          /\ UNCHANGED <<lockVars, deskVars>> /\ (Fails(w) \/ Goto(w, [pc |-> "seen"]))
          /\ Fails(w) \/ (flow[w].stage = 2 /\ flow[w].pc = "decide")
      BY <1>2 DEF Unreadable, Refused, KeepCovered, Reading, At
    <2>2. /\ Moves(w) /\ UNCHANGED <<desk, late>> /\ flow'[w].kind = "agenda"
          /\ Kept(w, {"covered", "gap"})
          /\ \/ flow'[w].pc = "report" /\ flow'[w].result.success = FALSE
             \/ flow'[w].pc = "seen" /\ Kept(w, {"stage", "merged", "earlier", "read", "at"})
      BY <2>1, KeepsReading
    <2>3. CASE flow'[w].pc = "report" /\ flow'[w].result.success = FALSE
      BY <2>1, <2>2, <2>3 DEF DayInv
    <2>4. CASE flow'[w].pc = "seen"
      <3>1. flow[w].stage = 2 /\ flow[w].pc = "decide"
        <4>1. Fails(w) => flow'[w].pc = "report"
          BY <2>1, FailsSteps DEF Working
        <4> QED
          BY <2>1, <2>4, <4>1
      <3> QED
        BY <2>1, <2>2, <3>1 DEF DayInv, Kept
    <2> QED
      BY <2>1, <2>2, <2>3, <2>4
  <1>3. CASE ReadCalendar(w)
    BY <1>3, ReadCalendarSteps, ReadingKeepsDay DEF Moves, Kept
  <1>4. CASE DismissOverlay(w)
    <2>1. /\ Run(w, "dismiss", 2) /\ flow[w].kind = "agenda" /\ flow[w].pc = "seen"
          /\ flow[w].read.obstructed
      BY <1>4 DEF DismissOverlay, Reading, At
    <2>2. /\ StepOf(w) /\ Deeper(w) /\ UNCHANGED <<desk, late>>
          /\ flow'[w].pc = "session" /\ flow'[w].stage = 2 /\ Kept(w, Lasting)
      BY <2>1, RunSteps DEF Level, Kept
    <2>3. /\ flow'[w].kind = "agenda" /\ flow'[w].covered = flow[w].covered
          /\ flow'[w].gap = flow[w].gap
      BY <2>1, <2>2 DEF Kept, Lasting
    <2> QED
      BY <2>1, <2>2, <2>3 DEF DayInv, Read, Moves
  <1>5. CASE Scrolls(w)
    <2>1. /\ StepOf(w) /\ Deeper(w) /\ UNCHANGED <<desk, late>>
          /\ flow[w].kind = "agenda" /\ flow[w].pc = "seen" /\ flow'[w].pc = "session"
          /\ flow'[w].stage > 2 /\ flow'[w].stage \in Nat
          /\ flow'[w].merged = Merged(w) /\ flow'[w].earlier = EarlierTruncated(w)
          /\ flow'[w].kind = flow[w].kind /\ flow'[w].read = flow[w].read
          /\ flow'[w].covered = flow[w].covered /\ flow'[w].gap = flow[w].gap
          /\ flow'[w].at = flow[w].at
      BY <1>5, ScrollsSteps DEF Kept, StepOf, FlowTypes
    <2>2. flow[w].read.items \subseteq Merged(w)
      BY DEF Merged
    <2>3. DayInv(w)'
      BY <2>1, <2>2 DEF DayInv, Read, DownTo
    <2> QED
      BY <2>1, <2>3 DEF Moves
  <1>6. CASE ScrollStopped(w)
    <2>1. /\ flow[w].kind = "agenda" /\ flow[w].pc = "decide" /\ flow[w].stage > 2
          /\ UNCHANGED <<lockVars, deskVars>> /\ (Fails(w) \/ Goto(w, [pc |-> "merged"]))
      BY <1>6 DEF ScrollStopped, Reading, At
    <2>2. /\ Moves(w) /\ UNCHANGED <<desk, late>> /\ flow'[w].kind = "agenda"
          /\ Kept(w, {"covered", "gap"})
          /\ \/ flow'[w].pc = "report" /\ flow'[w].result.success = FALSE
             \/ flow'[w].pc = "merged" /\ Kept(w, {"stage", "merged", "earlier", "read", "at"})
      BY <2>1, KeepsReading
    <2>3. CASE flow'[w].pc = "report" /\ flow'[w].result.success = FALSE
      BY <2>1, <2>2, <2>3 DEF DayInv
    <2>4. CASE flow'[w].pc = "merged" /\ Kept(w, {"stage", "merged", "earlier", "read", "at"})
      <3>1. /\ flow'[w].covered = flow[w].covered /\ flow'[w].gap = flow[w].gap
            /\ flow'[w].stage = flow[w].stage /\ flow'[w].merged = flow[w].merged
            /\ flow'[w].earlier = flow[w].earlier /\ flow'[w].read = flow[w].read
            /\ flow'[w].at = flow[w].at
        BY <2>2, <2>4 DEF Kept
      <3>2. flow[w].stage \in Nat /\ flow[w].stage # 1
        BY <2>1 DEF FlowTypes
      <3> QED
        BY <2>1, <2>2, <2>4, <3>1, <3>2 DEF DayInv, Read, DownTo
    <2> QED
      BY <2>1, <2>2, <2>3, <2>4
  <1>7. CASE ReportDay(w)
    <2>1. /\ StepOf(w) /\ Stays(w) /\ UNCHANGED <<desk, late>>
          /\ flow[w].kind = "agenda" /\ flow'[w].kind = "agenda" /\ flow'[w].pc = "report"
          /\ flow'[w].covered = flow[w].covered /\ flow'[w].gap = flow[w].gap
          /\ flow[w].pc \in {"seen", "merged"}
          /\ flow'[w].result.success =>
                /\ flow'[w].result.items = Merged(w)
                /\ ~flow'[w].result.flagged => ~flow[w].read.later /\ ~EarlierTruncated(w)
      BY <1>7, ReportDaySteps DEF Kept
    <2>2. ASSUME ~flow[w].covered, ~flow[w].gap
          PROVE  Read(w, Merged(w), EarlierTruncated(w))
      <3>1. CASE flow[w].pc = "seen"
        BY <2>1, <2>2, <3>1 DEF DayInv
      <3>2. CASE flow[w].pc = "merged"
        <4>1. flow[w].stage \in Nat /\ flow[w].stage # 0 /\ flow[w].stage # 2 /\ flow[w].stage # 1
          BY <2>1, <2>2, <3>2 DEF DayInv, FlowTypes
        <4>2. flow[w].stage > 2
          BY <4>1
        <4>3. Read(w, flow[w].merged, flow[w].earlier) /\ flow[w].read.items \subseteq flow[w].merged
          BY <2>1, <2>2, <3>2, <4>2 DEF DayInv
        <4>4. Merged(w) = flow[w].merged /\ EarlierTruncated(w) = flow[w].earlier
          BY <4>1, <4>2, <4>3 DEF Merged, EarlierTruncated
        <4> QED
          BY <4>3, <4>4
      <3> QED
        BY <2>1, <3>1, <3>2
    <2>3. ASSUME ~flow[w].covered, ~flow[w].gap, flow'[w].result.success, ~flow'[w].result.flagged
          PROVE  flow'[w].result.items = desk.day
      <3>1. /\ Merged(w) \subseteq desk.day /\ DownTo(flow[w].at) \subseteq Merged(w)
            /\ ~(flow[w].at + View <= Slots)
        BY <2>1, <2>2, <2>3 DEF Read
      <3>2. desk.day \subseteq DownTo(flow[w].at)
        BY <3>1, DayEnds DEF FlowTypes
      <3> QED
        BY <2>1, <2>3, <3>1, <3>2
    <2>4. flow'[w].result.success /\ ~flow'[w].result.flagged /\ ~flow'[w].covered /\ ~flow'[w].gap
             => flow'[w].result.items = desk'.day
      BY <2>1, <2>3
    <2>5. DayInv(w)'
      BY <2>1, <2>4 DEF DayInv
    <2> QED
      BY <2>1, <2>5 DEF Moves
  <1> QED
    BY <1>1, <1>2, <1>3, <1>4, <1>5, <1>6, <1>7 DEF AgendaStep

-----------------------------------------------------------------------------
\* The steps of the sessions.

\* An input that the policy allows on the screen as it is does no harm.
LEMMA HarmlessSends ==
    ASSUME desk \in Desks, NEW p \in Policies, NEW a \in Permitted[p][Scene(desk)], Send(a, FALSE)
    PROVE  /\ desk.over = "dialog" => desk'.over = "dialog"
           /\ p \in {"triage", "scroll"} /\ desk.app = "slack" => desk'.unread = desk.unread
           /\ p \in {"triage", "scroll"} /\ a.type = "click" /\ "channel" \in desk.unread =>
                 "channel" \in desk'.unread
           /\ p \in {"agenda", "scroll"} /\ a.type = "click" /\ desk'.app = "call" =>
                 desk.app = "call"
  <1>1. Scene(desk) \in Scenes /\ Scene(desk).over = desk.over /\ Scene(desk).app = desk.app
    BY DEF Scene, Scenes, Desks
  <1>2. /\ a \in Actions /\ ~Replies(a, Scene(desk))
        /\ p = "triage" /\ desk.app = "slack" => a = Key("Escape")
        /\ p = "triage" => a # Click("channel")
        /\ p \in {"agenda", "scroll"} => a # Click("join")
        /\ p = "scroll" => a.type = "scroll"
    BY <1>1, PermittedIsCautious
  <1>3. desk' = desk \/ desk' \in Effects(a, FALSE)
    BY DEF Send
  <1>4. CASE desk' = desk
    BY <1>4
  <1>5. CASE a.type = "click" /\ a.on \in Elements /\ \E e \in Hits(a.on, FALSE) : desk' = Clicked(e)
    <2>1. desk' = Clicked(a.on) /\ a.on \in Elements
      BY <1>5 DEF Hits
    <2>2. a = Click(a.on)
      <3>1. a \in {Click(e) : e \in Elements}
        BY <1>2, <1>5, ActionTypes DEF Actions
      <3> QED
        BY <3>1, ActionTypes
    <2>3. a.on \notin {"answer", "shutdown"}
      BY <1>2, <2>2 DEF Replies
    <2>4. /\ p = "triage" => a.on # "channel" /\ desk.app # "slack"
          /\ p = "agenda" => a.on # "join"
          /\ p # "scroll"
      BY <1>2, <1>5, <2>2, ActionTypes
    <2>5. /\ a.on # "channel" /\ "channel" \in desk.unread => "channel" \in desk'.unread
          /\ a.on # "join" /\ desk'.app = "call" => desk.app = "call"
          /\ desk.over = "dialog" => desk'.over = "dialog"
      BY <2>1, <2>3, ClickedDesk
    <2> QED
      BY <2>4, <2>5
  <1>6. CASE a = Key("Escape") /\ desk' = Escaped
    <2>1. desk.over # "dialog"
      BY <1>1, <1>2, <1>6 DEF Replies
    <2> QED
      BY <1>6, <2>1, EscapedDesk, ActionTypes
  <1>7. CASE a = Key("Enter")
    <2>1. desk.over # "dialog"
      BY <1>1, <1>2, <1>7 DEF Replies
    <2>2. a.type # "click" /\ a.type # "scroll" /\ a # Key("Escape")
      BY <1>7, ActionTypes DEF Key
    <2> QED
      BY <1>2, <2>1, <2>2
  <1>8. CASE a = Hotkey("switch") /\ \E app \in Apps \ {"call"} : desk' = Front(app)
    BY <1>8, FrontDesk, ActionTypes
  <1>9. CASE a = Scroll /\ \E t \in Reach : desk' = Scrolled(t)
    BY <1>9, ScrolledDesk, ActionTypes
  <1> QED
    BY <1>2, <1>3, <1>4, <1>5, <1>6, <1>7, <1>8, <1>9, EffectsAre


\* What a step leaves to the others: the day, and no new unread entry.
Leads(w) ==
    /\ StepOf(w) /\ (Deeper(w) \/ Higher(w) \/ Stays(w) \/ Drops(w))
    /\ Follows(desk') /\ late' \in Slow \cup {"none"}

LEMMA SessionsNote ==
    ASSUME TInv, NEW w \in Flows, flow[w].kind # "none",
           SessionLooks(w) \/ SessionActs(w) \/ SessionDrops(w) \/ Stopping(w)
    PROVE  /\ Leads(w)
           /\ flow[w].pc \in {"session", "planned"}
           /\ flow'[w].pc \in {"session", "planned", "decide"}
           /\ Kept(w, Lasting \cup {"goal", "stage"})
  <1> USE DEF TInv
  <1>0. UNCHANGED desk => Follows(desk')
    BY DEF Follows
  <1>1. CASE SessionLooks(w)
    BY <1>0, <1>1, LooksSteps DEF Leads, Kept
  <1>2. CASE SessionActs(w) \/ SessionDrops(w)
    <2>1. /\ StepOf(w) /\ Stays(w) /\ flow[w].pc = "planned" /\ flow'[w].pc = "session"
          /\ Kept(w, Lasting \cup {"goal", "stage"})
          /\ UNCHANGED <<desk, late, inputs>> \/ Sending(w)
      BY <1>2, ActsSteps DEF Kept
    <2>2. CASE Sending(w)
      <3>1. PICK a \in Proposals(w) : Send(a, flow[w].frame # desk)
        BY <2>2 DEF Sending
      <3>2. PolicyOf(w) \in Policies /\ Scene(flow[w].frame) \in Scenes
        BY <2>1 DEF FlowTypes, PolicyOf, Policies, Scene, Scenes, Desks
      <3>3. a \in Actions
        BY <3>1, <3>2, PermittedIsCautious DEF Proposals
      <3>4. late' \in Slow \cup {"none"}
        BY <3>1 DEF Send
      <3>5. (flow[w].frame # desk) \in BOOLEAN
        OBVIOUS
      <3>6. Follows(desk')
        BY <3>1, <3>3, <3>5, SentDesk
      <3> QED
        BY <2>1, <3>4, <3>6 DEF Leads
    <2> QED
      BY <1>0, <2>1, <2>2 DEF Leads
  <1>3. CASE Stopping(w)
    BY <1>0, <1>3, StoppingSteps DEF Leads, Kept
  <1> QED
    BY <1>1, <1>2, <1>3

\* The availability workflow's tracker and what a session proves.
LEMMA SessionsKeepAvailability ==
    ASSUME TInv, NEW w \in Flows, flow[w].kind = "availability", AvailabilityInv(w),
           SessionLooks(w) \/ SessionActs(w) \/ SessionDrops(w) \/ Stopping(w)
    PROVE  AvailabilityInv(w)'
  <1> USE DEF TInv
  <1>1. /\ flow[w].pc \in {"session", "planned"}
        /\ flow'[w].kind = "availability" /\ flow'[w].desired = flow[w].desired
        /\ flow'[w].earliest = flow[w].earliest
        /\ flow'[w].goal = flow[w].goal /\ flow'[w].stage = flow[w].stage
    BY SessionsNote DEF Kept, Lasting
  <1>2. /\ flow[w].shown = FirstObserved(w)
        /\ flow[w].goal \in {"read", Goal(w)} /\ (flow[w].stage # 3 => flow[w].goal = Goal(w))
        /\ Goal(w)' = Goal(w)
    BY <1>1 DEF AvailabilityInv, Goal
  <1>3. CASE SessionLooks(w)
    <2>1. /\ flow'[w].pc = "planned" /\ flow'[w].frame = desk /\ UNCHANGED <<desk, late>>
          /\ flow'[w].first = (IF flow[w].first = "none" THEN Evidence(desk) ELSE flow[w].first)
          /\ flow'[w].shown = (IF flow[w].shown = "none" THEN Evidence(desk) ELSE flow[w].shown)
          /\ Evidence(desk) # "none" => flow'[w].final = Evidence(desk)
          /\ flow'[w].sure = (late = "none")
      BY <1>1, <1>3, LooksSteps
    <2>2. Evidence(desk) \in {"none", desk.avail} /\ desk.avail \in Availabilities
      BY DEF Evidence, Desks
    <2>3. flow'[w].shown = FirstObserved(w)'
      BY <1>1, <1>2, <2>1 DEF FirstObserved
    <2>4. Evidence(desk) # "none" => flow'[w].shown # "none" /\ Still(w, Evidence(desk))'
      <3>1. Evidence(desk)' = Evidence(desk)
        BY <2>1 DEF Evidence
      <3> QED
        BY <2>1, <2>2, <3>1 DEF Still
    <2>5. Evidence(flow'[w].frame) = Evidence(desk)
      BY <2>1
    <2> QED
      BY <1>1, <1>2, <2>1, <2>2, <2>3, <2>4, <2>5 DEF AvailabilityInv, Still
  <1>4. CASE SessionActs(w) \/ SessionDrops(w)
    <2>1. /\ flow'[w].pc = "session" /\ flow'[w].shown = flow[w].shown
          /\ flow'[w].first = flow[w].first
      BY <1>1, <1>4, ActsSteps DEF Kept
    <2>2. flow'[w].shown = FirstObserved(w)'
      BY <1>1, <1>2, <2>1 DEF FirstObserved
    <2> QED
      BY <1>1, <1>2, <2>1, <2>2 DEF AvailabilityInv
  <1>5. CASE Stopping(w)
    <2>1. /\ flow'[w].pc = "decide" /\ UNCHANGED <<desk, late>>
          /\ flow'[w].shown = flow[w].shown /\ flow'[w].first = flow[w].first
          /\ flow'[w].final = flow[w].final /\ flow'[w].sure = flow[w].sure
          /\ flow'[w].stop = "completed" => flow[w].pc = "planned" /\ Validated(w)
      BY <1>1, <1>5, StoppingSteps DEF Kept
    <2>2. flow'[w].shown = FirstObserved(w)'
      BY <1>1, <1>2, <2>1 DEF FirstObserved
    <2>3. ASSUME flow'[w].stop = "completed"
          PROVE  /\ flow'[w].final \in Availabilities /\ flow'[w].goal \in {"read", flow'[w].final}
                 /\ flow'[w].shown # "none"
                 /\ flow'[w].sure => late' = "none" /\ flow'[w].final = desk'.avail
      <3>1. PICK seen : seen = Evidence(flow[w].frame)
        OBVIOUS
      <3>2. /\ seen \in Availabilities \cup {"none"}
            /\ seen # "none" => seen = flow[w].final /\ flow[w].shown # "none" /\ Still(w, seen)
        BY <1>1, <2>1, <2>3, <3>1 DEF AvailabilityInv
      <3>3. flow[w].goal \in Availabilities \cup {"read"}
        BY <1>1, <1>2 DEF Goal, FlowTypes
      <3>4. seen \in Availabilities /\ flow[w].goal \in {"read", seen}
        BY <2>1, <2>3, <3>1, <3>3 DEF Validated
      <3>5. seen # "none"
        BY <3>4 DEF Availabilities
      <3> QED
        BY <1>1, <2>1, <3>2, <3>4, <3>5 DEF Still
    <2> QED
      BY <1>1, <1>2, <2>1, <2>2, <2>3 DEF AvailabilityInv, Still
  <1> QED
    BY <1>3, <1>4, <1>5

\* The reads of the other two are not a session's.
LEMMA SessionsKeepReads ==
    ASSUME TInv, NEW w \in Flows, flow[w].kind # "none", TriageInv(w), DayInv(w),
           SessionLooks(w) \/ SessionActs(w) \/ SessionDrops(w) \/ Stopping(w)
    PROVE  TriageInv(w)' /\ DayInv(w)'
  <1>1. /\ flow[w].pc \in {"session", "planned"}
        /\ flow'[w].pc \in {"session", "planned", "decide"}
        /\ flow'[w].kind = flow[w].kind /\ flow'[w].stage = flow[w].stage
        /\ flow'[w].read = flow[w].read /\ flow'[w].merged = flow[w].merged
        /\ flow'[w].earlier = flow[w].earlier /\ flow'[w].covered = flow[w].covered
        /\ flow'[w].gap = flow[w].gap /\ flow'[w].at = flow[w].at
        /\ desk'.day = desk.day
    BY SessionsNote DEF Kept, Lasting, Leads, Follows
  <1>2. TriageInv(w)'
    BY <1>1 DEF TriageInv
  <1>3. DayInv(w)'
    BY <1>1 DEF DayInv, Read, DownTo
  <1> QED
    BY <1>2, <1>3

-----------------------------------------------------------------------------
\* The steps of the whole workstation.

\* A workflow's step keeps what it noted; before it has the lease it touches nothing.
Advances(w) ==
    /\ Leads(w) /\ WorkInv(w)'
    /\ Working(w) \/ UNCHANGED <<desk, late>>

LEMMA Advancing ==
    ASSUME TInv, NEW w \in Flows, WorkInv(w), Start(w) \/ Step(w) \/ Dies(w)
    PROVE  Advances(w)
  <1> USE DEF TInv
  <1>0. /\ UNCHANGED desk => Follows(desk')
        /\ UNCHANGED late => late' \in Slow \cup {"none"}
        /\ flow[w].kind # "none" => Working(w)
    BY DEF Follows, FlowTypes, Working
  <1>1. CASE Start(w)
    <2>1. StepOf(w) /\ Stays(w) /\ UNCHANGED <<desk, late>> /\ flow'[w].kind = "none"
      BY <1>1, StartSteps
    <2> QED
      BY <1>0, <2>1 DEF Advances, Leads, WorkInv, AvailabilityInv, TriageInv, DayInv
  <1>2. CASE Acquire(w)
    <2>1. StepOf(w) /\ Deeper(w) /\ UNCHANGED <<desk, late>> /\ flow'[w].pc = "main"
      BY <1>2, AcquireSteps
    <2> QED
      BY <1>0, <2>1 DEF Advances, Leads, WorkInv, AvailabilityInv, TriageInv, DayInv
  <1>3. CASE LockBusy(w) \/ Finish(w) \/ Dies(w)
    <2>1. /\ StepOf(w) /\ (Stays(w) \/ Higher(w) \/ Drops(w))
          /\ UNCHANGED <<desk, late>> /\ flow'[w].kind = "none"
      BY <1>3, IdleSteps
    <2> QED
      BY <1>0, <2>1 DEF Advances, Leads, WorkInv, AvailabilityInv, TriageInv, DayInv
  <1>4. CASE SessionLooks(w) \/ SessionActs(w) \/ SessionDrops(w) \/ Stopping(w)
    <2>1. flow[w].kind # "none" /\ Working(w)
      BY <1>4 DEF SessionLooks, SessionActs, SessionDrops, Stopping, SessionCompletes,
         SessionBlocked, SessionStops, SessionUnverified, SessionRaises, FlowTypes, Working
    <2>2. /\ Leads(w) /\ flow'[w].kind = flow[w].kind
      BY <1>4, <2>1, SessionsNote DEF Kept, Lasting
    <2>3. AvailabilityInv(w)'
      <3>1. CASE flow[w].kind = "availability"
        BY <1>4, <3>1, SessionsKeepAvailability DEF WorkInv
      <3>2. CASE flow[w].kind # "availability"
        BY <2>2, <3>2 DEF AvailabilityInv
      <3> QED
        BY <3>1, <3>2
    <2>4. TriageInv(w)' /\ DayInv(w)'
      BY <1>4, <2>1, SessionsKeepReads DEF WorkInv
    <2> QED
      BY <2>1, <2>2, <2>3, <2>4 DEF Advances, WorkInv
  <1>5. CASE AvailabilityStep(w)
    <2>1. /\ Moves(w) /\ Follows(desk') /\ UNCHANGED late
          /\ flow[w].kind = "availability" /\ flow'[w].kind = "availability"
          /\ AvailabilityInv(w)'
      BY <1>5, AvailabilitySteps DEF WorkInv
    <2> QED
      BY <1>0, <2>1 DEF Advances, Leads, Moves, WorkInv, TriageInv, DayInv
  <1>6. CASE TriageStep(w)
    <2>1. /\ Moves(w) /\ UNCHANGED <<desk, late>>
          /\ flow[w].kind = "triage" /\ flow'[w].kind = "triage" /\ TriageInv(w)'
      BY <1>6, TriageSteps DEF WorkInv
    <2> QED
      BY <1>0, <2>1 DEF Advances, Leads, Moves, WorkInv, AvailabilityInv, DayInv
  <1>7. CASE AgendaStep(w)
    <2>1. /\ Moves(w) /\ UNCHANGED <<desk, late>>
          /\ flow[w].kind = "agenda" /\ flow'[w].kind = "agenda" /\ DayInv(w)'
      BY <1>7, AgendaSteps DEF WorkInv
    <2> QED
      BY <1>0, <2>1 DEF Advances, Leads, Moves, WorkInv, AvailabilityInv, TriageInv
  <1> QED
    BY <1>1, <1>2, <1>3, <1>4, <1>5, <1>6, <1>7 DEF Step, Session, Stopping

\* A workflow that does not step keeps its invariants when the others, the probe or the
\* desktop itself do.
LEMMA Apart ==
    ASSUME FlowTypes, NEW v \in Flows, flow'[v] = flow[v], WorkInv(v), Follows(desk'),
           Working(v) /\ late = "none" => late' = "none" /\ desk'.avail = desk.avail
    PROVE  WorkInv(v)'
  <1>1. CASE Working(v)
    <2>1. AvailabilityInv(v)'
      BY <1>1 DEF WorkInv, AvailabilityInv, Told, FirstObserved, Goal, Still
    <2>2. TriageInv(v)'
      BY DEF WorkInv, TriageInv, Quiet, Follows
    <2>3. DayInv(v)'
      BY DEF WorkInv, DayInv, Read, DownTo, Merged, EarlierTruncated, Follows
    <2> QED
      BY <2>1, <2>2, <2>3 DEF WorkInv
  <1>2. CASE ~Working(v)
    BY <1>2 DEF Working, FlowTypes, WorkInv, AvailabilityInv, TriageInv, DayInv
  <1> QED
    BY <1>1, <1>2

\* Only one workflow at a time is past its wait for the lease.
LEMMA OneAtWork ==
    ASSUME LeaseInv, NEW v \in Flows, NEW w \in Flows, Working(v), Working(w)
    PROVE  v = w
  <1>1. Level(flow[v].pc) > 0 /\ Level(flow[w].pc) > 0
    BY DEF Working, Level
  <1> QED
    BY <1>1 DEF LeaseInv

\* Inputs are counted, and a session's alone.
LEMMA Counted ==
    ASSUME Next
    PROVE  inputs' = inputs \/ (inputs' = inputs + 1 /\ \E w \in Flows : SessionActs(w))
  <1>1. ASSUME NEW w \in Flows, Session(w)
        PROVE  inputs' = inputs \/ (inputs' = inputs + 1 /\ SessionActs(w))
    BY <1>1 DEF Session, SessionLooks, SessionActs, SessionDrops, SessionCompletes, SessionBlocked,
       SessionStops, SessionUnverified, SessionRaises, Ends, deskVars
  <1>2. ASSUME NEW w \in Flows, AvailabilityStep(w) PROVE inputs' = inputs
    BY <1>2 DEF AvailabilityStep, MainSession, Run, Recover, Verify, Again, Conclude, CloseMenu,
       NoMenu, deskVars
  <1>3. ASSUME NEW w \in Flows, TriageStep(w) PROVE inputs' = inputs
    BY <1>3 DEF TriageStep, Foreground, Run, NotInFront, ReadSidebar, Dismiss, KeepRead,
       ReportTriage, deskVars
  <1>4. ASSUME NEW w \in Flows, AgendaStep(w) PROVE inputs' = inputs
    BY <1>4 DEF AgendaStep, ForegroundCalendar, Run, Unreadable, ReadCalendar, DismissOverlay,
       KeepCovered, Refused, Scrolls, ScrollStopped, ReportDay, deskVars
  <1>5. ASSUME NEW w \in Flows, Start(w) \/ Acquire(w) \/ LockBusy(w) \/ Finish(w) \/ Dies(w)
        PROVE  inputs' = inputs
    BY <1>5 DEF Start, Acquire, LockBusy, Finish, Dies, deskVars
  <1>6. Desktop \/ Probe => inputs' = inputs
    BY DEF Desktop, React, PopUp, Vanish, Probe, deskVars
  <1> QED
    BY <1>1, <1>2, <1>3, <1>4, <1>5, <1>6 DEF Next, Starts, Kill, Step


LEMMA Initially ==
    ASSUME Init
    PROVE  IInv
  <1>1. /\ flow = [w \in Flows |-> Idle] /\ \A w \in Flows : flow[w] = Idle
    BY DEF Init, FlowInit
  <1>2. /\ DOMAIN Idle = Fields /\ Idle.kind = "none" /\ Idle.pc = "idle" /\ Idle.desired = "none"
        /\ Idle.stage = 0 /\ Idle.at = 1 /\ Fresh(Idle)
    BY FieldsAre DEF Idle, Fresh
  <1> HIDE DEF Idle
  <1>3. FlowTypes
    BY <1>1, <1>2 DEF FlowTypes, Labels
  <1>4. desk \in Desks /\ late \in Slow \cup {"none"} /\ inputs \in Nat
    BY DesktopAssumption DEF Init, DeskInit, Desks, Covers
  <1>5. LeaseInv
    BY <1>1, <1>2, LockAssumption DEF Init, LockInit, LeaseInv, Level
  <1>6. \A w \in Flows : WorkInv(w)
    BY <1>1, <1>2 DEF WorkInv, AvailabilityInv, TriageInv, DayInv
  <1> QED
    BY <1>3, <1>4, <1>5, <1>6 DEF IInv, TInv

\* A step of the probe or of the desktop itself.
LEMMA Surroundings ==
    ASSUME TInv, inputs' \in Nat,
           Probe \/ (Desktop /\ UNCHANGED <<lease, depth, flow>>)
    PROVE  /\ TInv' /\ UNCHANGED flow /\ Follows(desk')
           /\ late = "none" => late' = "none" /\ desk'.avail = desk.avail
  <1>1. CASE Probe
    <2>1. LeaseInv'
      BY <1>1, LockAssumption DEF Probe, ProbeTakes, ProbeLeaves, TInv, LeaseInv
    <2> QED
      BY <1>1, <2>1 DEF Probe, deskVars, TInv, FlowTypes, Follows
  <1>2. CASE Desktop /\ UNCHANGED <<lease, depth, flow>>
    <2>1. /\ Follows(desk')
          /\ late = "none" => late' = "none" /\ desk'.avail = desk.avail
      BY <1>2, DesktopSteps DEF TInv
    <2>2. late' \in Slow \cup {"none"}
      BY <1>2 DEF TInv, Desktop, React, PopUp, Vanish
    <2> QED
      BY <1>2, <2>1, <2>2 DEF TInv, FlowTypes, LeaseInv, Follows
  <1> QED
    BY <1>1, <1>2

LEMMA Steps ==
    ASSUME IInv, [Next]_vars
    PROVE  IInv'
  <1> USE DEF IInv
  <1>1. CASE UNCHANGED vars
    <2>1. UNCHANGED <<lease, depth, desk, late, inputs, flow>>
      BY <1>1 DEF vars
    <2>2. TInv'
      BY <2>1 DEF TInv, FlowTypes, LeaseInv
    <2>3. FlowTypes /\ Follows(desk')
      BY <2>1 DEF TInv, Follows
    <2>4. ASSUME NEW v \in Flows PROVE WorkInv(v)'
      BY <2>1, <2>3, Apart
    <2> QED
      BY <2>2, <2>4
  <1>2. CASE Next
    <2>0. inputs' \in Nat
      BY <1>2, Counted DEF TInv
    <2>1. CASE \E w \in Flows : Start(w) \/ Step(w) \/ Dies(w)
      <3>1. PICK w \in Flows : Advances(w)
        BY <2>1, Advancing
      <3>2. /\ StepOf(w) /\ LeaseInv' /\ Follows(desk') /\ late' \in Slow \cup {"none"}
        BY <3>1, LevelsKeepLease DEF Advances, Leads
      <3>3. TInv'
        BY <2>0, <3>2 DEF TInv, StepOf, Follows
      <3>4. ASSUME NEW v \in Flows, v # w PROVE WorkInv(v)'
        <4>1. flow'[v] = flow[v] /\ FlowTypes
          BY <3>2, <3>4 DEF StepOf, TInv
        <4>2. Working(v) => UNCHANGED <<desk, late>>
          BY <3>1, <3>4, OneAtWork DEF TInv, Advances
        <4> QED
          BY <3>2, <4>1, <4>2, Apart
      <3>5. WorkInv(w)'
        BY <3>1 DEF Advances
      <3> QED
        BY <3>3, <3>4, <3>5
    <2>2. CASE Probe \/ (Desktop /\ UNCHANGED <<lease, depth, flow>>)
      <3>1. /\ TInv' /\ UNCHANGED flow /\ Follows(desk')
            /\ late = "none" => late' = "none" /\ desk'.avail = desk.avail
        BY <2>0, <2>2, Surroundings
      <3>2. ASSUME NEW v \in Flows PROVE WorkInv(v)'
        BY <3>1, Apart DEF TInv
      <3> QED
        BY <3>1, <3>2
    <2> QED
      BY <1>2, <2>1, <2>2 DEF Next, Starts, Kill
  <1> QED
    BY <1>1, <1>2

\* In every reachable state the records are well-formed, the lease belongs to whoever
\* is past the wait for it, and what each workflow noted is so: with a planner that
\* proposes anything the policies allow, inputs that get lost, hit something else or
\* take effect late, and a desktop that changes by itself at any moment.
THEOREM WorkIsSound == Spec => []IInv
  <1>1. Init => IInv
    BY Initially
  <1>2. IInv /\ [Next]_vars => IInv'
    BY Steps
  <1> QED
    BY <1>1, <1>2, PTL DEF Spec

\* A workflow holds the lease from its first session to its last Escape, however many
\* sessions it enters and leaves in between (agent/lock.py, the depth of
\* ControllerLock, and slack/agent_operator.py:60-61).
THEOREM LeaseIsKeptHolds == Spec => []LeaseIsKept
  <1>1. IInv => LeaseIsKept
    BY DEF IInv, TInv, LeaseInv, Level, LeaseIsKept, Held
  <1> QED
    BY <1>1, WorkIsSound, PTL

\* An availability run's success tells the wanted state, the one Slack showed at the
\* last look, and compares it with the one it showed first, for any number of
\* workflows, inputs, late clicks and kills (slack/agent_operator.py).
THEOREM ReportIsTrueHolds == Spec => []ReportIsTrue
  <1>1. IInv => ReportIsTrue
    BY DEF IInv, WorkInv, AvailabilityInv, Told, Still, ReportIsTrue
  <1> QED
    BY <1>1, WorkIsSound, PTL

\* A triage that reports nothing unread saw a quiet sidebar, whatever came up over it
\* and whenever (slack/triage_operator.py:98-151).
THEOREM QuietMeansQuietHolds == Spec => []QuietMeansQuiet
  <1>1. IInv => QuietMeansQuiet
    BY DEF IInv, WorkInv, TriageInv, Quiet, QuietMeansQuiet
  <1> QED
    BY <1>1, WorkIsSound, PTL

\* A day reported unclipped and uncovered is the whole day if none of its reads was
\* covered and no scroll jumped over more than a screenful, for any length of the day
\* and of the scrolls, empty stretches included (agenda/operator.py:200-262).
THEOREM DayIsCompleteHolds == Spec => []DayIsComplete
  <1>1. IInv => DayIsComplete
    BY DEF IInv, WorkInv, DayInv, DayIsComplete
  <1> QED
    BY <1>1, WorkIsSound, PTL

\* On a screen that is still as it was analysed, no planner gets a session to answer a
\* system dialog, a triage to open anything in Slack in front or to click a channel
\* behind it, or an agenda run to click into a call (agent/policy.py:211-231,
\* slack/triage_policy.py, agenda/policy.py).
THEOREM SessionsDoNoHarmHolds == Spec => SessionsDoNoHarm
  <1> DEFINE Harmless(w) ==
        LET clicks == flow'[w].sent = "click" IN
        /\ desk.over = "dialog" => desk'.over = "dialog"
        /\ flow[w].kind = "triage" /\ desk.app = "slack" => desk'.unread = desk.unread
        /\ flow[w].kind = "triage" /\ clicks /\ "channel" \in desk.unread =>
              "channel" \in desk'.unread
        /\ flow[w].kind = "agenda" /\ clicks /\ desk'.app = "call" => desk.app = "call"
  <1>1. ASSUME IInv, Next, NEW w \in Flows, Current(w), inputs' > inputs
        PROVE  Harmless(w)
    <2>1. inputs \in Nat /\ FlowTypes /\ desk \in Desks /\ LeaseInv
      BY <1>1 DEF IInv, TInv
    <2>2. PICK v \in Flows : SessionActs(v)
      BY <1>1, <2>1, Counted
    <2>3. v = w
      <3>1. Working(v) /\ Working(w)
        BY <1>1, <2>2 DEF SessionActs, Current, Working
      <3> QED
        BY <2>1, <3>1, OneAtWork
    <2>4. flow[w].frame = desk /\ flow[w].pc = "planned" /\ flow[w].kind \in Kinds
      BY <1>1, <2>1 DEF Current, FlowTypes
    <2>5. UNCHANGED <<desk, late, inputs>> \/ Sending(w)
      BY <2>1, <2>2, <2>3, <2>4, ActsSteps DEF Kinds
    <2>6. Sending(w)
      BY <1>1, <2>1, <2>5
    <2>7. PICK a \in Proposals(w) : Send(a, flow[w].frame # desk) /\ flow'[w].sent = a.type
      BY <2>6 DEF Sending
    <2>8. Send(a, FALSE)
      <3>1. (flow[w].frame # desk) = FALSE
        BY <2>4
      <3> QED
        BY <2>7, <3>1
    <2>9. PICK p \in Policies : p = PolicyOf(w)
      BY <2>4 DEF PolicyOf, Policies
    <2>10. a \in Permitted[p][Scene(desk)]
      BY <2>4, <2>7, <2>9 DEF Proposals
    <2>11. /\ desk.over = "dialog" => desk'.over = "dialog"
           /\ p \in {"triage", "scroll"} /\ desk.app = "slack" => desk'.unread = desk.unread
           /\ p \in {"triage", "scroll"} /\ a.type = "click" /\ "channel" \in desk.unread =>
                 "channel" \in desk'.unread
           /\ p \in {"agenda", "scroll"} /\ a.type = "click" /\ desk'.app = "call" =>
                 desk.app = "call"
      BY <2>1, <2>8, <2>10, HarmlessSends
    <2>12. p \in {flow[w].kind, "scroll"}
      BY <2>9 DEF PolicyOf
    <2> QED
      BY <2>7, <2>11, <2>12
  <1>2. IInv /\ [Next]_vars =>
           [\A w \in Flows : Current(w) /\ inputs' > inputs => Harmless(w)]_vars
    BY <1>1
  <1> QED
    BY <1>2, WorkIsSound, PTL DEF Spec, SessionsDoNoHarm
================================================================================
