-------------------------- MODULE HidTransportProofs --------------------------
(***************************************************************************)
(* Theorems about HidTransport for every value of its constants: type      *)
(* correctness and the refinement of HidDelivery.                          *)
(***************************************************************************)
EXTENDS HidTransport, TLAPS

Given(a, k) == Delivery!Delivered(a, k)

InCall == pc \notin {"idle", "closed"}

\* A request under way has not been acted on, all earlier ones of its action
\* have, and its action is in progress or was reported as uncertain.
WireOK ==
    /\ \A r \in wire :
          /\ r.action \in DOMAIN parts
          /\ r.part \in 1..parts[r.action]
          /\ r.action \in DOMAIN reports => reports[r.action] = "uncertain"
          /\ ~Given(r.action, r.part)
          /\ \A j \in 1..r.part - 1 : Given(r.action, j)
    /\ \A r, q \in wire : r.action = q.action => r = q

AppliedOK == \A i \in DOMAIN applied : applied[i].action \in DOMAIN parts

\* The request the client is at: what came before it has been acted on, nothing
\* after it, and of it exactly what the answer tells.
HidCallOK ==
    (InCall /\ call.kind = "hid") =>
        /\ Len(parts) = Len(reports) + 1
        /\ call.part \in 1..parts[Len(parts)]
        /\ \A j \in 1..call.part - 1 : Given(Len(parts), j)
        /\ \A i \in DOMAIN applied :
              applied[i].action = Len(parts) => applied[i].part <= call.part
        /\ pc # "wait" => /\ ~Given(Len(parts), call.part)
                          /\ \A r \in wire : r.action # Len(parts)
        /\ pc = "wait" =>
              /\ \A r \in wire : r.action = Len(parts) => answer = None /\ r = Request
              /\ answer = "ok" => Given(Len(parts), call.part)
              /\ answer = "unauthorized" => ~Given(Len(parts), call.part)

QuietOK ==
    /\ pc = "idle" \/ (InCall /\ call.kind = "shot") => Len(parts) = Len(reports)
    /\ Len(reports) <= Len(parts)
    /\ pc # "wait" => answer = None

IInv == TypeOK /\ WireOK /\ AppliedOK /\ HidCallOK /\ QuietOK

-----------------------------------------------------------------------------
\* What another request acted on changes.

LEMMA AppendGives ==
    ASSUME NEW a \in Nat, NEW k \in Nat,
           applied \in Seq([action : Nat, part : Nat]),
           applied' = Append(applied, [action |-> a, part |-> k])
    PROVE  /\ applied' \in Seq([action : Nat, part : Nat])
           /\ DOMAIN applied' = DOMAIN applied \cup {Len(applied) + 1}
           /\ applied'[Len(applied) + 1] = [action |-> a, part |-> k]
           /\ \A i \in DOMAIN applied : applied'[i] = applied[i]
           /\ \A b, j : Given(b, j)' <=> (Given(b, j) \/ (b = a /\ j = k))
  <1> DEFINE e == [action |-> a, part |-> k]
  <1>1. e \in [action : Nat, part : Nat] /\ applied' = Append(applied, e)
    OBVIOUS
  <1>2. \A b, j : [action |-> b, part |-> j] = e <=> (b = a /\ j = k)
    OBVIOUS
  <1> HIDE DEF e
  <1>3. /\ applied' \in Seq([action : Nat, part : Nat])
        /\ DOMAIN applied' = DOMAIN applied \cup {Len(applied) + 1}
        /\ applied'[Len(applied) + 1] = e
        /\ \A i \in DOMAIN applied : applied'[i] = applied[i]
    BY <1>1
  <1>4. \A b, j : Given(b, j)' <=> (Given(b, j) \/ (b = a /\ j = k))
    BY <1>2, <1>3 DEF Given, Delivery!Delivered
  <1> QED
    BY <1>3, <1>4 DEF e

\* Nothing of an action that has not begun has been acted on.
LEMMA NothingAhead ==
    ASSUME IInv
    PROVE  \A k : ~Given(Len(parts) + 1, k)
  BY DEF IInv, TypeOK, AppliedOK, Given, Delivery!Delivered

-----------------------------------------------------------------------------
\* Steps of the client that neither send, report nor begin an action.

Shared == <<wire, parts, reports, applied>>

LEMMA SharedKept ==
    ASSUME WireOK, AppliedOK, UNCHANGED Shared
    PROVE  WireOK' /\ AppliedOK' /\ (\A b, j : Given(b, j)' <=> Given(b, j))
  BY DEF WireOK, AppliedOK, Shared, Given, Delivery!Delivered

\* A screenshot goes on or returns.
ShotMoves ==
    /\ InCall /\ call.kind = "shot"
    /\ UNCHANGED Shared
    /\ authenticated' \in BOOLEAN
    /\ \/ pc' = "idle" /\ call' = None
       \/ pc' \in {"login", "loginwait", "send", "wait"} /\ call' \in Calls /\ call'.kind = "shot"
    /\ answer' = None

LEMMA ShotKeepsIInv ==
    ASSUME IInv, ShotMoves
    PROVE  IInv'
  <1>1. WireOK' /\ AppliedOK'
    BY SharedKept DEF IInv, ShotMoves
  <1>2. TypeOK'
    BY DEF IInv, TypeOK, ShotMoves, Shared
  <1>3. HidCallOK'
    BY DEF HidCallOK, InCall, ShotMoves
  <1>4. QuietOK'
    BY DEF IInv, QuietOK, ShotMoves, Shared, InCall
  <1> QED
    BY <1>1, <1>2, <1>3, <1>4 DEF IInv

\* An action's request is about to be sent, for the first time or once more.
HidMoves ==
    /\ InCall /\ call.kind = "hid"
    /\ UNCHANGED Shared
    /\ authenticated' \in BOOLEAN
    /\ pc' \in {"login", "loginwait", "send"}
    /\ call' \in Calls /\ call'.kind = "hid" /\ call'.part = call.part
    /\ answer' = None
    /\ pc # "wait" \/ answer = "unauthorized"

LEMMA HidKeepsIInv ==
    ASSUME IInv, HidMoves
    PROVE  IInv'
  <1>1. /\ WireOK' /\ AppliedOK' /\ (\A b, j : Given(b, j)' <=> Given(b, j))
    BY SharedKept DEF IInv, HidMoves
  <1>2. TypeOK'
    BY DEF IInv, TypeOK, HidMoves, Shared
  <1>3. HidCallOK'
    <2>1. ~Given(Len(parts), call.part) /\ \A r \in wire : r.action # Len(parts)
      BY TransportAssumption DEF IInv, HidCallOK, HidMoves, InCall, TypeOK, Answers
    <2> QED
      BY <2>1, <1>1 DEF IInv, HidCallOK, HidMoves, Shared, InCall
  <1>4. QuietOK'
    BY DEF IInv, QuietOK, HidMoves, Shared, InCall
  <1> QED
    BY <1>1, <1>2, <1>3, <1>4 DEF IInv

\* The action's next request is begun when the last one is acknowledged.
LEMMA NextKeepsIInv ==
    ASSUME IInv, NextRequest
    PROVE  IInv'
  <1>1. /\ pc = "wait" /\ answer = "ok" /\ call.kind = "hid" /\ InCall /\ UNCHANGED Shared
        /\ call.part < parts[Len(parts)] /\ pc' = "login" /\ answer' = None
        /\ call \in Calls /\ call.part \in Nat
    BY DEF NextRequest, Arrives, InCall, IInv, TypeOK, Shared, Calls
  <1>2. /\ WireOK' /\ AppliedOK' /\ (\A b, j : Given(b, j)' <=> Given(b, j))
    BY <1>1, SharedKept DEF IInv
  <1>3. call' \in Calls /\ call'.kind = "hid" /\ call'.part = call.part + 1
    <2>1. call' = [kind |-> "hid", part |-> call.part + 1, attempt |-> 1,
                   repeated |-> FALSE, refreshed |-> FALSE]
      BY DEF NextRequest, NewCall
    <2> QED
      BY <2>1, <1>1, TransportAssumption DEF Calls
  <1>4. TypeOK'
    BY <1>1, <1>3 DEF IInv, TypeOK, NextRequest, Shared
  <1>5. Len(parts) = Len(reports) + 1 /\ parts[Len(parts)] \in Nat /\ Len(parts) \in Nat
    <2>1. Len(parts) = Len(reports) + 1 /\ Len(parts) \in Nat /\ Len(reports) \in Nat
      BY <1>1 DEF IInv, HidCallOK, TypeOK
    <2>2. Len(parts) \in DOMAIN parts /\ parts \in Seq(Shapes)
      BY <2>1 DEF IInv, TypeOK
    <2>3. parts[Len(parts)] \in Shapes
      BY <2>2
    <2> QED
      BY <2>1, <2>3, TransportAssumption
  <1>6. HidCallOK'
    <2>0. \A i \in DOMAIN applied : applied[i].action \in Nat /\ applied[i].part \in Nat
      <3> DEFINE R == [action : Nat, part : Nat]
      <3>1. applied \in Seq(R)
        BY DEF IInv, TypeOK
      <3>2. \A e \in R : e.action \in Nat /\ e.part \in Nat
        OBVIOUS
      <3> HIDE DEF R
      <3>3. \A i \in DOMAIN applied : applied[i] \in R
        BY <3>1
      <3> QED
        BY <3>2, <3>3
    <2>1. \A j \in 1..call'.part - 1 : Given(Len(parts), j)
      BY <1>1, <1>3 DEF IInv, HidCallOK
    <2>2. ~Given(Len(parts), call'.part)
      <3>1. \A i \in DOMAIN applied : applied[i].action = Len(parts) => applied[i].part <= call.part
        BY <1>1 DEF IInv, HidCallOK
      <3> QED
        BY <3>1, <2>0, <1>1, <1>3 DEF Given, Delivery!Delivered
    <2>3. \A r \in wire : r.action # Len(parts)
      BY <1>1, TransportAssumption DEF IInv, HidCallOK, Answers
    <2>4. call'.part \in 1..parts[Len(parts)]
      BY <1>1, <1>3, <1>5
    <2>5. \A i \in DOMAIN applied : applied[i].action = Len(parts) => applied[i].part <= call'.part
      BY <2>0, <1>1, <1>3 DEF IInv, HidCallOK
    <2> QED
      BY <1>1, <1>2, <1>3, <1>5, <2>1, <2>2, <2>3, <2>4, <2>5 DEF HidCallOK, Shared
  <1>7. QuietOK'
    BY <1>1, <1>3, <1>5 DEF IInv, QuietOK, Shared, InCall
  <1> QED
    BY <1>2, <1>4, <1>6, <1>7 DEF IInv

-----------------------------------------------------------------------------
\* An action's report.

LEMMA ConcludeKeepsIInv ==
    ASSUME IInv, InCall, NEW status \in {"sent", "uncertain", "failed"},
           Conclude(status), UNCHANGED <<wire, parts, applied>>,
           status # "uncertain" => \A r \in wire : r.action # Len(parts)
    PROVE  IInv'
  <1>1. /\ Len(parts) = Len(reports) + 1 /\ Len(reports) \in Nat
        /\ reports \in Seq({"sent", "uncertain", "failed"})
    BY DEF IInv, HidCallOK, TypeOK, Conclude
  <1>2. /\ reports' = Append(reports, status) /\ pc' = "idle" /\ call' = None /\ answer' = None
        /\ UNCHANGED authenticated
    BY DEF Conclude, Return
  <1>3. /\ reports' \in Seq({"sent", "uncertain", "failed"}) /\ Len(reports') = Len(parts)
        /\ DOMAIN reports' = DOMAIN reports \cup {Len(parts)}
        /\ reports'[Len(parts)] = status
        /\ \A a \in DOMAIN reports : reports'[a] = reports[a]
    BY <1>1, <1>2
  <1>4. \A b, j : Given(b, j)' <=> Given(b, j)
    BY DEF Given, Delivery!Delivered
  <1>5. TypeOK'
    BY <1>2, <1>3 DEF IInv, TypeOK
  <1>6. WireOK'
    BY <1>3, <1>4 DEF IInv, WireOK
  <1>7. AppliedOK'
    BY DEF IInv, AppliedOK
  <1>8. HidCallOK' /\ QuietOK'
    BY <1>2, <1>3 DEF HidCallOK, QuietOK, InCall
  <1> QED
    BY <1>5, <1>6, <1>7, <1>8 DEF IInv

-----------------------------------------------------------------------------
\* Beginning an action.

LEMMA ExecuteKeepsIInv ==
    ASSUME IInv, NEW n \in Shapes, Execute(n) \/ Unsendable(n)
    PROVE  IInv'
  <1>1. /\ pc = "idle" /\ parts' = Append(parts, n) /\ parts \in Seq(Shapes)
        /\ Len(parts) = Len(reports) /\ Len(parts) \in Nat /\ n \in Nat \ {0}
        /\ UNCHANGED <<authenticated, answer, wire, applied>> /\ answer = None
    <2>1. /\ pc = "idle" /\ parts' = Append(parts, n)
          /\ UNCHANGED <<authenticated, answer, wire, applied>>
      BY DEF Execute, Unsendable
    <2>2. parts \in Seq(Shapes) /\ Len(parts) \in Nat
      BY DEF IInv, TypeOK
    <2>3. Len(parts) = Len(reports) /\ answer = None
      BY <2>1 DEF IInv, QuietOK
    <2> QED
      BY <2>1, <2>2, <2>3, TransportAssumption
  <1>2. /\ parts' \in Seq(Shapes) /\ Len(parts') = Len(parts) + 1
        /\ DOMAIN parts' = DOMAIN parts \cup {Len(parts) + 1}
        /\ parts'[Len(parts) + 1] = n
        /\ \A a \in DOMAIN parts : parts'[a] = parts[a]
    BY <1>1
  <1>3. \A b, j : Given(b, j)' <=> Given(b, j)
    BY <1>1 DEF Given, Delivery!Delivered
  <1>4. Len(parts) + 1 \notin DOMAIN parts
    BY <1>1
  <1>5. (\A r \in wire : r.action # Len(parts) + 1)
        /\ (\A i \in DOMAIN applied : applied[i].action # Len(parts) + 1)
    BY <1>4 DEF IInv, WireOK, AppliedOK
  <1>6. AppliedOK'
    BY <1>1, <1>2 DEF IInv, AppliedOK
  <1>7. CASE Execute(n)
    <2>1. pc' = "login" /\ reports' = reports
      BY <1>7 DEF Execute
    <2>2. call' \in Calls /\ call'.kind = "hid" /\ call'.part = 1
      BY <1>7, TransportAssumption DEF Execute, NewCall, Calls
    <2>3. TypeOK'
      BY <1>1, <1>2, <2>1, <2>2 DEF IInv, TypeOK
    <2>4. WireOK'
      BY <1>1, <1>2, <1>3, <2>1 DEF IInv, WireOK
    <2>5. HidCallOK'
      <3>1. Len(parts') = Len(reports') + 1
        BY <1>1, <1>2, <2>1
      <3>5. call'.part \in 1..parts'[Len(parts')]
        <4>1. parts'[Len(parts')] = n
          BY <1>2
        <4> QED
          BY <4>1, <1>1, <2>2
      <3>2. 1..call'.part - 1 = {}
        BY <2>2
      <3>3. /\ \A i \in DOMAIN applied' :
                  applied'[i].action = Len(parts') => applied'[i].part <= call'.part
            /\ \A r \in wire' : r.action # Len(parts')
        BY <1>1, <1>2, <1>5
      <3>4. ~Given(Len(parts), call.part)'
        BY <1>2, <1>3, NothingAhead
      <3> QED
        BY <2>1, <2>2, <3>1, <3>2, <3>3, <3>4, <3>5 DEF HidCallOK
    <2>6. QuietOK'
      BY <1>1, <1>2, <2>1, <2>2 DEF QuietOK, InCall
    <2> QED
      BY <1>6, <2>3, <2>4, <2>5, <2>6 DEF IInv
  <1>8. CASE Unsendable(n)
    <2>1. /\ reports' = Append(reports, "failed") /\ UNCHANGED <<pc, call>>
          /\ reports \in Seq({"sent", "uncertain", "failed"})
      BY <1>8 DEF Unsendable, IInv, TypeOK
    <2>2. /\ reports' \in Seq({"sent", "uncertain", "failed"}) /\ Len(reports') = Len(reports) + 1
          /\ DOMAIN reports' = DOMAIN reports \cup {Len(parts) + 1}
          /\ \A a \in DOMAIN reports : reports'[a] = reports[a]
      BY <1>1, <2>1
    <2>3. TypeOK'
      BY <1>1, <1>2, <2>1, <2>2 DEF IInv, TypeOK
    <2>4. WireOK'
      BY <1>1, <1>2, <1>3, <1>5, <2>2 DEF IInv, WireOK
    <2>5. HidCallOK' /\ QuietOK'
      BY <1>1, <1>2, <2>1, <2>2 DEF HidCallOK, QuietOK, InCall
    <2> QED
      BY <1>6, <2>3, <2>4, <2>5 DEF IInv
  <1> QED
    BY <1>7, <1>8

-----------------------------------------------------------------------------
\* Sending a request, and what PiKVM does with it.

LEMMA PostKeepsIInv ==
    ASSUME IInv, Post
    PROVE  IInv'
  <1>1. /\ pc = "send" /\ pc' = "wait" /\ InCall /\ answer = None
        /\ UNCHANGED <<call, authenticated, answer, parts, reports, applied>>
        /\ call \in Calls /\ call.part \in Nat /\ call.attempt \in Nat
    BY DEF IInv, TypeOK, QuietOK, Post, InCall, Calls
  <1>2. \A b, j : Given(b, j)' <=> Given(b, j)
    BY <1>1 DEF Given, Delivery!Delivered
  <1>3. CASE call.kind = "shot"
    <2>1. UNCHANGED Shared /\ ShotMoves
      BY <1>1, <1>3 DEF Post, Shared, ShotMoves, IInv, TypeOK
    <2> QED
      BY <2>1, ShotKeepsIInv
  <1>4. CASE call.kind = "hid"
    <2>1. wire' = wire \cup {Request}
      BY <1>4 DEF Post
    <2>2. /\ Len(parts) = Len(reports) + 1 /\ Len(parts) \in Nat /\ Len(reports) \in Nat
          /\ Len(parts) \in DOMAIN parts
          /\ call.part \in 1..parts[Len(parts)]
          /\ \A j \in 1..call.part - 1 : Given(Len(parts), j)
          /\ ~Given(Len(parts), call.part)
          /\ \A r \in wire : r.action # Len(parts)
      BY <1>1, <1>4 DEF IInv, HidCallOK, TypeOK
    <2>3. /\ Request.action = Len(parts) /\ Request.part = call.part
          /\ Request \in [action : Nat, part : Nat, attempt : Nat]
      BY <1>1, <2>2 DEF Request
    <2>4. Request' = Request
      BY <1>1 DEF Request
    <2>5. TypeOK'
      BY <1>1, <2>1, <2>3 DEF IInv, TypeOK
    <2>6. WireOK'
      <3>1. Len(parts) \notin DOMAIN reports
        BY <2>2 DEF IInv, TypeOK
      <3> QED
        BY <1>1, <1>2, <2>1, <2>2, <2>3, <3>1 DEF IInv, WireOK
    <2>7. HidCallOK'
      BY <1>1, <1>2, <1>4, <2>1, <2>2, <2>4, TransportAssumption
      DEF IInv, HidCallOK, Answers
    <2>8. AppliedOK' /\ QuietOK'
      BY <1>1, <1>4 DEF IInv, AppliedOK, QuietOK, InCall
    <2> QED
      BY <2>5, <2>6, <2>7, <2>8 DEF IInv
  <1> QED
    BY <1>1, <1>3, <1>4 DEF Calls

LEMMA DealtKeepsIInv ==
    ASSUME IInv, NEW r \in wire, Apply(r) \/ TurnAway(r)
    PROVE  IInv'
  <1>1. /\ r.action \in DOMAIN parts /\ r.part \in 1..parts[r.action]
        /\ r.action \in Nat /\ r.part \in Nat
        /\ ~Given(r.action, r.part)
        /\ \A q \in wire : q.action = r.action => q = r
    BY DEF IInv, WireOK, TypeOK
  <1>2. /\ wire' = wire \ {r}
        /\ UNCHANGED <<pc, call, authenticated, parts, reports>>
        /\ answer' \in Answers \cup {None}
    BY DEF IInv, TypeOK, Apply, TurnAway, Answer, Answers
  <1>3. /\ \A b, j : Given(b, j)' <=> (Given(b, j) \/ (Apply(r) /\ b = r.action /\ j = r.part))
        /\ applied' \in Seq([action : Nat, part : Nat])
        /\ \A i \in DOMAIN applied' :
              \/ i \in DOMAIN applied /\ applied'[i] = applied[i]
              \/ Apply(r) /\ applied'[i] = [action |-> r.action, part |-> r.part]
    <2>1. CASE Apply(r)
      BY <2>1, <1>1, AppendGives DEF Apply, IInv, TypeOK
    <2>2. CASE UNCHANGED applied /\ ~Apply(r)
      BY <2>2 DEF IInv, TypeOK, Given, Delivery!Delivered
    <2>3. TurnAway(r) => UNCHANGED applied
      BY DEF TurnAway
    <2>4. CASE Apply(r) /\ TurnAway(r)
      BY <2>4, <2>1
    <2> QED
      BY <2>1, <2>2, <2>3
  <1>4. TypeOK'
    BY <1>2, <1>3 DEF IInv, TypeOK
  <1>5. WireOK'
    BY <1>1, <1>2, <1>3 DEF IInv, WireOK
  <1>6. AppliedOK'
    BY <1>1, <1>2, <1>3 DEF IInv, AppliedOK
  <1>7. HidCallOK'
    <2> SUFFICES ASSUME InCall, call.kind = "hid"
                 PROVE  HidCallOK'
      BY <1>2 DEF HidCallOK, InCall
    <2>1. Request' = Request
      BY <1>2 DEF Request
    <2>2. CASE r.action # Len(parts)
      <3>1. answer' = answer
        BY <2>2 DEF Apply, TurnAway, Answer, Request
      <3> QED
        BY <1>1, <1>2, <1>3, <2>1, <2>2, <3>1 DEF IInv, HidCallOK, InCall
    <2>3. CASE r.action = Len(parts)
      <3>1. pc = "wait" /\ r = Request /\ answer = None /\ r.part = call.part
        BY <2>3 DEF IInv, HidCallOK, Request
      <3>2. \A q \in wire' : q.action # Len(parts)
        BY <1>1, <1>2, <2>3
      <3>3. answer' = "ok" => Apply(r)
        BY <3>1, TransportAssumption DEF Apply, TurnAway, Answer, Answers
      <3>4. answer' = "unauthorized" => TurnAway(r) /\ ~Apply(r)
        BY <3>1, TransportAssumption DEF Apply, TurnAway, Answer, Answers
      <3> QED
        BY <1>1, <1>2, <1>3, <2>1, <2>3, <3>1, <3>2, <3>3, <3>4 DEF IInv, HidCallOK, InCall
    <2> QED
      BY <2>2, <2>3
  <1>8. QuietOK'
    BY <1>2 DEF IInv, QuietOK, InCall, Apply, TurnAway, Answer
  <1> QED
    BY <1>4, <1>5, <1>6, <1>7, <1>8 DEF IInv

-----------------------------------------------------------------------------
\* Every step keeps the invariant and is a step of HidDelivery, or none.

DeliveryStep == [Delivery!Next]_(Delivery!deliveryVars)

LEMMA ConcludeDelivers ==
    ASSUME IInv, InCall, NEW status \in {"sent", "uncertain", "failed"},
           Conclude(status), UNCHANGED <<wire, parts, applied>>,
           status = "sent" => \A k \in 1..parts[Len(parts)] : Given(Len(parts), k)
    PROVE  DeliveryStep
  <1>1. Len(parts) = Len(reports) + 1 /\ reports' = Append(reports, status)
    BY DEF IInv, HidCallOK, Conclude
  <1>2. Delivery!Report(status)
    BY <1>1 DEF Delivery!Report, Given
  <1> QED
    BY <1>2 DEF DeliveryStep, Delivery!Next

\* A call that ends in an error.
LEMMA FailStep ==
    ASSUME IInv, InCall, UNCHANGED <<wire, parts, applied>>,
           NEW error, Fail(error),
           Status(error) = "failed" =>
               (call.kind = "hid" => \A r \in wire : r.action # Len(parts))
    PROVE  IInv' /\ DeliveryStep
  <1>1. CASE Conclude(Status(error))
    <2>1. Status(error) \in {"uncertain", "failed"} /\ call.kind = "hid"
      BY <1>1 DEF Status, Conclude
    <2> QED
      BY <1>1, <2>1, ConcludeKeepsIInv, ConcludeDelivers
  <1>2. CASE ~Conclude(Status(error))
    <2>1. /\ call.kind = "shot" /\ UNCHANGED reports
          /\ IF Refreshes(error) THEN Refresh ELSE Return /\ UNCHANGED authenticated
      BY <1>2 DEF Fail
    <2>2. NewCall("shot", 1, TRUE) \in Calls /\ NewCall("shot", 1, TRUE).kind = "shot"
      BY TransportAssumption DEF NewCall, Calls
    <2>3. ShotMoves
      BY <2>1, <2>2 DEF ShotMoves, Shared, Refresh, Return, IInv, TypeOK
    <2>4. DeliveryStep
      BY <2>1 DEF DeliveryStep, Delivery!deliveryVars
    <2> QED
      BY <2>3, <2>4, ShotKeepsIInv
  <1> QED
    BY <1>1, <1>2

LEMMA LoginSteps ==
    ASSUME IInv, Login
    PROVE  IInv' /\ DeliveryStep
  <1>1. InCall /\ pc \in {"login", "loginwait"} /\ answer = None /\ call \in Calls
    BY DEF Login, LoggedInAlready, PostLogin, NoSecondFactor, LoginAccepted, LoginAgain,
           LoginRefused, InCall, IInv, TypeOK, QuietOK
  <1>2. CASE LoggedInAlready \/ PostLogin \/ LoginAccepted \/ LoginAgain
    <2>1. /\ UNCHANGED Shared /\ answer' = None /\ authenticated' \in BOOLEAN
          /\ pc' \in {"loginwait", "send"}
      BY <1>1, <1>2 DEF LoggedInAlready, PostLogin, LoginAccepted, LoginAgain, Shared, IInv, TypeOK
    <2>2. call' \in Calls /\ call'.kind = call.kind /\ call'.part = call.part
      <3>1. CASE LoggedInAlready \/ PostLogin
        BY <1>1, <3>1 DEF LoggedInAlready, PostLogin
      <3>2. CASE LoginAccepted
        BY <1>1, <3>2, TransportAssumption DEF LoginAccepted, Calls
      <3>3. CASE LoginAgain
        BY <1>1, <3>3, TransportAssumption DEF LoginAgain, Attempts, Calls
      <3> QED
        BY <1>2, <3>1, <3>2, <3>3
    <2>3. DeliveryStep
      BY <2>1 DEF Shared, DeliveryStep, Delivery!deliveryVars
    <2>4. CASE call.kind = "shot"
      BY <1>1, <2>1, <2>2, <2>3, <2>4, ShotKeepsIInv DEF ShotMoves
    <2>5. CASE call.kind = "hid"
      BY <1>1, <2>1, <2>2, <2>3, <2>5, HidKeepsIInv DEF HidMoves
    <2> QED
      BY <1>1, <2>4, <2>5 DEF Calls
  <1>3. CASE NoSecondFactor \/ LoginRefused
    <2>1. PICK error : Fail(error) /\ UNCHANGED <<wire, parts, applied>>
      BY <1>3 DEF NoSecondFactor, LoginRefused
    <2>2. call.kind = "hid" => \A r \in wire : r.action # Len(parts)
      BY <1>1 DEF IInv, HidCallOK
    <2> QED
      BY <1>1, <2>1, <2>2, FailStep
  <1> QED
    BY <1>2, <1>3 DEF Login

LEMMA ExchangeSteps ==
    ASSUME IInv, Exchange
    PROVE  IInv' /\ DeliveryStep
  <1>1. InCall /\ pc \in {"send", "wait"} /\ call \in Calls
    BY DEF Exchange, Post, Done, NextRequest, BadAnswer, RejectBody, Relogin, RejectedAgain,
           ErrorStatus, SendAgain, GiveUp, Arrives, InCall, IInv, TypeOK
  <1>2. CASE Post
    BY <1>2, PostKeepsIInv DEF Post, DeliveryStep, Delivery!deliveryVars
  <1>3. CASE NextRequest
    BY <1>3, NextKeepsIInv DEF NextRequest, DeliveryStep, Delivery!deliveryVars
  <1>4. CASE Done
    <2>1. CASE call.kind = "hid"
      <3>1. /\ pc = "wait" /\ answer = "ok" /\ call.part = parts[Len(parts)]
            /\ Conclude("sent") /\ UNCHANGED <<wire, parts, applied>>
        BY <1>4, <2>1 DEF Done, Arrives
      <3>2. \A r \in wire : r.action # Len(parts)
        BY <1>1, <2>1, <3>1, TransportAssumption DEF IInv, HidCallOK, Answers
      <3>3. call.part \in Nat /\ Given(Len(parts), call.part)
            /\ \A j \in 1..call.part - 1 : Given(Len(parts), j)
        BY <1>1, <2>1, <3>1 DEF IInv, HidCallOK, Calls
      <3>4. \A k \in 1..parts[Len(parts)] : Given(Len(parts), k)
        <4>1. \A k \in 1..call.part : k = call.part \/ k \in 1..call.part - 1
          BY <3>3
        <4> QED
          BY <3>1, <3>3, <4>1
      <3> QED
        BY <1>1, <3>1, <3>2, <3>4, ConcludeKeepsIInv, ConcludeDelivers
    <2>2. CASE call.kind = "shot"
      <3>1. ShotMoves /\ UNCHANGED <<parts, reports, applied>>
        BY <1>1, <1>4, <2>2 DEF Done, Return, ShotMoves, Shared, IInv, TypeOK
      <3> QED
        BY <3>1, ShotKeepsIInv DEF DeliveryStep, Delivery!deliveryVars
    <2> QED
      BY <1>1, <2>1, <2>2 DEF Calls
  <1>5. CASE Relogin
    <2>1. call' \in Calls /\ call'.kind = call.kind /\ call'.part = call.part
      <3>1. call' = [call EXCEPT !.repeated = TRUE, !.attempt = 1]
        BY <1>5 DEF Relogin, Renewed
      <3>2. 1 \in 1..MaxRetries + 1
        BY TransportAssumption
      <3> QED
        BY <1>1, <3>1, <3>2 DEF Calls
    <2>2. /\ UNCHANGED Shared /\ authenticated' = FALSE /\ answer' = None /\ pc' = "login"
          /\ call.kind = "hid" => answer = "unauthorized"
      BY <1>5 DEF Relogin, Shared, Arrives
    <2>3. DeliveryStep
      BY <2>2 DEF Shared, DeliveryStep, Delivery!deliveryVars
    <2>4. CASE call.kind = "shot"
      BY <1>1, <2>1, <2>2, <2>3, <2>4, ShotKeepsIInv DEF ShotMoves
    <2>5. CASE call.kind = "hid"
      BY <1>1, <2>1, <2>2, <2>3, <2>5, HidKeepsIInv DEF HidMoves
    <2> QED
      BY <1>1, <2>4, <2>5 DEF Calls
  <1>6. CASE SendAgain
    <2>1. /\ call.kind = "shot" /\ call' \in Calls /\ call'.kind = "shot"
      BY <1>1, <1>6, TransportAssumption DEF SendAgain, Retryable, Attempts, Calls
    <2>2. ShotMoves /\ UNCHANGED <<parts, reports, applied>>
      BY <1>1, <1>6, <2>1 DEF SendAgain, ShotMoves, Shared, IInv, TypeOK
    <2> QED
      BY <2>2, ShotKeepsIInv DEF DeliveryStep, Delivery!deliveryVars
  <1>7. CASE BadAnswer \/ ErrorStatus \/ GiveUp
    <2>1. PICK error : /\ Fail(error) /\ UNCHANGED <<wire, parts, applied>>
                       /\ call.kind = "hid" => error \in {"protocol", "refused", "timeout"}
      BY <1>7 DEF BadAnswer, RejectBody, ErrorStatus, GiveUp
    <2> QED
      BY <1>1, <2>1, FailStep DEF Status
  <1>8. CASE RejectedAgain
    <2>1. Fail("auth") /\ UNCHANGED <<wire, parts, applied>>
          /\ pc = "wait" /\ (call.kind = "hid" => answer = "unauthorized")
      BY <1>8 DEF RejectedAgain, Arrives
    <2>2. call.kind = "hid" => \A r \in wire : r.action # Len(parts)
      BY <1>1, <2>1, TransportAssumption DEF IInv, HidCallOK, Answers
    <2> QED
      BY <1>1, <2>1, <2>2, FailStep
  <1> QED
    BY <1>2, <1>3, <1>4, <1>5, <1>6, <1>7, <1>8 DEF Exchange

LEMMA OtherSteps ==
    ASSUME IInv, Begin \/ Close \/ PiKVM \/ UNCHANGED vars
    PROVE  IInv' /\ DeliveryStep
  <1>1. CASE \E n \in Shapes : Execute(n) \/ Unsendable(n)
    <2>1. PICK n \in Shapes : Execute(n) \/ Unsendable(n)
      BY <1>1
    <2>2. Len(parts) = Len(reports)
      BY <2>1 DEF IInv, QuietOK, Execute, Unsendable
    <2>3. Delivery!Begin(n) \/ Delivery!Refuse(n)
      BY <2>1, <2>2 DEF Execute, Unsendable, Delivery!Begin, Delivery!Refuse
    <2> QED
      BY <2>1, <2>3, ExecuteKeepsIInv DEF DeliveryStep, Delivery!Next
  <1>2. CASE GetScreenshot
    <2>1. /\ UNCHANGED Shared /\ pc = "idle" /\ pc' = "login" /\ call' = NewCall("shot", 1, FALSE)
          /\ UNCHANGED <<authenticated, answer>>
      BY <1>2 DEF GetScreenshot, Shared
    <2>2. call' \in Calls /\ call'.kind = "shot"
      BY <2>1, TransportAssumption DEF NewCall, Calls
    <2>3. WireOK' /\ AppliedOK'
      BY <2>1, SharedKept DEF IInv
    <2>4. TypeOK'
      BY <2>1, <2>2 DEF IInv, TypeOK, Shared
    <2>5. HidCallOK' /\ QuietOK'
      BY <2>1, <2>2 DEF IInv, HidCallOK, QuietOK, Shared, InCall
    <2> QED
      BY <2>1, <2>3, <2>4, <2>5 DEF IInv, Shared, DeliveryStep, Delivery!deliveryVars
  <1>3. CASE Close
    <2>1. UNCHANGED Shared /\ pc' = "closed" /\ call' = None /\ answer' = None
          /\ authenticated' = FALSE
      BY <1>3 DEF Close, Shared
    <2>2. WireOK' /\ AppliedOK'
      BY <2>1, SharedKept DEF IInv
    <2>3. TypeOK'
      BY <2>1 DEF IInv, TypeOK, Shared
    <2>4. HidCallOK' /\ QuietOK'
      BY <2>1 DEF IInv, HidCallOK, QuietOK, Shared, InCall
    <2> QED
      BY <2>1, <2>2, <2>3, <2>4 DEF IInv, Shared, DeliveryStep, Delivery!deliveryVars
  <1>4. CASE PiKVM
    <2>1. PICK r \in wire : Apply(r) \/ TurnAway(r)
      BY <1>4 DEF PiKVM
    <2>2. DeliveryStep
      <3>1. CASE Apply(r)
        <4>1. Delivery!Deliver(r.action, r.part) /\ r.action \in DOMAIN parts
              /\ r.part \in 1..parts[r.action]
          BY <3>1 DEF Apply, IInv, WireOK, Given, Delivery!Deliver
        <4> QED
          BY <4>1 DEF DeliveryStep, Delivery!Next
      <3>2. CASE TurnAway(r)
        BY <3>2 DEF TurnAway, DeliveryStep, Delivery!deliveryVars
      <3> QED
        BY <2>1, <3>1, <3>2
    <2> QED
      BY <2>1, <2>2, DealtKeepsIInv
  <1>5. CASE UNCHANGED vars
    <2>1. UNCHANGED Shared /\ UNCHANGED <<pc, call, authenticated, answer>>
      BY <1>5 DEF vars, Shared
    <2>2. WireOK' /\ AppliedOK' /\ (\A b, j : Given(b, j)' <=> Given(b, j))
      BY <2>1, SharedKept DEF IInv
    <2>3. TypeOK' /\ QuietOK'
      BY <2>1 DEF IInv, TypeOK, QuietOK, Shared, InCall
    <2>4. HidCallOK'
      BY <2>1, <2>2 DEF IInv, HidCallOK, Shared, InCall, Request
    <2> QED
      BY <2>1, <2>2, <2>3, <2>4 DEF IInv, Shared, DeliveryStep, Delivery!deliveryVars
  <1> QED
    BY <1>1, <1>2, <1>3, <1>4, <1>5 DEF Begin

LEMMA InitIInv == Init => IInv /\ Delivery!Init
  <1> SUFFICES ASSUME Init PROVE IInv /\ Delivery!Init
    OBVIOUS
  <1>1. TypeOK
    <2>1. /\ parts \in Seq(Shapes) /\ reports \in Seq({"sent", "uncertain", "failed"})
          /\ applied \in Seq([action : Nat, part : Nat])
      BY DEF Init
    <2>2. /\ wire \subseteq [action : Nat, part : Nat, attempt : Nat]
          /\ pc = "idle" /\ call = None /\ authenticated \in BOOLEAN /\ answer = None
      BY DEF Init
    <2> QED
      BY <2>1, <2>2 DEF TypeOK
  <1>3. WireOK /\ AppliedOK
    BY DEF Init, WireOK, AppliedOK
  <1>2. HidCallOK /\ QuietOK /\ Delivery!Init
    BY DEF Init, HidCallOK, QuietOK, InCall, Delivery!Init
  <1> QED
    BY <1>1, <1>2, <1>3 DEF IInv

LEMMA StepIInv == IInv /\ [Next]_vars => IInv' /\ DeliveryStep
  BY LoginSteps, ExchangeSteps, OtherSteps DEF Next, Client

\* The inductive invariant of the transport.
THEOREM TransportInvariant == Spec => []IInv
  BY InitIInv, StepIInv, PTL DEF Spec

\* The client's variables keep their types, its attempts their bound.
THEOREM TransportTypeCorrect == Spec => []TypeOK
  <1>1. IInv => TypeOK
    BY DEF IInv
  <1> QED
    BY <1>1, TransportInvariant, PTL

\* Through lost answers, expiring sessions and late effects, no request of an
\* action reaches the computer twice or out of order, and "sent" means all did.
THEOREM TransportDelivers == Spec => ImplementsDelivery
  BY InitIInv, StepIInv, TransportInvariant, PTL
  DEF Spec, ImplementsDelivery, Delivery!Spec, DeliveryStep
=============================================================================
