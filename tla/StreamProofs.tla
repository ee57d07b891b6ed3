----------------------------- MODULE StreamProofs -----------------------------
(***************************************************************************)
(* VerdictTrue of StatusStream, for every capacity of statusChan and every *)
(* number of messages and builds, whether or not clients leave.            *)
(***************************************************************************)
EXTENDS StatusStream, TLAPS

Messages == {"info", "last", "started", "done", "failed"}
Ops == {"start", "stop", "snapshot", "build"}

\* Nothing is said in an empty sequence.
LEMMA EmptySays == ASSUME NEW m PROVE ~Says(<<>>, m)
  BY DEF Says

\* What is said after a message was appended.
LEMMA AppendSays ==
  ASSUME NEW S, NEW q \in Seq(S), NEW x \in S, NEW m
  PROVE  Says(Append(q, x), m) <=> Says(q, m) \/ x = m
<1>1. /\ Len(q) \in Nat /\ Len(Append(q, x)) = Len(q) + 1
      /\ Append(q, x)[Len(q) + 1] = x
      /\ \A i \in 1..Len(q) : Append(q, x)[i] = q[i]
  OBVIOUS
<1>2. \A i \in 1..(Len(q) + 1) : i \in 1..Len(q) \/ i = Len(q) + 1
  BY <1>1
<1>3. \A i \in 1..Len(q) : i \in 1..(Len(q) + 1)
  BY <1>1
<1>4. Len(q) + 1 \in 1..(Len(q) + 1)
  BY <1>1
<1>5. QED
  BY <1>1, <1>2, <1>3, <1>4 DEF Says

\* What is said after the first message was taken, and of that message.
LEMMA TailSays ==
  ASSUME NEW S, NEW q \in Seq(S), q # <<>>, NEW m
  PROVE  Says(q, m) <=> Head(q) = m \/ Says(Tail(q), m)
<1>1. /\ Len(q) \in Nat \ {0} /\ Len(Tail(q)) = Len(q) - 1 /\ Head(q) = q[1]
      /\ \A i \in 1..(Len(q) - 1) : Tail(q)[i] = q[i + 1]
  OBVIOUS
<1>2. ASSUME NEW i \in 1..Len(q), i # 1
      PROVE  i - 1 \in 1..(Len(q) - 1) /\ q[i] = Tail(q)[i - 1]
  <2>1. i - 1 \in 1..(Len(q) - 1) /\ (i - 1) + 1 = i
    BY <1>1, <1>2
  <2>2. QED
    BY <1>1, <2>1
<1>3. \A i \in 1..(Len(q) - 1) : i + 1 \in 1..Len(q)
  BY <1>1
<1>4. 1 \in 1..Len(q)
  BY <1>1
<1>5. ASSUME Says(q, m) PROVE Head(q) = m \/ Says(Tail(q), m)
  BY <1>1, <1>2, <1>5 DEF Says
<1>6. ASSUME Head(q) = m \/ Says(Tail(q), m) PROVE Says(q, m)
  BY <1>1, <1>3, <1>4, <1>6 DEF Says
<1>7. QED
  BY <1>5, <1>6

\* The operations of a call: at least one, and a Start is the last.
LEMMA PlanFacts ==
  ASSUME TypeOK, PlanInv
  PROVE  /\ Len(ops) \in Nat \ {0} /\ Head(ops) = ops[1] /\ Head(ops) \in Ops
         /\ Head(ops) = "start" => Len(ops) = 1
         /\ kind \in {"start", "stop", "snapshot"} => Len(ops) = 1 /\ Head(ops) = kind
<1>1. Len(ops) \in Nat \ {0} /\ Head(ops) = ops[1] /\ Head(ops) \in Ops
  BY DEF TypeOK, Ops
<1>2. CASE kind = "reset"
  BY <1>1, <1>2 DEF PlanInv
<1>3. CASE kind = "build"
  <2>1. ops[1] = "build"
    BY <1>1, <1>3 DEF PlanInv
  <2>2. QED
    BY <1>1, <1>3, <2>1
<1>4. CASE kind \notin {"reset", "build"}
  BY <1>1, <1>4 DEF PlanInv
<1>5. QED
  BY <1>1, <1>2, <1>3, <1>4

\* A step that keeps operations, outcome, handler and what is on its way.
LEMMA SameWay ==
  ASSUME WayInv, VerdictTrue, UNCHANGED <<handler, ctx, stream, client>>,
         Outcome # "none" => Outcome' = Outcome
  PROVE  WayInv' /\ VerdictTrue'
  BY DEF WayInv, VerdictTrue, Says

-------------------------------------------------------------------------------
(* Initially *)

\* A call begins with a plan and nothing said.
LEMMA InitEstablishes == ASSUME Init PROVE StreamInv
<1>1. /\ kind \in Kinds /\ ops \in Plans(kind) /\ kind \in AllKinds
  BY StreamAssumption DEF Init
<1>2. ops \in Seq(Ops) /\ ops # <<>> /\ PlanInv
  <2>1. CASE kind = "build"
    <3>1. PICK n \in 1..MaxBuilds : ops = [i \in 1..n |-> "build"]
      BY <1>1, <2>1 DEF Plans
    <3>2. n \in Nat \ {0} /\ Len(ops) = n /\ ops \in Seq(Ops)
      BY <3>1, StreamAssumption DEF Ops
    <3>3. QED
      BY <2>1, <3>1, <3>2 DEF PlanInv, Init
  <2>2. CASE kind = "reset"
    <3>1. ops = <<"stop", "start">>
      BY <1>1, <2>2 DEF Plans
    <3>2. QED
      BY <2>2, <3>1 DEF PlanInv, Init, Ops
  <2>3. CASE kind \in {"start", "stop", "snapshot"}
    <3>1. ops = <<kind>>
      BY <1>1, <2>3 DEF Plans
    <3>2. QED
      BY <2>3, <3>1 DEF PlanInv, Init, Ops
  <2>4. QED
    BY <1>1, <2>1, <2>2, <2>3 DEF AllKinds
<1>3. TypeOK
  BY <1>1, <1>2, StreamAssumption DEF Init, TypeOK, Ops
<1>4. WorkInv /\ WayInv /\ VerdictTrue
  BY EmptySays DEF Init, WorkInv, WayInv, VerdictTrue
<1>5. QED
  BY <1>2, <1>3, <1>4 DEF StreamInv

-------------------------------------------------------------------------------
(* The operation *)

\* A message is composed.
LEMMA ComposeKeeps == ASSUME StreamInv, Compose PROVE StreamInv'
<1>1. TypeOK'
  BY StreamAssumption DEF StreamInv, TypeOK, Compose
<1>2. PlanInv' /\ WorkInv'
  BY DEF StreamInv, PlanInv, WorkInv, Compose, Says
<1>3. WayInv' /\ VerdictTrue'
  BY SameWay DEF StreamInv, Compose, Outcome
<1>4. QED
  BY <1>1, <1>2, <1>3 DEF StreamInv

\* The operation ends well: its outcome was open before.
LEMMA SucceedKeeps == ASSUME StreamInv, Succeed PROVE StreamInv'
<1>1. TypeOK'
  BY DEF StreamInv, TypeOK, Succeed
<1>2. PlanInv' /\ WorkInv'
  BY DEF StreamInv, PlanInv, WorkInv, Succeed, Says
<1>3. outcome = "none"
  BY DEF StreamInv, WorkInv, Succeed
<1>4. WayInv' /\ VerdictTrue'
  BY <1>3, SameWay DEF StreamInv, Succeed, Outcome
<1>5. QED
  BY <1>1, <1>2, <1>4 DEF StreamInv

\* The operation fails: its outcome was open before.
LEMMA FailKeeps == ASSUME StreamInv, Fail PROVE StreamInv'
<1>1. TypeOK'
  BY DEF StreamInv, TypeOK, Fail
<1>2. outcome = "none"
  BY DEF StreamInv, WorkInv, Fail
<1>3. PlanInv' /\ WorkInv'
  BY <1>2 DEF StreamInv, PlanInv, WorkInv, Fail, Says
<1>4. WayInv' /\ VerdictTrue'
  BY <1>2, SameWay DEF StreamInv, Fail, Outcome
<1>5. QED
  BY <1>1, <1>3, <1>4 DEF StreamInv

\* A message gets into the channel: "started" only if it was being sent.
LEMMA SendKeeps == ASSUME StreamInv, Send PROVE StreamInv'
<1>1. chan \in Seq(Messages) /\ message \in Messages
  BY DEF StreamInv, TypeOK, Messages
<1>2. Says(chan', "started") <=> Says(chan, "started") \/ message = "started"
  BY <1>1, AppendSays DEF Send
<1>3. TypeOK'
  BY StreamAssumption DEF StreamInv, TypeOK, Send
<1>4. PlanInv' /\ WorkInv'
  BY <1>2 DEF StreamInv, TypeOK, PlanInv, WorkInv, Send
<1>5. WayInv' /\ VerdictTrue'
  BY SameWay DEF StreamInv, Send, Outcome
<1>6. QED
  BY <1>3, <1>4, <1>5 DEF StreamInv

\* The verdict is put into errChan.
LEMMA ReportKeeps == ASSUME StreamInv, Report PROVE StreamInv'
<1>1. TypeOK'
  BY DEF StreamInv, TypeOK, Report
<1>2. PlanInv' /\ WorkInv'
  BY DEF StreamInv, PlanInv, WorkInv, Report, Says
<1>3. WayInv' /\ VerdictTrue'
  BY SameWay DEF StreamInv, Report, Outcome
<1>4. QED
  BY <1>1, <1>2, <1>3 DEF StreamInv

\* The last words of a handler are those of the outcome of the whole call.
LEMMA LastWordTrue ==
  ASSUME StreamInv, Outcome \in {"ok", "error"}, UNCHANGED <<Outcome, ctx, client>>,
         stream' = Append(stream, Verdict(Outcome))
  PROVE  WayInv' /\ VerdictTrue'
<1>1. stream \in Seq(Messages) /\ Verdict(Outcome) \in Messages
  BY DEF StreamInv, TypeOK, Messages, Verdict
<1>2. \A m : Says(stream', m) <=> Says(stream, m) \/ Verdict(Outcome) = m
  BY <1>1, AppendSays
<1>3. QED
  BY <1>2 DEF StreamInv, WayInv, VerdictTrue, Verdict

\* The Start inside Reset answers.
LEMMA InlineReturnKeeps == ASSUME StreamInv, InlineReturn PROVE StreamInv'
<1>1. TypeOK'
  BY DEF StreamInv, TypeOK, InlineReturn, Verdict
<1>2. PlanInv' /\ WorkInv'
  BY DEF StreamInv, PlanInv, WorkInv, InlineReturn, Says
<1>3. Outcome = outcome /\ Outcome' = outcome /\ outcome \in {"ok", "error"}
  <2>1. ops = <<"start">>
    BY DEF StreamInv, PlanInv, InlineReturn
  <2>2. Len(ops) = 1 /\ UNCHANGED <<ops, outcome>>
    BY <2>1 DEF InlineReturn
  <2>3. outcome \in {"ok", "error"}
    BY DEF StreamInv, TypeOK, WorkInv, InlineReturn
  <2>4. Outcome = outcome
    BY <2>2 DEF Outcome
  <2>5. Outcome' = Outcome
    BY <2>2 DEF Outcome
  <2>6. QED
    BY <2>2, <2>3, <2>4, <2>5
<1>4. WayInv' /\ VerdictTrue'
  BY <1>3, LastWordTrue DEF InlineReturn
<1>5. QED
  BY <1>1, <1>2, <1>4 DEF StreamInv

-------------------------------------------------------------------------------
(* The handler *)

\* A message is relayed; it is "started" only when the whole call has succeeded.
LEMMA RelayKeeps == ASSUME StreamInv, Relay PROVE StreamInv'
<1>1. /\ chan \in Seq(Messages) /\ stream \in Seq(Messages) /\ chan # <<>>
      /\ Head(chan) \in {"info", "last", "started"} /\ Head(chan) \in Messages
  BY DEF StreamInv, TypeOK, Relay, Messages
<1>2. /\ Says(chan, "started") <=> Head(chan) = "started" \/ Says(chan', "started")
      /\ \A m : Says(stream', m) <=> Says(stream, m) \/ Head(chan) = m
  BY <1>1, TailSays, AppendSays DEF Relay
<1>3. TypeOK'
  <2>1. chan \in Seq({"info", "last", "started"}) /\ Len(chan) \in Nat /\ Len(chan) <= Slots
    BY DEF StreamInv, TypeOK
  <2>2. Tail(chan) \in Seq({"info", "last", "started"}) /\ Len(Tail(chan)) <= Slots
    BY <1>1, <2>1, StreamAssumption
  <2>3. Append(stream, Head(chan)) \in Seq({"info", "last", "started", "done", "failed"})
    BY <1>1 DEF Messages
  <2>4. QED
    BY <2>2, <2>3 DEF StreamInv, TypeOK, Relay, work
<1>4. PlanInv'
  BY DEF StreamInv, PlanInv, Relay, work
<1>5. WorkInv'
  BY <1>2 DEF StreamInv, WorkInv, Relay, work
<1>6. ASSUME Head(chan) = "started" PROVE Outcome = "ok"
  <2>1. Says(chan, "started")
    BY <1>2, <1>6
  <2>2. outcome = "ok" /\ Head(ops) = "start"
    BY <2>1 DEF StreamInv, WorkInv
  <2>3. Len(ops) = 1
    BY <2>2, PlanFacts DEF StreamInv
  <2>4. QED
    BY <2>2, <2>3 DEF Outcome
<1>7. UNCHANGED <<Outcome, ctx, client>> /\ (handler' = "returned" => Head(chan) = "started")
  BY DEF Relay, work, Outcome
<1>8. WayInv' /\ VerdictTrue'
  BY <1>1, <1>2, <1>6, <1>7 DEF StreamInv, WayInv, VerdictTrue, Relay
<1>9. QED
  BY <1>3, <1>4, <1>5, <1>8 DEF StreamInv

\* A verdict ends the call: the last operation's, or a failed one's.
LEMMA ConcludeKeeps == ASSUME StreamInv, Conclude PROVE StreamInv'
<1>1. TypeOK'
  BY DEF StreamInv, TypeOK, Conclude, Verdict, work
<1>2. PlanInv' /\ WorkInv'
  BY DEF StreamInv, PlanInv, WorkInv, Conclude, Says, work
<1>3. Outcome = errChan /\ Outcome \in {"ok", "error"} /\ UNCHANGED <<Outcome, ctx, client>>
  <2>1. errChan \in {"ok", "error"} /\ errChan = outcome
    BY DEF StreamInv, TypeOK, WorkInv, Conclude
  <2>2. errChan = "error" \/ Len(ops) = 1
    BY DEF Conclude
  <2>3. UNCHANGED <<ops, outcome, ctx, client>>
    BY DEF Conclude, work
  <2>4. Outcome = outcome
    <3>1. CASE Len(ops) = 1
      BY <3>1 DEF Outcome
    <3>2. CASE errChan = "error"
      BY <2>1, <3>2 DEF Outcome
    <3>3. QED
      BY <2>2, <3>1, <3>2
  <2>5. Outcome' = Outcome
    BY <2>3 DEF Outcome
  <2>6. QED
    BY <2>1, <2>3, <2>4, <2>5
<1>4. CASE errChan = "ok" /\ kind = "start"
  <2>1. WayInv' /\ VerdictTrue'
    BY <1>3, <1>4 DEF StreamInv, WayInv, VerdictTrue, Conclude, Says
  <2>2. QED
    BY <1>1, <1>2, <2>1 DEF StreamInv
<1>5. CASE ~(errChan = "ok" /\ kind = "start")
  <2>1. stream' = Append(stream, Verdict(errChan))
    BY <1>5 DEF Conclude
  <2>2. stream' = Append(stream, Verdict(Outcome))
    BY <1>3, <2>1
  <2>3. WayInv' /\ VerdictTrue'
    BY <1>3, <2>2, LastWordTrue
  <2>4. QED
    BY <1>1, <1>2, <2>3 DEF StreamInv
<1>6. QED
  BY <1>1, <1>2, <1>4, <1>5 DEF StreamInv

\* The next operation begins: the outcome of the call was and stays open.
LEMMA ProceedKeeps == ASSUME StreamInv, Proceed PROVE StreamInv'
<1>1. /\ Len(ops) > 1 /\ Len(ops) \in Nat /\ outcome = "ok" /\ worker = "ended"
      /\ Outcome = "none" /\ Outcome' = "none"
      /\ stream \in Seq(Messages) /\ "info" \in Messages
  BY PlanFacts DEF StreamInv, TypeOK, WorkInv, Proceed, Outcome, Messages
<1>2. Len(ops) # 1
  <2>1. ASSUME Len(ops) = 1 PROVE FALSE
    <3>1. 1 > 1
      BY <1>1, <2>1
    <3>2. ~(1 > 1)
      OBVIOUS
    <3>3. QED
      BY <3>1, <3>2
  <2>2. QED
    BY <2>1
<1>3. Tail(ops) \in Seq(Ops) /\ Tail(ops) # <<>> /\ Len(Tail(ops)) = Len(ops) - 1
  <2>1. ops \in Seq(Ops) /\ ops # <<>>
    BY DEF StreamInv, TypeOK, Ops
  <2>2. Tail(ops) \in Seq(Ops) /\ Len(Tail(ops)) = Len(ops) - 1
    BY <2>1
  <2>4. ASSUME Tail(ops) = <<>> PROVE FALSE
    <3>1. Len(<<>>) = 0
      OBVIOUS
    <3>2. Len(ops) - 1 = 0
      BY <2>2, <2>4, <3>1
    <3>3. Len(ops) = 1
      BY <1>1, <3>2
    <3>4. QED
      BY <1>2, <3>3
  <2>5. QED
    BY <2>2, <2>4
<1>4. TypeOK'
  BY <1>1, <1>3, StreamAssumption DEF StreamInv, TypeOK, Proceed, Ops
<1>5. PlanInv'
  <2>1. CASE kind = "reset"
    <3>1. ops = <<"stop", "start">> \/ ops = <<"start">>
      BY <2>1 DEF StreamInv, PlanInv
    <3>2. Len(<<"start">>) = 1
      OBVIOUS
    <3>3. ops # <<"start">>
      BY <1>2, <3>2
    <3>4. ops = <<"stop", "start">>
      BY <3>1, <3>3
    <3>5. Tail(ops) = <<"start">>
      BY <3>4
    <3>6. QED
      BY <2>1, <3>5 DEF PlanInv, Proceed
  <2>2. CASE kind = "build"
    <3>1. ops \in Seq(Ops)
      BY DEF StreamInv, TypeOK, Ops
    <3>2. \A i \in 1..(Len(ops) - 1) : i + 1 \in 1..Len(ops) /\ Tail(ops)[i] = ops[i + 1]
      BY <1>1, <3>1
    <3>3. \A i \in 1..Len(ops) : ops[i] = "build"
      BY <2>2 DEF StreamInv, PlanInv
    <3>4. \A i \in 1..Len(Tail(ops)) : Tail(ops)[i] = "build"
      BY <1>3, <3>2, <3>3
    <3>5. QED
      BY <2>2, <3>4 DEF PlanInv, Proceed
  <2>3. CASE kind \notin {"reset", "build"}
    <3>1. ops = <<kind>>
      BY <2>3 DEF StreamInv, PlanInv
    <3>2. QED
      BY <1>1, <3>1
  <2>4. QED
    BY <2>1, <2>2, <2>3
<1>6. WorkInv'
  <2>1. ~Says(chan, "started")
    <3>1. Head(ops) = "start" => Len(ops) = 1
      BY PlanFacts DEF StreamInv
    <3>2. Head(ops) # "start"
      BY <1>2, <3>1
    <3>3. QED
      BY <3>2 DEF StreamInv, WorkInv
  <2>2. QED
    BY <2>1, EmptySays DEF WorkInv, Proceed
<1>7. \A m : Says(stream', m) <=> Says(stream, m) \/ "info" = m
  BY <1>1, AppendSays DEF Proceed
<1>8. WayInv' /\ VerdictTrue'
  BY <1>1, <1>7 DEF StreamInv, WayInv, VerdictTrue, Proceed
<1>9. QED
  BY <1>4, <1>5, <1>6, <1>8 DEF StreamInv

\* The handler leaves only when the client has.
LEMMA CancelledKeeps == ASSUME StreamInv, Cancelled PROVE StreamInv'
<1>1. TypeOK'
  BY DEF StreamInv, TypeOK, Cancelled, work
<1>2. PlanInv' /\ WorkInv'
  BY DEF StreamInv, PlanInv, WorkInv, Cancelled, Says, work
<1>3. WayInv' /\ VerdictTrue'
  BY DEF StreamInv, WayInv, VerdictTrue, Cancelled, Says, Outcome, work
<1>4. QED
  BY <1>1, <1>2, <1>3 DEF StreamInv

-------------------------------------------------------------------------------
(* The client *)

\* What it receives is true.
LEMMA ReceiveKeeps == ASSUME StreamInv, Receive PROVE StreamInv'
<1>1. stream \in Seq(Messages) /\ stream # <<>> /\ Head(stream) \in Messages
  BY DEF StreamInv, TypeOK, Receive, Messages
<1>2. \A m : Says(stream, m) <=> Head(stream) = m \/ Says(stream', m)
  BY <1>1, TailSays DEF Receive
<1>3. TypeOK'
  BY DEF StreamInv, TypeOK, Receive, work
<1>4. PlanInv' /\ WorkInv'
  BY DEF StreamInv, PlanInv, WorkInv, Receive, Says, work
<1>5. Outcome' = Outcome
  BY DEF Receive, Outcome, work
<1>6. WayInv'
  BY <1>1, <1>2, <1>5 DEF StreamInv, WayInv, Receive
<1>7. VerdictTrue'
  BY <1>1, <1>2, <1>5 DEF StreamInv, WayInv, VerdictTrue, Receive, Messages
<1>8. QED
  BY <1>3, <1>4, <1>6, <1>7 DEF StreamInv

\* The end of the stream without a last word is that of a successful Start.
LEMMA EndOfStreamKeeps == ASSUME StreamInv, EndOfStream PROVE StreamInv'
<1>1. TypeOK'
  BY DEF StreamInv, TypeOK, EndOfStream, work
<1>2. PlanInv' /\ WorkInv'
  BY DEF StreamInv, PlanInv, WorkInv, EndOfStream, Says, work
<1>3. Outcome = "ok" /\ Outcome' = "ok"
  BY EmptySays DEF StreamInv, WayInv, EndOfStream, Outcome, work
<1>4. WayInv' /\ VerdictTrue'
  BY <1>3, EmptySays DEF WayInv, VerdictTrue, EndOfStream
<1>5. QED
  BY <1>1, <1>2, <1>4 DEF StreamInv

\* A client that leaves is told nothing.
LEMMA GiveUpKeeps == ASSUME StreamInv, GiveUp PROVE StreamInv'
<1>1. TypeOK'
  BY DEF StreamInv, TypeOK, GiveUp, work
<1>2. PlanInv' /\ WorkInv'
  BY DEF StreamInv, PlanInv, WorkInv, GiveUp, Says, work
<1>3. WayInv' /\ VerdictTrue'
  BY DEF StreamInv, WayInv, VerdictTrue, GiveUp, Says, Outcome, work
<1>4. QED
  BY <1>1, <1>2, <1>3 DEF StreamInv

\* Nothing happens.
LEMMA StutterKeeps == ASSUME StreamInv, UNCHANGED vars PROVE StreamInv'
  BY DEF StreamInv, TypeOK, PlanInv, WorkInv, WayInv, VerdictTrue, Says, Outcome, vars

-------------------------------------------------------------------------------
(* Theorems *)

\* What is on its way to the client is true and enough for it, in every state
\* (daemon.go:152-166, grpc_client.go:174-196).
THEOREM StreamInvariance == Spec => []StreamInv
<1>1. Init => StreamInv
  BY InitEstablishes
<1>2. StreamInv /\ [Next]_vars => StreamInv'
  <2> SUFFICES ASSUME StreamInv, [Next]_vars PROVE StreamInv'
    OBVIOUS
  <2>1. CASE Operation
    BY <2>1, ComposeKeeps, SucceedKeeps, FailKeeps, SendKeeps, ReportKeeps, InlineReturnKeeps
       DEF Operation
  <2>2. CASE Handle
    BY <2>2, RelayKeeps, ConcludeKeeps, ProceedKeeps, CancelledKeeps DEF Handle
  <2>3. CASE Receive \/ EndOfStream \/ GiveUp
    BY <2>3, ReceiveKeeps, EndOfStreamKeeps, GiveUpKeeps
  <2>4. CASE UNCHANGED vars
    BY <2>4, StutterKeeps
  <2>5. QED
    BY <2>1, <2>2, <2>3, <2>4 DEF Next
<1>3. QED
  BY <1>1, <1>2, PTL DEF Spec

\* A client that did not leave is told what happened to all of its work, whichever
\* branch select takes and however many messages there are (daemon.go:152).
THEOREM VerdictCorrect == Spec => []VerdictTrue
<1>1. StreamInv => VerdictTrue
  BY DEF StreamInv
<1>2. QED
  BY <1>1, StreamInvariance, PTL

-------------------------------------------------------------------------------
(* The call implements Request; that an answer comes at all is left to TLC. *)

\* A step that changes neither the outcome of the call nor the client's answer.
LEMMA Silent ==
  ASSUME StreamInv,
         Compose \/ Send \/ Report \/ InlineReturn \/ Relay \/ Conclude \/ Cancelled
  PROVE  UNCHANGED <<Outcome, client>>
<1>1. UNCHANGED <<outcome, ops, client>>
  BY DEF Compose, Send, Report, InlineReturn, Relay, Conclude, Cancelled, work
<1>2. QED
  BY <1>1 DEF Outcome

\* Only the end of the last operation, or a failure, is an outcome of the call.
LEMMA WorkSteps ==
  ASSUME StreamInv, Succeed \/ Fail \/ Proceed
  PROVE  Abstract!Next \/ UNCHANGED <<Outcome, client>>
<1>1. CASE Succeed \/ Fail
  <2>1. outcome = "none" /\ outcome' \in {"ok", "error"} /\ UNCHANGED <<ops, client>>
    BY <1>1 DEF StreamInv, WorkInv, Succeed, Fail
  <2>2. Outcome = "none" /\ Outcome' \in {"none", "ok", "error"}
    BY <2>1 DEF Outcome
  <2>3. QED
    BY <2>1, <2>2 DEF Abstract!Next, Abstract!Work
<1>2. CASE Proceed
  <2>1. outcome = "ok" /\ Len(ops) > 1 /\ outcome' = "none" /\ UNCHANGED client
    BY <1>2 DEF StreamInv, WorkInv, Proceed
  <2>2. Outcome = "none" /\ Outcome' = "none"
    BY <2>1 DEF Outcome
  <2>3. QED
    BY <2>1, <2>2
<1>3. QED
  BY <1>1, <1>2

\* An answer is the outcome: VerdictTrue of the state after the step says so.
LEMMA ClientSteps ==
  ASSUME StreamInv, StreamInv', Receive \/ EndOfStream \/ GiveUp
  PROVE  Abstract!Next \/ UNCHANGED <<Outcome, client>>
<1>1. client = "waiting" /\ UNCHANGED <<outcome, ops>>
  BY DEF Receive, EndOfStream, GiveUp, work
<1>2. Outcome' = Outcome
  BY <1>1 DEF Outcome
<1>3. client' \in {"waiting", "success", "failure", "gone"}
  BY DEF StreamInv, TypeOK
<1>4. CASE client' = "success"
  <2>1. Outcome = "ok"
    BY <1>2, <1>4 DEF StreamInv, VerdictTrue
  <2>2. QED
    BY <1>1, <1>2, <1>4, <2>1 DEF Abstract!Next, Abstract!Answer
<1>5. CASE client' = "failure"
  <2>1. Outcome = "error"
    BY <1>2, <1>5 DEF StreamInv, VerdictTrue
  <2>2. QED
    BY <1>1, <1>2, <1>5, <2>1 DEF Abstract!Next, Abstract!Answer
<1>6. CASE client' = "gone"
  BY <1>1, <1>2, <1>6 DEF Abstract!Next, Abstract!GiveUp
<1>7. CASE client' = "waiting"
  BY <1>1, <1>2, <1>7
<1>8. QED
  BY <1>3, <1>4, <1>5, <1>6, <1>7

\* Whatever the channels hold and whoever reads them, a call shows its client
\* one outcome of all of its work and one answer that agrees with it, or the
\* client's leaving (daemon.go:124, grpc_client.go:171).
THEOREM SafeRefinement == Spec => Abstract!Safe
<1>1. Init => Abstract!Init
  BY DEF Init, Abstract!Init, Outcome
<1>2. StreamInv /\ StreamInv' /\ [Next]_vars => [Abstract!Next]_<<Outcome, client>>
  <2> SUFFICES ASSUME StreamInv, StreamInv', [Next]_vars
               PROVE  Abstract!Next \/ UNCHANGED <<Outcome, client>>
    OBVIOUS
  <2>1. CASE Compose \/ Send \/ Report \/ InlineReturn \/ Relay \/ Conclude \/ Cancelled
    BY <2>1, Silent
  <2>2. CASE Succeed \/ Fail \/ Proceed
    BY <2>2, WorkSteps
  <2>3. CASE Receive \/ EndOfStream \/ GiveUp
    BY <2>3, ClientSteps
  <2>4. CASE UNCHANGED vars
    BY <2>4 DEF vars, work, Outcome
  <2>5. QED
    BY <2>1, <2>2, <2>3, <2>4 DEF Next, Operation, Handle
<1>3. QED
  BY <1>1, <1>2, StreamInvariance, PTL DEF Spec, Abstract!Safe
===============================================================================
