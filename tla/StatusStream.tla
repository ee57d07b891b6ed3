----------------------------- MODULE StatusStream -----------------------------
(***************************************************************************)
(* One call of the CLI that streams status: a goroutine works and talks    *)
(* into statusChan, the handler relays to the stream, and the client reads *)
(* until a message says Done or the stream ends.  Start, Reset, the        *)
(* Snapshot calls and Build relay; Stop only waits for the verdict; the    *)
(* second half of Reset runs inside the handler and relays nothing.        *)
(*                                                                         *)
(* A message is "info", "started" (the text "All services started") or one *)
(* of the handler's last words, "done" and "failed".  What the work does   *)
(* is Engine's subject: here it talks, ends well, or fails.                *)
(***************************************************************************)
EXTENDS Naturals, Sequences

CONSTANTS
  Kinds,         \* the calls considered, a subset of AllKinds
  Slots,         \* capacity of statusChan; 64 in the code
  MaxMessages,   \* bound: messages of one operation before its last one
  MaxBuilds,     \* bound: services that Build builds
  Disconnects    \* may the client give up (deadline, interrupt)?

AllKinds == {"start", "stop", "reset", "snapshot", "build"}

ASSUME StreamAssumption ==
  /\ Kinds \subseteq AllKinds /\ Slots \in Nat \ {0}
  /\ MaxMessages \in Nat /\ MaxBuilds \in Nat \ {0} /\ Disconnects \in BOOLEAN

VARIABLES
  kind,      \* which call
  ops,       \* operations still to do, the current one first
  worker,    \* the current operation: "running", "sending", "reporting", "ended"
  said,      \* messages it has composed
  message,   \* the one it is sending
  outcome,   \* how it ended
  chan,      \* statusChan
  errChan,   \* errChan, or done: "none" or the verdict in it
  handler,   \* "relay", "inline" or "returned"
  ctx,       \* the context of the call: "live" or "cancelled"
  stream,    \* sent to the client and not yet received
  client     \* "waiting", "success", "failure" or "gone"

work == <<worker, said, message, outcome>>
vars == <<kind, ops, worker, said, message, outcome, chan, errChan, handler,
          ctx, stream, client>>

Plans(k) ==
  CASE k = "reset" -> {<<"stop", "start">>}
    [] k = "build" -> {[i \in 1..n |-> "build"] : n \in 1..MaxBuilds}
    [] OTHER -> {<<k>>}

\* How the work of the whole call ended.
Outcome == IF outcome = "ok" /\ Len(ops) > 1 THEN "none" ELSE outcome

\* The last word of a handler.
Verdict(v) == IF v = "ok" THEN "done" ELSE "failed"

Abstract == INSTANCE Request WITH outcome <- Outcome, answer <- client

TypeOK ==
  /\ kind \in Kinds
  /\ ops \in Seq({"start", "stop", "snapshot", "build"}) /\ ops # <<>>
  /\ worker \in {"running", "sending", "reporting", "ended"}
  /\ said \in 0..MaxMessages /\ message \in {"info", "last", "started"}
  /\ outcome \in {"none", "ok", "error"}
  /\ chan \in Seq({"info", "last", "started"}) /\ Len(chan) <= Slots
  /\ errChan \in {"none", "ok", "error"}
  /\ handler \in {"relay", "inline", "returned"} /\ ctx \in {"live", "cancelled"}
  /\ stream \in Seq({"info", "last", "started", "done", "failed"})
  /\ client \in {"waiting", "success", "failure", "gone"}

\* The call has passed its checks: the goroutine has been created.
Init ==
  /\ kind \in Kinds /\ ops \in Plans(kind)
  /\ worker = "running" /\ said = 0 /\ message = "info" /\ outcome = "none"
  /\ chan = <<>> /\ errChan = "none" /\ handler = "relay" /\ ctx = "live"
  /\ stream = <<>> /\ client = "waiting"

(* The operation *)

\* It has something to tell.
Compose ==
  /\ worker = "running" /\ said < MaxMessages
  /\ worker' = "sending" /\ said' = said + 1 /\ message' = "info"
  /\ UNCHANGED <<kind, ops, outcome, chan, errChan, handler, ctx, stream, client>>

\* Mutant: it says so before it has.
SucceedEarly ==
  /\ worker = "running" /\ said < MaxMessages
  /\ worker' = "sending" /\ said' = said + 1
  /\ message' = IF Head(ops) = "start" THEN "started" ELSE "last"
  /\ UNCHANGED <<kind, ops, outcome, chan, errChan, handler, ctx, stream, client>>

\* It has succeeded and says so last.
Succeed ==
  /\ worker = "running"
  /\ worker' = "sending" /\ outcome' = "ok"
  /\ message' = IF Head(ops) = "start" THEN "started" ELSE "last"
  /\ UNCHANGED <<kind, ops, said, chan, errChan, handler, ctx, stream, client>>

\* It fails.  Stop fails only before its first service, for a cycle.
Fail ==
  /\ worker = "running"
  /\ Head(ops) = "stop" => said = 0
  /\ worker' = "reporting" /\ outcome' = "error"
  /\ UNCHANGED <<kind, ops, said, message, chan, errChan, handler, ctx, stream, client>>

\* Mutant: the channel has one slot.
SendOneSlot ==
  /\ worker = "sending" /\ chan = <<>>
  /\ chan' = Append(chan, message)
  /\ worker' = IF outcome = "ok" THEN "reporting" ELSE "running"
  /\ UNCHANGED <<kind, ops, said, message, outcome, errChan, handler, ctx, stream, client>>

\* statusChan <- message blocks while there is no free slot.
Send ==
  /\ worker = "sending" /\ Len(chan) < Slots
  /\ chan' = Append(chan, message)
  /\ worker' = IF outcome = "ok" THEN "reporting" ELSE "running"
  /\ UNCHANGED <<kind, ops, said, message, outcome, errChan, handler, ctx, stream, client>>

\* The goroutine leaves its verdict in errChan, which has one slot.
Report ==
  /\ worker = "reporting" /\ handler # "inline"
  /\ worker' = "ended" /\ errChan' = outcome
  /\ UNCHANGED <<kind, ops, said, message, outcome, chan, handler, ctx, stream, client>>

\* Start inside Reset returns to the handler, which answers.
InlineReturn ==
  /\ worker = "reporting" /\ handler = "inline"
  /\ worker' = "ended" /\ handler' = "returned"
  /\ stream' = Append(stream, Verdict(outcome))
  /\ UNCHANGED <<kind, ops, said, message, outcome, chan, errChan, ctx, client>>

Operation == Compose \/ Succeed \/ Fail \/ Send \/ Report \/ InlineReturn

(* The handler's select: any branch that is ready *)

\* Mutant: Start does not take messages either.
RelayNoStart ==
  /\ handler = "relay" /\ kind \notin {"start", "stop"} /\ chan # <<>>
  /\ chan' = Tail(chan) /\ stream' = Append(stream, Head(chan))
  /\ UNCHANGED <<kind, ops, work, errChan, handler, ctx, client>>

\* A message is relayed; Start's handler knows the last one by its text.
Relay ==
  /\ handler = "relay" /\ kind # "stop" /\ chan # <<>>
  /\ chan' = Tail(chan) /\ stream' = Append(stream, Head(chan))
  /\ handler' = IF kind = "start" /\ Head(chan) = "started" THEN "returned" ELSE "relay"
  /\ UNCHANGED <<kind, ops, work, errChan, ctx, client>>

\* Mutant: Start's handler does not look at the error.
ConcludeSilently ==
  /\ handler = "relay" /\ errChan # "none"
  /\ errChan = "error" \/ Len(ops) = 1
  /\ handler' = "returned" /\ errChan' = "none"
  /\ stream' = IF kind = "start" THEN stream ELSE Append(stream, Verdict(errChan))
  /\ UNCHANGED <<kind, ops, work, chan, ctx, client>>

\* The verdict of the last operation, or of one that failed.  A successful Start
\* just ends the stream.
Conclude ==
  /\ handler = "relay" /\ errChan # "none"
  /\ errChan = "error" \/ Len(ops) = 1
  /\ handler' = "returned" /\ errChan' = "none"
  /\ stream' = IF errChan = "ok" /\ kind = "start" THEN stream
               ELSE Append(stream, Verdict(errChan))
  /\ UNCHANGED <<kind, ops, work, chan, ctx, client>>

\* The next operation begins: in Build another goroutine with channels of its
\* own, in Reset a call of Start by the handler itself.
Proceed ==
  /\ handler = "relay" /\ errChan = "ok" /\ Len(ops) > 1
  /\ ops' = Tail(ops) /\ worker' = "running" /\ said' = 0 /\ outcome' = "none"
  /\ errChan' = "none" /\ stream' = Append(stream, "info")
  /\ chan' = IF kind = "build" THEN <<>> ELSE chan
  /\ handler' = IF kind = "reset" THEN "inline" ELSE "relay"
  /\ UNCHANGED <<kind, message, ctx, client>>

\* Mutant: Stop waits for errChan alone.
CancelledNotStop ==
  /\ handler = "relay" /\ ctx = "cancelled" /\ kind # "stop"
  /\ handler' = "returned"
  /\ UNCHANGED <<kind, ops, work, chan, errChan, ctx, stream, client>>

\* The context is done: the handler leaves, whatever the goroutine does.
Cancelled ==
  /\ handler = "relay" /\ ctx = "cancelled"
  /\ handler' = "returned"
  /\ UNCHANGED <<kind, ops, work, chan, errChan, ctx, stream, client>>

Handle == Relay \/ Conclude \/ Proceed \/ Cancelled

(* The client *)

\* It reads until a message is marked Done.
Receive ==
  /\ client = "waiting" /\ stream # <<>>
  /\ stream' = Tail(stream)
  /\ client' = CASE Head(stream) = "failed" -> "failure"
                 [] Head(stream) \in {"done", "started"} -> "success"
                 [] OTHER -> "waiting"
  /\ ctx' = IF client' = "waiting" THEN ctx ELSE "cancelled"
  /\ UNCHANGED <<kind, ops, work, chan, errChan, handler>>

\* io.EOF counts as success.
EndOfStream ==
  /\ client = "waiting" /\ stream = <<>> /\ handler = "returned"
  /\ client' = "success" /\ ctx' = "cancelled"
  /\ UNCHANGED <<kind, ops, work, chan, errChan, handler, stream>>

\* The deadline that every call of the CLI has, or the user.
GiveUp ==
  /\ Disconnects /\ client = "waiting"
  /\ client' = "gone" /\ ctx' = "cancelled"
  /\ UNCHANGED <<kind, ops, work, chan, errChan, handler, stream>>

Next == Operation \/ Handle \/ Receive \/ EndOfStream \/ GiveUp

\* Goroutines are scheduled, a select takes a ready branch, what the operation
\* waits for outside of the program returns.  Clients need not give up.
Fairness ==
  /\ WF_vars(Operation) /\ WF_vars(Handle)
  /\ WF_vars(Receive \/ EndOfStream)

Spec == Init /\ [][Next]_vars /\ Fairness

-------------------------------------------------------------------------------
(* Properties *)

\* A client that did not give up is told what happened to all of its work, by
\* whichever of three ways it learns it: a text, a verdict, the end of the stream
\* (daemon.go:154, :159; grpc_client.go:177).
VerdictTrue ==
  /\ client = "success" => Outcome = "ok"
  /\ client = "failure" => Outcome = "error"

(* The inductive invariant behind VerdictTrue *)

Says(q, m) == \E i \in 1..Len(q) : q[i] = m

\* Only the last operation of a call is a Start.
PlanInv ==
  /\ CASE kind = "reset" -> ops \in {<<"stop", "start">>, <<"start">>}
       [] kind = "build" -> \A i \in 1..Len(ops) : ops[i] = "build"
       [] OTHER -> ops = <<kind>>
  /\ handler = "inline" => kind = "reset" /\ ops = <<"start">> /\ errChan = "none"

\* The operation has an outcome from its last message on; the text "started" is
\* about only then.
WorkInv ==
  /\ worker = "running" => outcome = "none"
  /\ worker = "sending" => outcome # "error"
  /\ worker \in {"reporting", "ended"} => outcome # "none"
  /\ errChan # "none" => worker = "ended" /\ errChan = outcome
  /\ (worker = "sending" /\ message = "started") \/ Says(chan, "started")
       => outcome = "ok" /\ Head(ops) = "start"

\* What is on its way to the client is true, and enough for it.
WayInv ==
  /\ Says(stream, "failed") => Outcome = "error"
  /\ Says(stream, "done") \/ Says(stream, "started") => Outcome = "ok"
  /\ handler = "returned" /\ client = "waiting" =>
       Outcome = "ok" \/ Says(stream, "failed")
  /\ ctx = "cancelled" => client # "waiting"

StreamInv == TypeOK /\ PlanInv /\ WorkInv /\ WayInv /\ VerdictTrue

(* Liveness *)

\* Handlers return, so that Shutdown's GracefulStop does (daemon.go:986): those
\* that relay in any case, Stop's at the latest when its client has left (:221).
HandlerReturns ==
  (kind = "stop" => <>(client = "gone")) => <>(handler = "returned")

\* While somebody reads its messages no goroutine stays behind in a send or a
\* report: not with Stop, nor Reset, nor once the client has left (:153).
WorkerEnds ==
  kind \notin {"stop", "reset"} /\ [](client # "gone") => <>[](worker = "ended")

\* The call is an implementation of Request.
Implements == Abstract!Spec

-------------------------------------------------------------------------------
(* What the repository says and the code does not do *)

\* Stop waits for completion (daemon.go:209), so it completes.
StopCompletes == kind = "stop" ~> outcome # "none"

\* After a Reset the environment is ready to restart (Testing Strategy:310): the
\* handler returns, at the latest when the client has given up.
ResetCompletes == kind = "reset" /\ client = "gone" ~> handler = "returned"
===============================================================================
