----------------------------- MODULE EngineProofs -----------------------------
(***************************************************************************)
(* Type correctness, RoutingSound, DependencyOrder and FailedStartCleansUp *)
(* of Engine, for every set of calls, projects and services and every      *)
(* configuration; StopOrder, StopStops, StartReplaces and StatusAfterStart *)
(* for the configurations that serve one call at a time.                   *)
(***************************************************************************)
EXTENDS EngineInvariant, FiniteSetTheorems, FunctionTheorems, TLAPS

\* What no step does to a container: forget it; and what only its creation does.
Lasts(i) == ctr[i].status # "none" => ctr'[i].status # "none"
Steady(i) ==
  /\ ctr'[i].rt = ctr[i].rt
  /\ ctr'[i].status = "none" <=> ctr[i].status = "none"
  /\ ctr[i].status \notin {"none", "created"} => ctr'[i].status \notin {"none", "created"}

\* A step that leaves call d and its orchestrator's runtimes alone, and its
\* containers steady, keeps what d's control point knows.
LEMMA FrameCall ==
  ASSUME NEW d \in Call, TypeOK, TypeOK', CallInv(d),
         call'[d] = call[d],
         srv.host # Nil => srv'.host # Nil,
         \A o \in Call : orc[o].host # Nil => orc'[o].host # Nil,
         orc'[d].host = orc[d].host, orc'[d].docker = orc[d].docker,
         \A i \in ContainerId : Lasts(i),
         \A s \in Service : Steady(<<d, s>>)
  PROVE  CallInv(d)'
<1> USE DEF TypeOK, CallType
<1>0. call[d] \in CallType /\ <<d, call[d].cur>> \in ContainerId \cup {<<d, Nil>>}
  BY DEF ContainerId
<1>1. IdentityInv(d)'
  BY DEF CallInv, IdentityInv
<1>2. RuntimeInv(d)'
  BY DEF CallInv, RuntimeInv, IdentityInv
<1>3. LoopInv(d)'
  <2>1. Cfg(d)' = Cfg(d) /\ StartReady(d)' = StartReady(d)
    BY DEF Cfg, StartReady
  <2>2. \A s \in Service : RuntimeFor(d, s)' = RuntimeFor(d, s)
    BY DEF RuntimeFor
  <2>3. call[d].pc \in Loop => Cfg(d) \subseteq Service
    BY ConfigAssumption DEF CallInv, IdentityInv, Cfg, Loop
  <2>4. \A s \in Service : Started(d, s) => Started(d, s)'
    BY DEF Steady, Started
  <2>5. \A S \in SUBSET Service : Untouched(d, S) => Untouched(d, S)'
    BY DEF Steady, Untouched
  <2>6. call[d].cur \in StartReady(d) => call[d].cur \in Service
    BY DEF StartReady
  <2>7. LoopInv(d)
    BY DEF CallInv
  <2>8. Loop = AtService \cup {"pick"} /\ {"list", "replace"} \subseteq AtService
    BY DEF Loop, AtService
  <2>9. QED
    BY <2>1, <2>2, <2>3, <2>4, <2>5, <2>6, <2>7, <2>8 DEF LoopInv
<1>4. ContainerInv(d)'
  BY DEF CallInv, ContainerInv, Started, Steady, Lasts, RuntimeFor, LoopInv, AtService, Loop, StartReady
<1>5. QED
  BY <1>1, <1>2, <1>3, <1>4 DEF CallInv

\* Such a step keeps containerRT truthful, if it only removes entries from it.
LEMMA FrameRouting ==
  ASSUME TypeOK, TypeOK', RoutingSound,
         \A d \in Call, s \in Service : orc'[d].rt[s] \in {orc[d].rt[s], Nil},
         \A i \in ContainerId : Steady(i)
  PROVE  RoutingSound'
<1>1. \A d \in Call, s \in Service : <<d, s>> \in ContainerId
  BY DEF ContainerId
<1>2. QED
  BY <1>1 DEF RoutingSound, Steady

\* And the dependency order, if calls that have containers keep their project.
LEMMA FrameDependency ==
  ASSUME DependencyOrder, \A d \in Call : CallInv(d),
         \A d \in Call : call'[d].proj = call[d].proj \/ Untouched(d, Service),
         \A i \in ContainerId : Steady(i)
  PROVE  DependencyOrder'
<1>1. SUFFICES ASSUME NEW d \in Call, NEW s \in Service,
                      ctr'[<<d, s>>].status # "none",
                      NEW e \in Deps(call'[d].proj, s)
               PROVE  ctr'[<<d, e>>].status \notin {"none", "created"}
  BY DEF DependencyOrder, Deps
<1>2. \A t \in Service : <<d, t>> \in ContainerId
  BY DEF ContainerId
<1>3. ctr[<<d, s>>].status # "none"
  BY <1>1, <1>2 DEF Steady
<1>4. call'[d].proj = call[d].proj
  BY <1>3 DEF Untouched
<1>5. ctr[<<d, e>>].status \notin {"none", "created"}
  BY <1>1, <1>3, <1>4 DEF DependencyOrder, Deps
<1>6. call[d].pc # "idle"
  BY <1>3 DEF CallInv, LoopInv, Untouched, Fresh
<1>7. e \in Service
  BY <1>1, <1>4, <1>6, ConfigAssumption DEF CallInv, IdentityInv, Deps
<1>8. QED
  BY <1>2, <1>5, <1>7 DEF Steady

\* The frame of most steps: call c moves, everything else stays or is steady.
LEMMA FrameStep ==
  ASSUME IInv, TypeOK', NEW c \in Call, CallInv(c)',
         \A d \in Call \ {c} : call'[d] = call[d],
         call'[c].proj = call[c].proj \/ Untouched(c, Service),
         srv.host # Nil => srv'.host # Nil,
         srv'.orch # Nil => orc'[srv'.orch].host # Nil,
         \A d \in Call : orc[d].host # Nil => orc'[d].host # Nil,
         \A d \in Call \ {c} : orc'[d].host = orc[d].host /\ orc'[d].docker = orc[d].docker,
         \A d \in Call, s \in Service : orc'[d].rt[s] \in {orc[d].rt[s], Nil},
         \A i \in ContainerId : Steady(i)
  PROVE  IInv'
<1>1. \A i \in ContainerId : Lasts(i)
  BY DEF Lasts, Steady
<1>2. ASSUME NEW d \in Call \ {c}
      PROVE  CallInv(d)'
  <2>1. \A s \in Service : Steady(<<d, s>>)
    BY DEF ContainerId
  <2>2. QED
    BY <1>1, <2>1, FrameCall DEF IInv
<1>3. RoutingSound'
  BY FrameRouting DEF IInv
<1>4. \A d \in Call : call'[d].proj = call[d].proj \/ Untouched(d, Service)
  OBVIOUS
<1>5. DependencyOrder'
  BY <1>4, FrameDependency DEF IInv
<1>6. QED
  BY <1>2, <1>3, <1>5 DEF IInv

\* What Becomes does, field by field never expanded again.
LEMMA CallMoves ==
  ASSUME TypeOK, NEW c \in Call, NEW k \in CallType, Becomes(c, k)
  PROVE  /\ call' \in [Call -> CallType]
         /\ call'[c] = k
         /\ \A d \in Call \ {c} : call'[d] = call[d]
  BY DEF TypeOK, Becomes

\* The types of what a step of call c starts from.
LEMMA CallTyped ==
  ASSUME TypeOK, NEW c \in Call
  PROVE  /\ call[c] \in CallType /\ orc[c] \in OrchType
         /\ \A r \in {"ok", "error"} : Return(c, r) \in {"none", "ok", "error", "cancelled", "crashed"}
  BY DEF TypeOK, CallType, Return

\* A project's services are services.
LEMMA CfgTyped ==
  ASSUME NEW c \in Call, call[c].proj \in Project
  PROVE  Cfg(c) \subseteq Service
  BY ConfigAssumption DEF Cfg

\* The control points by name.
LEMMA LabelsTyped ==
  /\ StartLabels \cup CleanupLabels \cup StopLabels \cup {"done"} \subseteq Labels
  /\ \A x \in {"connect", "readrt", "setup", "network", "list", "replace", "start",
               "fork", "register", "collect"} : x \in StartLabels
  BY DEF Labels, StartLabels

\* Steps that change nothing but what call c knows.
LEMMA FrameLocal ==
  ASSUME IInv, NEW c \in Call, NEW k \in CallType, Becomes(c, k), CallInv(c)',
         UNCHANGED <<srv, orc, ctr, crashes>>,
         k.proj = call[c].proj \/ Untouched(c, Service)
  PROVE  IInv'
<1>1. \A i \in ContainerId : Steady(i)
  BY DEF Steady
<1>2. TypeOK'
  BY CallMoves DEF IInv, TypeOK
<1>3. /\ call'[c].proj = call[c].proj \/ Untouched(c, Service)
      /\ \A d \in Call \ {c} : call'[d] = call[d]
  BY CallMoves DEF IInv
<1>4. QED
  BY <1>1, <1>2, <1>3, FrameStep DEF IInv

\* The end of a call asks little of its state.
LEMMA FrameFinish ==
  ASSUME IInv, NEW c \in Call, NEW k \in CallType, Becomes(c, k),
         UNCHANGED <<srv, orc, ctr, crashes>>,
         call[c].pc # "idle", k.pc = "done",
         k.kind = call[c].kind, k.proj = call[c].proj, k.found = call[c].found
  PROVE  IInv'
<1>1. call'[c] = k
  BY CallMoves DEF IInv
<1>2. CallInv(c)
  BY DEF IInv
<1>3. IdentityInv(c)' /\ RuntimeInv(c)'
  BY <1>1, <1>2 DEF CallInv, IdentityInv, RuntimeInv, StopLabels, CleanupLabels, Fresh, Loop
<1>4. LoopInv(c)' /\ ContainerInv(c)'
  BY <1>1, <1>2 DEF CallInv, LoopInv, ContainerInv, StopLabels, Fresh, Loop, AtService
<1>5. QED
  BY <1>3, <1>4, FrameLocal DEF CallInv

\* And so does the way to cleanup, from the loop.
LEMMA FrameCleanup ==
  ASSUME IInv, NEW c \in Call, call[c].pc \in Loop,
         Becomes(c, [call[c] EXCEPT !.pc = "cleanup"]),
         UNCHANGED <<srv, orc, ctr, crashes>>
  PROVE  IInv'
<1> DEFINE k == [call[c] EXCEPT !.pc = "cleanup"]
<1>1. k \in CallType
  BY DEF IInv, TypeOK, CallType, Labels, CleanupLabels
<1>2. /\ k.pc = "cleanup" /\ k.kind = call[c].kind /\ k.proj = call[c].proj
      /\ k.found = call[c].found
  BY DEF IInv, TypeOK, CallType
<1> HIDE DEF k
<1>3. call'[c] = k
  BY <1>1, CallMoves DEF IInv, k
<1>4. CallInv(c)
  BY DEF IInv
<1>5. IdentityInv(c)' /\ RuntimeInv(c)'
  BY <1>2, <1>3, <1>4 DEF CallInv, IdentityInv, RuntimeInv, StopLabels, CleanupLabels, Fresh, Loop
<1>6. LoopInv(c)' /\ ContainerInv(c)'
  BY <1>2, <1>3, <1>4 DEF CallInv, LoopInv, ContainerInv, StopLabels, Fresh, Loop, AtService
<1>7. QED
  BY <1>1, <1>2, <1>5, <1>6, FrameLocal DEF CallInv, k

\* A Start that fails before its loop has nothing to clean up.
LEMMA ErrorKeeps ==
  ASSUME IInv, NEW c \in Call, call[c].pc # "idle",
         Becomes(c, [call[c] EXCEPT !.pc = "done", !.result = Return(c, "error")]),
         UNCHANGED <<srv, orc, ctr, crashes>>
  PROVE  IInv'
<1> DEFINE k == [call[c] EXCEPT !.pc = "done", !.result = Return(c, "error")]
<1>1. k \in CallType
  BY CallTyped DEF IInv, CallType, Labels
<1>2. /\ k.pc = "done" /\ k.kind = call[c].kind /\ k.proj = call[c].proj
      /\ k.found = call[c].found
  BY DEF IInv, TypeOK, CallType
<1>3. Becomes(c, k)
  OBVIOUS
<1> HIDE DEF k
<1>4. QED
  BY <1>1, <1>2, <1>3, FrameFinish

\* Neither the connection, nor the secret store, nor the network touch a container.
LEMMA ConnectFailsKeeps == ASSUME IInv, NEW c \in Call, ConnectFails(c) PROVE IInv'
  BY ErrorKeeps DEF ConnectFails

\* NewOrchestrator failed.
LEMMA SetupFailsKeeps == ASSUME IInv, NEW c \in Call, SetupFails(c) PROVE IInv'
  BY ErrorKeeps DEF SetupFails

\* A cycle, or EnsureNetwork failed.
LEMMA NetworkFailsKeeps == ASSUME IInv, NEW c \in Call, NetworkFails(c) PROVE IInv'
  BY ErrorKeeps DEF NetworkFails

\* Start answers after its last service.
LEMMA StartDoneKeeps == ASSUME IInv, NEW c \in Call, StartDone(c) PROVE IInv'
<1> DEFINE k == [call[c] EXCEPT !.pc = "done", !.ids = {}, !.result = Return(c, "ok")]
<1>1. k \in CallType
  BY CallTyped DEF IInv, CallType, Labels
<1>2. /\ k.pc = "done" /\ k.kind = call[c].kind /\ k.proj = call[c].proj
      /\ k.found = call[c].found
  BY DEF IInv, TypeOK, CallType
<1>3. Becomes(c, k) /\ call[c].pc # "idle" /\ UNCHANGED <<srv, orc, ctr, crashes>>
  BY DEF StartDone
<1> HIDE DEF k
<1>4. QED
  BY <1>1, <1>2, <1>3, FrameFinish

\* Start answers after its cleanup.
LEMMA CleanupDoneKeeps == ASSUME IInv, NEW c \in Call, CleanupDone(c) PROVE IInv'
<1> DEFINE k == [call[c] EXCEPT !.pc = "done", !.cur = Nil, !.todo = {},
                               !.target = Nil, !.result = Return(c, "error")]
<1>1. k \in CallType
  BY CallTyped DEF IInv, CallType, Labels
<1>2. /\ k.pc = "done" /\ k.kind = call[c].kind /\ k.proj = call[c].proj
      /\ k.found = call[c].found
  BY DEF IInv, TypeOK, CallType
<1>3. Becomes(c, k) /\ call[c].pc # "idle" /\ UNCHANGED <<srv, orc, ctr, crashes>>
  BY DEF CleanupDone
<1> HIDE DEF k
<1>4. QED
  BY <1>1, <1>2, <1>3, FrameFinish

\* A secret, a pull or a build failed: cleanup.
LEMMA PrepareFailsKeeps == ASSUME IInv, NEW c \in Call, PrepareFails(c) PROVE IInv'
  BY FrameCleanup DEF PrepareFails, Loop

\* The container did not start: cleanup.
LEMMA StartFailsKeeps == ASSUME IInv, NEW c \in Call, StartFails(c) PROVE IInv'
  BY FrameCleanup DEF StartFails, Loop

\* The loop begins with every service to do and none touched.
LEMMA EnsureNetworkKeeps == ASSUME IInv, NEW c \in Call, EnsureNetwork(c) PROVE IInv'
<1> DEFINE k == [call[c] EXCEPT !.pc = "pick", !.todo = Cfg(c)]
<1>1. CallInv(c) /\ Cfg(c) \subseteq Service
  BY CfgTyped DEF IInv, CallInv, IdentityInv, EnsureNetwork
<1>2. k \in CallType
  BY <1>1, CallTyped DEF IInv, CallType, Labels, StartLabels
<1>3. /\ k.pc = "pick" /\ k.todo = Cfg(c) /\ k.cur = call[c].cur
      /\ k.kind = call[c].kind /\ k.proj = call[c].proj /\ k.found = call[c].found
  BY CallTyped DEF IInv, CallType
<1>4. Becomes(c, k) /\ UNCHANGED <<srv, orc, ctr, crashes>> /\ call[c].pc = "network"
  BY DEF EnsureNetwork
<1> HIDE DEF k
<1>5. call'[c] = k
  BY <1>2, <1>4, CallMoves DEF IInv
<1>6. IdentityInv(c)' /\ RuntimeInv(c)'
  BY <1>1, <1>3, <1>4, <1>5 DEF CallInv, IdentityInv, RuntimeInv, StopLabels, CleanupLabels, Fresh, Loop
<1>7. Untouched(c, Service) /\ k.cur = Nil
  BY <1>1, <1>3, <1>4 DEF CallInv, LoopInv
<1>8. Cfg(c)' = Cfg(c)
  BY <1>3, <1>5 DEF Cfg
<1>9. LoopInv(c)'
  BY <1>1, <1>3, <1>4, <1>5, <1>7, <1>8 DEF LoopInv, StopLabels, Fresh, Loop, AtService, Untouched
<1>10. ContainerInv(c)'
  BY <1>1, <1>3, <1>4, <1>5 DEF CallInv, ContainerInv
<1>11. QED
  BY <1>2, <1>3, <1>4, <1>6, <1>9, <1>10, FrameLocal DEF CallInv

\* A Start begins with or without runtimes published.
LEMMA StartCallKeeps ==
  ASSUME IInv, NEW c \in Call, NEW p \in Project, StartCall(c, p) PROVE IInv'
<1> DEFINE k == [call[c] EXCEPT !.kind = "Start", !.proj = p, !.orch = c,
                                !.pc = IF srv.host = Nil THEN "connect" ELSE "readrt"]
<1>1. CallInv(c) /\ call[c].pc = "idle"
  BY DEF IInv, CallInv, IdentityInv, StartCall, Issue
<1>2. k \in CallType
  <2>1. (IF srv.host = Nil THEN "connect" ELSE "readrt") \in Labels
    BY LabelsTyped
  <2>2. QED
    BY <2>1, CallTyped DEF IInv, CallType
<1>3. /\ k.pc \in {"connect", "readrt"} /\ (k.pc = "readrt" => srv.host # Nil)
      /\ k.cur = call[c].cur /\ k.kind = "Start" /\ k.proj = p /\ k.found = call[c].found
  BY CallTyped DEF IInv, CallType
<1>4. Becomes(c, k) /\ UNCHANGED <<srv, orc, ctr, crashes>>
  BY DEF StartCall
<1> HIDE DEF k
<1>5. call'[c] = k
  BY <1>2, <1>4, CallMoves DEF IInv
<1>6. IdentityInv(c)' /\ RuntimeInv(c)'
  BY <1>1, <1>3, <1>4, <1>5 DEF CallInv, IdentityInv, RuntimeInv, StopLabels, CleanupLabels, Fresh, Loop
<1>7. Untouched(c, Service) /\ k.cur = Nil
  BY <1>1, <1>3 DEF CallInv, LoopInv, Fresh
<1>8. LoopInv(c)' /\ ContainerInv(c)'
  BY <1>1, <1>3, <1>4, <1>5, <1>7 DEF CallInv, LoopInv, ContainerInv, Loop, AtService, Untouched
<1>9. QED
  BY <1>2, <1>3, <1>4, <1>6, <1>7, <1>8, FrameLocal DEF CallInv

\* The next service has its dependencies outside todo, or there is no runtime.
LEMMA PickServiceKeeps == ASSUME IInv, NEW c \in Call, PickService(c) PROVE IInv'
<1>1. PICK s \in StartReady(c) :
        IF RuntimeFor(c, s) = Nil
        THEN Becomes(c, [call[c] EXCEPT !.pc = "cleanup"])
        ELSE Becomes(c, [call[c] EXCEPT !.pc = "list", !.cur = s])
  BY DEF PickService
<1>2. CallInv(c) /\ call[c].pc = "pick" /\ UNCHANGED <<srv, orc, ctr, crashes>>
  BY DEF IInv, PickService
<1>3. CASE RuntimeFor(c, s) = Nil
  BY <1>1, <1>2, <1>3, FrameCleanup DEF Loop
<1>4. CASE RuntimeFor(c, s) # Nil
  <2> DEFINE k == [call[c] EXCEPT !.pc = "list", !.cur = s]
  <2>1. s \in Service /\ s \in call[c].todo
    BY CallTyped DEF IInv, CallType, StartReady
  <2>2. k \in CallType
    <3>1. "list" \in Labels
      BY LabelsTyped
    <3>2. QED
      BY <2>1, <3>1, CallTyped DEF IInv, CallType
  <2>3. /\ k.pc = "list" /\ k.todo = call[c].todo /\ k.cur = s
        /\ k.kind = call[c].kind /\ k.proj = call[c].proj /\ k.found = call[c].found
    BY CallTyped DEF IInv, CallType
  <2>4. Becomes(c, k)
    BY <1>1, <1>4
  <2> HIDE DEF k
  <2>5. call'[c] = k
    BY <2>2, <2>4, CallMoves DEF IInv
  <2>6. IdentityInv(c)' /\ RuntimeInv(c)'
    BY <1>2, <2>3, <2>5 DEF CallInv, IdentityInv, RuntimeInv, StopLabels, CleanupLabels, Fresh, Loop
  <2>7. Cfg(c)' = Cfg(c) /\ StartReady(c)' = StartReady(c) /\ RuntimeFor(c, s)' = RuntimeFor(c, s)
    BY <1>2, <2>3, <2>5 DEF Cfg, StartReady, RuntimeFor
  <2>8. /\ call[c].todo \subseteq Cfg(c) /\ Untouched(c, call[c].todo)
        /\ \A t \in Cfg(c) \ call[c].todo : Started(c, t)
    BY <1>2, NamesAssumption, CallTyped DEF IInv, CallType, CallInv, LoopInv, Loop, Untouched
  <2>9. LoopInv(c)' /\ ContainerInv(c)'
    BY <1>2, <1>4, <2>1, <2>3, <2>5, <2>7, <2>8
    DEF CallInv, LoopInv, ContainerInv, StopLabels, Fresh, Loop, AtService, Untouched, Started
  <2>10. QED
    BY <1>2, <2>2, <2>3, <2>4, <2>6, <2>9, FrameLocal DEF CallInv
<1>5. QED
  BY <1>3, <1>4

\* What is listed exists.
LEMMA ListExistingKeeps == ASSUME IInv, NEW c \in Call, ListExisting(c) PROVE IInv'
<1> DEFINE r == RuntimeFor(c, call[c].cur)
           f == IF Reachable(c, r) THEN Listed(r, call[c].cur) ELSE {}
           k == [call[c] EXCEPT !.pc = "replace", !.found = f]
<1>1. CallInv(c) /\ call[c].pc = "list" /\ UNCHANGED <<srv, orc, ctr, crashes>>
  BY DEF IInv, ListExisting
<1>2. f \in SUBSET ContainerId /\ \A i \in f : ctr[i].status # "none"
  BY DEF Listed, Present
<1>3. Becomes(c, k)
  BY DEF ListExisting
<1> HIDE DEF f
<1>4. k \in CallType
  BY <1>2, CallTyped DEF IInv, CallType, Labels, StartLabels
<1>5. /\ k.pc = "replace" /\ k.todo = call[c].todo /\ k.cur = call[c].cur
      /\ k.kind = call[c].kind /\ k.proj = call[c].proj /\ k.found = f
  BY CallTyped DEF IInv, CallType
<1> HIDE DEF k, r
<1>6. call'[c] = k
  BY <1>3, <1>4, CallMoves DEF IInv
<1>7. IdentityInv(c)' /\ RuntimeInv(c)'
  BY <1>1, <1>5, <1>6 DEF CallInv, IdentityInv, RuntimeInv, StopLabels, CleanupLabels, Fresh, Loop
<1>8. /\ Cfg(c)' = Cfg(c) /\ StartReady(c)' = StartReady(c)
      /\ RuntimeFor(c, call[c].cur)' = RuntimeFor(c, k.cur)
  BY <1>1, <1>5, <1>6 DEF Cfg, StartReady, RuntimeFor
<1>9. LoopInv(c)' /\ ContainerInv(c)'
  BY <1>1, <1>2, <1>5, <1>6, <1>8
  DEF CallInv, LoopInv, ContainerInv, StopLabels, Fresh, Loop, AtService, Untouched, Started
<1>10. QED
  BY <1>1, <1>3, <1>4, <1>5, <1>7, <1>9, FrameLocal DEF CallInv

\* The runtime cleanup addresses is never nil.
LEMMA CleanupLookupKeeps == ASSUME IInv, NEW c \in Call, CleanupLookup(c) PROVE IInv'
<1>1. PICK i \in call[c].ids :
        Becomes(c, [call[c] EXCEPT !.pc = "cleanstop", !.cur = i[2],
                                   !.target = IF orc[c].rt[i[2]] # Nil
                                              THEN orc[c].rt[i[2]] ELSE orc[c].host])
  BY DEF CleanupLookup
<1> DEFINE r == IF orc[c].rt[i[2]] # Nil THEN orc[c].rt[i[2]] ELSE orc[c].host
           k == [call[c] EXCEPT !.pc = "cleanstop", !.cur = i[2], !.target = r]
<1>2. CallInv(c) /\ call[c].pc = "cleanup" /\ UNCHANGED <<srv, orc, ctr, crashes>>
  BY DEF IInv, CleanupLookup
<1>3. i[2] \in Service
  BY CallTyped DEF IInv, CallType, ContainerId
<1>4. r \in Runtime /\ r # Nil
  <2>1. orc[c].host # Nil
    BY <1>2 DEF CallInv, RuntimeInv, CleanupLabels
  <2>2. QED
    BY <1>3, <2>1, CallTyped, NamesAssumption DEF IInv, OrchType, Runtime
<1>5. Becomes(c, k)
  BY <1>1
<1> HIDE DEF r
<1>6. k \in CallType
  <2>1. "cleanstop" \in Labels
    BY LabelsTyped DEF CleanupLabels
  <2>2. QED
    BY <1>3, <1>4, <2>1, CallTyped DEF IInv, CallType
<1>7. /\ k.pc = "cleanstop" /\ k.cur = i[2] /\ k.target = r
      /\ k.kind = call[c].kind /\ k.proj = call[c].proj /\ k.found = call[c].found
  BY CallTyped DEF IInv, CallType
<1> HIDE DEF k
<1>8. call'[c] = k
  BY <1>5, <1>6, CallMoves DEF IInv
<1>9. IdentityInv(c)' /\ RuntimeInv(c)'
  BY <1>2, <1>3, <1>4, <1>7, <1>8
  DEF CallInv, IdentityInv, RuntimeInv, StopLabels, CleanupLabels, Fresh, Loop
<1>10. LoopInv(c)' /\ ContainerInv(c)'
  BY <1>2, <1>7, <1>8 DEF CallInv, LoopInv, ContainerInv, StopLabels, Fresh, Loop, AtService
<1>11. QED
  BY <1>2, <1>5, <1>6, <1>7, <1>9, <1>10, FrameLocal DEF CallInv

\* Stop takes the published orchestrator, which has its host runtime.
LEMMA StopCallKeeps ==
  ASSUME IInv, NEW c \in Call, NEW p \in Project, StopCall(c, p) PROVE IInv'
<1>1. /\ CallInv(c) /\ call[c].pc = "idle"
      /\ Untouched(c, Service) /\ call[c].cur = Nil
      /\ UNCHANGED <<srv, orc, ctr, crashes>>
  BY DEF IInv, CallInv, IdentityInv, LoopInv, Fresh, StopCall, Issue
<1>2. CASE Becomes(c, [call[c] EXCEPT !.kind = "Stop", !.proj = p, !.pc = "done",
                                      !.result = "error"])
  <2> DEFINE k == [call[c] EXCEPT !.kind = "Stop", !.proj = p, !.pc = "done",
                                  !.result = "error"]
  <2>1. k \in CallType
    BY LabelsTyped, CallTyped DEF IInv, CallType
  <2>2. k.pc = "done" /\ k.kind = "Stop" /\ k.proj = p /\ k.found = call[c].found
    BY CallTyped DEF IInv, CallType
  <2>3. Becomes(c, k)
    BY <1>2
  <2> HIDE DEF k
  <2>4. call'[c] = k
    BY <2>1, <2>3, CallMoves DEF IInv
  <2>5. IdentityInv(c)' /\ RuntimeInv(c)'
    BY <1>1, <2>2, <2>4 DEF CallInv, IdentityInv, RuntimeInv, StopLabels, CleanupLabels, Fresh, Loop
  <2>6. LoopInv(c)' /\ ContainerInv(c)'
    BY <1>1, <2>2, <2>4 DEF CallInv, LoopInv, ContainerInv, StopLabels, Fresh, Loop, AtService
  <2>7. QED
    BY <1>1, <2>1, <2>3, <2>5, <2>6, FrameLocal DEF CallInv
<1>3. CASE /\ srv.orch # Nil
           /\ Becomes(c, [call[c] EXCEPT !.kind = "Stop", !.proj = p, !.pc = "stopnext",
                                         !.orch = srv.orch, !.todo = Services[p]])
  <2> DEFINE k == [call[c] EXCEPT !.kind = "Stop", !.proj = p, !.pc = "stopnext",
                                  !.orch = srv.orch, !.todo = Services[p]]
  <2>1. srv.orch \in Call /\ orc[srv.orch].host # Nil
    BY <1>3 DEF IInv, TypeOK, ServerType
  <2>2. k \in CallType
    <3>1. "stopnext" \in Labels
      BY LabelsTyped DEF StopLabels
    <3>2. Services[p] \in SUBSET Service
      BY ConfigAssumption
    <3>3. srv.orch \in Call \cup {Nil}
      BY <2>1
    <3>4. call[c] \in CallType
      BY CallTyped DEF IInv
    <3>5. QED
      BY <3>1, <3>2, <3>3, <3>4 DEF CallType
  <2>3. /\ k.pc = "stopnext" /\ k.kind = "Stop" /\ k.proj = p /\ k.orch = srv.orch
        /\ k.cur = call[c].cur /\ k.found = call[c].found
    BY CallTyped DEF IInv, CallType
  <2>4. Becomes(c, k)
    BY <1>3
  <2> HIDE DEF k
  <2>5. call'[c] = k
    BY <2>2, <2>4, CallMoves DEF IInv
  <2>6. IdentityInv(c)' /\ RuntimeInv(c)'
    BY <1>1, <2>1, <2>3, <2>5 DEF CallInv, IdentityInv, RuntimeInv, CleanupLabels, Fresh, Loop
  <2>7. LoopInv(c)' /\ ContainerInv(c)'
    BY <1>1, <2>3, <2>5 DEF CallInv, LoopInv, ContainerInv, Loop, AtService, Untouched
  <2>8. QED
    BY <1>1, <2>2, <2>4, <2>6, <2>7, FrameLocal DEF CallInv
<1>4. QED
  BY <1>2, <1>3 DEF StopCall

\* The runtime Stop asks for a service is never nil.
LEMMA StopLookupKeeps == ASSUME IInv, NEW c \in Call, StopLookup(c) PROVE IInv'
<1> DEFINE r(s) == LookupRuntime(call[c].orch, s)
           k(s) == [call[c] EXCEPT !.pc = "stoplist", !.cur = s, !.target = r(s)]
<1>1. PICK s \in StopReady(c) : Becomes(c, k(s))
  BY DEF StopLookup
<1>2. CallInv(c) /\ call[c].pc = "stopnext" /\ UNCHANGED <<srv, orc, ctr, crashes>>
  BY DEF IInv, StopLookup
<1>3. s \in Service
  BY CallTyped DEF IInv, CallType, StopReady
<1>4. r(s) \in Runtime /\ r(s) # Nil
  <2>1. call[c].orch \in Call /\ orc[call[c].orch].host # Nil
    BY <1>2 DEF CallInv, IdentityInv, RuntimeInv, StopLabels
  <2>2. QED
    BY <1>3, <2>1, CallTyped, NamesAssumption DEF IInv, OrchType, Runtime, LookupRuntime
<1> HIDE DEF r
<1>5. k(s) \in CallType
  <2>1. "stoplist" \in Labels
    BY LabelsTyped DEF StopLabels
  <2>2. QED
    BY <1>3, <1>4, <2>1, CallTyped DEF IInv, CallType
<1>6. /\ k(s).pc = "stoplist" /\ k(s).cur = s /\ k(s).target = r(s) /\ k(s).orch = call[c].orch
      /\ k(s).kind = call[c].kind /\ k(s).proj = call[c].proj /\ k(s).found = call[c].found
  BY CallTyped DEF IInv, CallType
<1> HIDE DEF k
<1>7. call'[c] = k(s)
  BY <1>1, <1>5, CallMoves DEF IInv
<1>8. IdentityInv(c)' /\ RuntimeInv(c)'
  BY <1>2, <1>3, <1>4, <1>6, <1>7
  DEF CallInv, IdentityInv, RuntimeInv, StopLabels, CleanupLabels, Fresh, Loop
<1>9. LoopInv(c)' /\ ContainerInv(c)'
  BY <1>2, <1>6, <1>7 DEF CallInv, LoopInv, ContainerInv, StopLabels, Fresh, Loop, AtService, Untouched
<1>10. QED
  BY <1>1, <1>2, <1>5, <1>6, <1>8, <1>9, FrameLocal DEF CallInv

\* Stop lists containers that exist, or skips the service.
LEMMA StopListKeeps == ASSUME IInv, NEW c \in Call, StopList(c) PROVE IInv'
<1>1. CallInv(c) /\ call[c].pc = "stoplist" /\ UNCHANGED <<srv, orc, ctr, crashes>>
  BY DEF IInv, StopList
<1>2. CASE Reachable(c, call[c].target)
  <2> DEFINE f == Listed(call[c].target, call[c].cur)
             k == [call[c] EXCEPT !.pc = "stopone", !.found = f]
  <2>1. f \in SUBSET ContainerId /\ \A i \in f : ctr[i].status # "none"
    BY DEF Listed, Present
  <2>2. Becomes(c, k)
    BY <1>2 DEF StopList
  <2> HIDE DEF f
  <2>3. k \in CallType
    <3>1. "stopone" \in Labels
      BY LabelsTyped DEF StopLabels
    <3>2. QED
      BY <2>1, <3>1, CallTyped DEF IInv, CallType
  <2>4. /\ k.pc = "stopone" /\ k.cur = call[c].cur /\ k.target = call[c].target /\ k.orch = call[c].orch
        /\ k.kind = call[c].kind /\ k.proj = call[c].proj /\ k.found = f
    BY CallTyped DEF IInv, CallType
  <2> HIDE DEF k
  <2>5. call'[c] = k
    BY <2>2, <2>3, CallMoves DEF IInv
  <2>6. IdentityInv(c)' /\ RuntimeInv(c)'
    BY <1>1, <2>4, <2>5 DEF CallInv, IdentityInv, RuntimeInv, StopLabels, CleanupLabels, Fresh, Loop
  <2>7. LoopInv(c)' /\ ContainerInv(c)'
    BY <1>1, <2>1, <2>4, <2>5
    DEF CallInv, LoopInv, ContainerInv, StopLabels, Fresh, Loop, AtService, Untouched
  <2>8. QED
    BY <1>1, <2>2, <2>3, <2>4, <2>6, <2>7, FrameLocal DEF CallInv
<1>3. CASE ~Reachable(c, call[c].target)
  <2> DEFINE k == [call[c] EXCEPT !.pc = "stopnext", !.cur = Nil, !.target = Nil,
                                  !.todo = @ \ {call[c].cur}]
  <2>1. Becomes(c, k)
    BY <1>3 DEF StopList
  <2>2. k \in CallType
    <3>1. "stopnext" \in Labels
      BY LabelsTyped DEF StopLabels
    <3>2. QED
      BY <3>1, CallTyped DEF IInv, CallType
  <2>3. /\ k.pc = "stopnext" /\ k.cur = Nil /\ k.orch = call[c].orch
        /\ k.kind = call[c].kind /\ k.proj = call[c].proj /\ k.found = call[c].found
    BY CallTyped DEF IInv, CallType
  <2> HIDE DEF k
  <2>4. call'[c] = k
    BY <2>1, <2>2, CallMoves DEF IInv
  <2>5. IdentityInv(c)' /\ RuntimeInv(c)'
    BY <1>1, <2>3, <2>4 DEF CallInv, IdentityInv, RuntimeInv, StopLabels, CleanupLabels, Fresh, Loop
  <2>6. LoopInv(c)' /\ ContainerInv(c)'
    BY <1>1, <2>3, <2>4
    DEF CallInv, LoopInv, ContainerInv, StopLabels, Fresh, Loop, AtService, Untouched
  <2>7. QED
    BY <1>1, <2>1, <2>2, <2>3, <2>5, <2>6, FrameLocal DEF CallInv
<1>4. QED
  BY <1>2, <1>3

\* The client leaves; the handler stays where it is.
LEMMA DisconnectKeeps == ASSUME IInv, NEW c \in Call, Disconnect(c) PROVE IInv'
<1> DEFINE k == [call[c] EXCEPT !.cancelled = TRUE, !.result = "cancelled"]
<1>1. k \in CallType
  BY CallTyped DEF IInv, CallType
<1>2. /\ k.pc = call[c].pc /\ k.cur = call[c].cur /\ k.target = call[c].target
      /\ k.orch = call[c].orch /\ k.todo = call[c].todo
      /\ k.kind = call[c].kind /\ k.proj = call[c].proj /\ k.found = call[c].found
  BY CallTyped DEF IInv, CallType
<1>3. Becomes(c, k) /\ CallInv(c) /\ UNCHANGED <<srv, orc, ctr, crashes>>
  BY DEF Disconnect, IInv
<1> HIDE DEF k
<1>4. call'[c] = k
  BY <1>1, <1>3, CallMoves DEF IInv
<1>5. IdentityInv(c)' /\ RuntimeInv(c)'
  BY <1>2, <1>3, <1>4 DEF CallInv, IdentityInv, RuntimeInv
<1>6. /\ Cfg(c)' = Cfg(c) /\ StartReady(c)' = StartReady(c)
      /\ RuntimeFor(c, call[c].cur)' = RuntimeFor(c, k.cur)
  BY <1>2, <1>3, <1>4 DEF Cfg, StartReady, RuntimeFor
<1>7. LoopInv(c)' /\ ContainerInv(c)'
  BY <1>2, <1>3, <1>4, <1>6 DEF CallInv, LoopInv, ContainerInv, Untouched, Started
<1>8. QED
  BY <1>1, <1>2, <1>3, <1>5, <1>7, FrameLocal DEF CallInv

\* ---- Steps on the server and on orchestrators

\* Runtimes are published and never taken back.
LEMMA ConnectRuntimesKeeps == ASSUME IInv, NEW c \in Call, ConnectRuntimes(c) PROVE IInv'
<1> DEFINE k == [call[c] EXCEPT !.pc = "readrt"]
<1>1. k \in CallType
  <2>1. "readrt" \in Labels
    BY LabelsTyped
  <2>2. QED
    BY <2>1, CallTyped DEF IInv, CallType
<1>2. /\ k.pc = "readrt" /\ k.cur = call[c].cur
      /\ k.kind = call[c].kind /\ k.proj = call[c].proj /\ k.found = call[c].found
  BY CallTyped DEF IInv, CallType
<1>3. /\ Becomes(c, k) /\ CallInv(c) /\ call[c].pc = "connect"
      /\ UNCHANGED <<orc, ctr, crashes>>
  BY DEF ConnectRuntimes, IInv
<1> HIDE DEF k
<1>4. /\ call'[c] = k /\ call' \in [Call -> CallType]
      /\ \A d \in Call \ {c} : call'[d] = call[d]
  BY <1>1, <1>3, CallMoves DEF IInv
<1>5. srv' \in ServerType /\ srv'.host = c /\ srv'.orch = srv.orch
  BY DEF IInv, TypeOK, ServerType, ConnectRuntimes
<1>6. TypeOK'
  BY <1>3, <1>4, <1>5 DEF IInv, TypeOK
<1>7. IdentityInv(c)' /\ RuntimeInv(c)'
  BY <1>2, <1>3, <1>4, <1>5, NamesAssumption
  DEF CallInv, IdentityInv, RuntimeInv, StopLabels, CleanupLabels, Fresh, Loop
<1>8. LoopInv(c)' /\ ContainerInv(c)'
  BY <1>2, <1>3, <1>4
  DEF CallInv, LoopInv, ContainerInv, StopLabels, Fresh, Loop, AtService, Untouched
<1>9. \A i \in ContainerId : Steady(i)
  BY <1>3 DEF Steady
<1>10. QED
  BY <1>2, <1>3, <1>4, <1>5, <1>6, <1>7, <1>8, <1>9, NamesAssumption, FrameStep
  DEF CallInv, IInv

\* The first read of NewOrchestrator.
LEMMA ReadDockerRuntimeKeeps == ASSUME IInv, NEW c \in Call, ReadDockerRuntime(c) PROVE IInv'
<1> DEFINE k == [call[c] EXCEPT !.pc = "setup"]
           o == [NoOrch EXCEPT !.docker = srv.docker]
<1>1. k \in CallType
  <2>1. "setup" \in Labels
    BY LabelsTyped
  <2>2. QED
    BY <2>1, CallTyped DEF IInv, CallType
<1>2. /\ k.pc = "setup" /\ k.cur = call[c].cur
      /\ k.kind = call[c].kind /\ k.proj = call[c].proj /\ k.found = call[c].found
  BY CallTyped DEF IInv, CallType
<1>3. o \in OrchType /\ o.host = Nil /\ \A s \in Service : o.rt[s] = Nil
  BY DEF NoOrch, OrchType, IInv, TypeOK, ServerType
<1>4. /\ Becomes(c, k) /\ CallInv(c) /\ call[c].pc = "readrt"
      /\ UNCHANGED <<srv, ctr, crashes>> /\ orc' = [orc EXCEPT ![c] = o]
  BY DEF ReadDockerRuntime, IInv
<1> HIDE DEF k, o
<1>5. /\ call'[c] = k /\ call' \in [Call -> CallType]
      /\ \A d \in Call \ {c} : call'[d] = call[d]
  BY <1>1, <1>4, CallMoves DEF IInv
<1>6. /\ orc' \in [Call -> OrchType] /\ orc'[c] = o
      /\ \A d \in Call \ {c} : orc'[d] = orc[d]
  BY <1>3, <1>4 DEF IInv, TypeOK
<1>7. TypeOK'
  BY <1>4, <1>5, <1>6 DEF IInv, TypeOK
<1>8. orc[c].host = Nil
  BY <1>4 DEF CallInv, RuntimeInv, Fresh
<1>9. srv'.orch # Nil => orc'[srv'.orch].host # Nil
  BY <1>4, <1>6, <1>8 DEF IInv, TypeOK, ServerType
<1>10. IdentityInv(c)' /\ RuntimeInv(c)'
  BY <1>2, <1>3, <1>4, <1>5, <1>6
  DEF CallInv, IdentityInv, RuntimeInv, StopLabels, CleanupLabels, Fresh, Loop
<1>11. LoopInv(c)' /\ ContainerInv(c)'
  BY <1>2, <1>4, <1>5
  DEF CallInv, LoopInv, ContainerInv, StopLabels, Fresh, Loop, AtService, Untouched
<1>12. \A i \in ContainerId : Steady(i)
  BY <1>4 DEF Steady
<1>13. \A d \in Call, s \in Service : orc'[d].rt[s] \in {orc[d].rt[s], Nil}
  BY <1>3, <1>6
<1>14. QED
  BY <1>2, <1>4, <1>5, <1>6, <1>7, <1>8, <1>9, <1>10, <1>11, <1>12, <1>13, FrameStep DEF CallInv

\* The second read finds a host runtime, then the orchestrator is published.
LEMMA SetupOrchestratorKeeps == ASSUME IInv, NEW c \in Call, SetupOrchestrator(c) PROVE IInv'
<1> DEFINE k == [call[c] EXCEPT !.pc = "network"]
           o == [orc[c] EXCEPT !.host = srv.host]
<1>1. k \in CallType
  <2>1. "network" \in Labels
    BY LabelsTyped
  <2>2. QED
    BY <2>1, CallTyped DEF IInv, CallType
<1>2. /\ k.pc = "network" /\ k.cur = call[c].cur
      /\ k.kind = call[c].kind /\ k.proj = call[c].proj /\ k.found = call[c].found
  BY CallTyped DEF IInv, CallType
<1>3. /\ Becomes(c, k) /\ CallInv(c) /\ call[c].pc = "setup"
      /\ UNCHANGED <<ctr, crashes>> /\ orc' = [orc EXCEPT ![c] = o]
  BY DEF SetupOrchestrator, IInv
<1>4. /\ srv' \in ServerType /\ srv'.orch = c /\ srv'.host = srv.host
      /\ srv.host # Nil
  BY <1>3 DEF SetupOrchestrator, IInv, TypeOK, ServerType, CallInv, RuntimeInv
<1>5. o \in OrchType /\ o.host # Nil /\ o.rt = orc[c].rt
  <2>1. srv.host \in Call \cup {Nil} /\ orc[c] \in OrchType
    BY DEF IInv, TypeOK, ServerType
  <2>2. QED
    BY <1>4, <2>1 DEF OrchType
<1> HIDE DEF k, o
<1>6. /\ call'[c] = k /\ call' \in [Call -> CallType]
      /\ \A d \in Call \ {c} : call'[d] = call[d]
  BY <1>1, <1>3, CallMoves DEF IInv
<1>7. /\ orc' \in [Call -> OrchType] /\ orc'[c] = o
      /\ \A d \in Call \ {c} : orc'[d] = orc[d]
  BY <1>3, <1>5 DEF IInv, TypeOK
<1>8. TypeOK'
  BY <1>3, <1>4, <1>6, <1>7 DEF IInv, TypeOK
<1>9. IdentityInv(c)' /\ RuntimeInv(c)'
  BY <1>2, <1>3, <1>5, <1>6, <1>7
  DEF CallInv, IdentityInv, RuntimeInv, StopLabels, CleanupLabels, Fresh, Loop
<1>10. LoopInv(c)' /\ ContainerInv(c)'
  BY <1>2, <1>3, <1>6
  DEF CallInv, LoopInv, ContainerInv, StopLabels, Fresh, Loop, AtService, Untouched
<1>11. \A i \in ContainerId : Steady(i)
  BY <1>3 DEF Steady
<1>12. \A d \in Call, s \in Service : orc'[d].rt[s] \in {orc[d].rt[s], Nil}
  BY <1>5, <1>7
<1>13. QED
  BY <1>2, <1>3, <1>4, <1>5, <1>6, <1>7, <1>8, <1>9, <1>10, <1>11, <1>12, FrameStep DEF CallInv

\* Reset's orchestrator has the runtimes published at its entry.
LEMMA ResetCallKeeps ==
  ASSUME IInv, NEW c \in Call, NEW p \in Project, ResetCall(c, p) PROVE IInv'
<1>1. /\ CallInv(c) /\ call[c].pc = "idle"
      /\ Untouched(c, Service) /\ call[c].cur = Nil
      /\ UNCHANGED <<srv, ctr, crashes>>
  BY DEF IInv, CallInv, IdentityInv, LoopInv, Fresh, ResetCall, Issue
<1>2. CASE /\ UNCHANGED orc
           /\ Becomes(c, [call[c] EXCEPT !.kind = "Reset", !.proj = p, !.pc = "done",
                                         !.result = "error"])
  <2> DEFINE k == [call[c] EXCEPT !.kind = "Reset", !.proj = p, !.pc = "done",
                                  !.result = "error"]
  <2>1. k \in CallType
    BY LabelsTyped, CallTyped DEF IInv, CallType
  <2>2. k.pc = "done" /\ k.kind = "Reset" /\ k.proj = p /\ k.found = call[c].found
    BY CallTyped DEF IInv, CallType
  <2>3. Becomes(c, k)
    BY <1>2
  <2> HIDE DEF k
  <2>4. call'[c] = k
    BY <2>1, <2>3, CallMoves DEF IInv
  <2>5. IdentityInv(c)' /\ RuntimeInv(c)'
    BY <1>1, <2>2, <2>4 DEF CallInv, IdentityInv, RuntimeInv, StopLabels, CleanupLabels, Fresh, Loop
  <2>6. LoopInv(c)' /\ ContainerInv(c)'
    BY <1>1, <2>2, <2>4 DEF CallInv, LoopInv, ContainerInv, StopLabels, Fresh, Loop, AtService
  <2>7. QED
    BY <1>1, <1>2, <2>1, <2>3, <2>5, <2>6, FrameLocal DEF CallInv
<1>3. CASE /\ srv.host # Nil
           /\ orc' = [orc EXCEPT ![c] = [NoOrch EXCEPT !.host = srv.host, !.docker = srv.docker]]
           /\ Becomes(c, [call[c] EXCEPT !.kind = "Reset", !.proj = p, !.orch = c,
                                         !.pc = "stopnext", !.todo = Services[p]])
  <2> DEFINE k == [call[c] EXCEPT !.kind = "Reset", !.proj = p, !.orch = c,
                                  !.pc = "stopnext", !.todo = Services[p]]
             o == [NoOrch EXCEPT !.host = srv.host, !.docker = srv.docker]
  <2>1. o \in OrchType /\ o.host # Nil /\ \A s \in Service : o.rt[s] = Nil
    BY <1>3 DEF NoOrch, OrchType, IInv, TypeOK, ServerType
  <2>2. k \in CallType
    <3>1. "stopnext" \in Labels
      BY LabelsTyped DEF StopLabels
    <3>2. Services[p] \in SUBSET Service
      BY ConfigAssumption
    <3>3. QED
      BY <3>1, <3>2, CallTyped DEF IInv, CallType
  <2>3. /\ k.pc = "stopnext" /\ k.kind = "Reset" /\ k.proj = p /\ k.orch = c
        /\ k.cur = call[c].cur /\ k.found = call[c].found
    BY CallTyped DEF IInv, CallType
  <2>4. Becomes(c, k) /\ orc' = [orc EXCEPT ![c] = o]
    BY <1>3
  <2> HIDE DEF k, o
  <2>5. /\ call'[c] = k /\ call' \in [Call -> CallType]
        /\ \A d \in Call \ {c} : call'[d] = call[d]
    BY <2>2, <2>4, CallMoves DEF IInv
  <2>6. /\ orc' \in [Call -> OrchType] /\ orc'[c] = o
        /\ \A d \in Call \ {c} : orc'[d] = orc[d]
    BY <2>1, <2>4 DEF IInv, TypeOK
  <2>7. TypeOK'
    BY <1>1, <2>5, <2>6 DEF IInv, TypeOK
  <2>8. srv'.orch # Nil => orc'[srv'.orch].host # Nil
    BY <1>1, <2>1, <2>6 DEF IInv, TypeOK, ServerType
  <2>9. IdentityInv(c)' /\ RuntimeInv(c)'
    BY <1>1, <2>1, <2>3, <2>5, <2>6 DEF CallInv, IdentityInv, RuntimeInv, CleanupLabels, Fresh, Loop
  <2>10. LoopInv(c)' /\ ContainerInv(c)'
    BY <1>1, <2>3, <2>5 DEF CallInv, LoopInv, ContainerInv, Loop, AtService, Untouched
  <2>11. \A i \in ContainerId : Steady(i)
    BY <1>1 DEF Steady
  <2>12. \A d \in Call, s \in Service : orc'[d].rt[s] \in {orc[d].rt[s], Nil}
    BY <2>1, <2>6
  <2>13. QED
    BY <1>1, <2>1, <2>5, <2>6, <2>7, <2>8, <2>9, <2>10, <2>11, <2>12, FrameStep DEF CallInv
<1>4. QED
  BY <1>2, <1>3 DEF ResetCall

\* Steps on an orchestrator and the call that works with it.
LEMMA FrameOrchestrator ==
  ASSUME IInv, NEW c \in Call, NEW k \in CallType, Becomes(c, k), CallInv(c)',
         UNCHANGED <<srv, ctr, crashes>>, k.proj = call[c].proj,
         orc' \in [Call -> OrchType],
         \A d \in Call : orc'[d].host = orc[d].host /\ orc'[d].docker = orc[d].docker,
         \A d \in Call, s \in Service : orc'[d].rt[s] \in {orc[d].rt[s], Nil}
  PROVE  IInv'
<1>1. /\ call'[c] = k /\ call' \in [Call -> CallType]
      /\ \A d \in Call \ {c} : call'[d] = call[d]
  BY CallMoves DEF IInv
<1>2. TypeOK'
  BY <1>1 DEF IInv, TypeOK
<1>3. \A i \in ContainerId : Steady(i)
  BY DEF Steady
<1>4. srv'.orch # Nil => orc'[srv'.orch].host # Nil
  BY DEF IInv, TypeOK, ServerType
<1>5. QED
  BY <1>1, <1>2, <1>3, <1>4, FrameStep

\* The collector of the current service starts, and the service leaves todo.
LEMMA StartCollectorKeeps == ASSUME IInv, NEW c \in Call, StartCollector(c) PROVE IInv'
<1> DEFINE s == call[c].cur
           k == [call[c] EXCEPT !.pc = "pick", !.cur = Nil, !.todo = @ \ {s}]
           o == [orc[c] EXCEPT !.collectors = @ \cup {s}]
<1>1. /\ CallInv(c) /\ call[c].pc = "collect" /\ UNCHANGED <<srv, ctr, crashes>>
      /\ Becomes(c, k) /\ orc' = [orc EXCEPT ![c] = o]
  BY DEF IInv, StartCollector
<1>2. s \in Service /\ s \in call[c].todo
  BY <1>1, CallTyped DEF IInv, CallInv, LoopInv, StartReady, AtService, Loop, CallType
<1>3. k \in CallType
  <2>1. "pick" \in Labels
    BY DEF Labels, StartLabels
  <2>2. QED
    BY <2>1, CallTyped DEF IInv, CallType
<1>4. /\ k.pc = "pick" /\ k.cur = Nil /\ k.todo = call[c].todo \ {s}
      /\ k.kind = call[c].kind /\ k.proj = call[c].proj /\ k.found = call[c].found
  BY CallTyped DEF IInv, CallType
<1>5. o \in OrchType /\ o.host = orc[c].host /\ o.docker = orc[c].docker /\ o.rt = orc[c].rt
  BY <1>2, CallTyped DEF IInv, OrchType
<1> HIDE DEF k, o
<1>6. /\ orc' \in [Call -> OrchType] /\ orc'[c] = o
      /\ \A d \in Call \ {c} : orc'[d] = orc[d]
  BY <1>1, <1>5 DEF IInv, TypeOK
<1>7. call'[c] = k
  BY <1>1, <1>3, CallMoves DEF IInv
<1>8. IdentityInv(c)' /\ RuntimeInv(c)'
  BY <1>1, <1>4, <1>5, <1>6, <1>7
  DEF CallInv, IdentityInv, RuntimeInv, StopLabels, CleanupLabels, Fresh, Loop
<1>9. Cfg(c)' = Cfg(c)
  BY <1>1, <1>4, <1>7 DEF Cfg
<1>10. Started(c, s)
  BY <1>1 DEF CallInv, ContainerInv
<1>11. LoopInv(c)'
  BY <1>1, <1>2, <1>4, <1>7, <1>9, <1>10
  DEF CallInv, LoopInv, StopLabels, Fresh, Loop, AtService, Untouched, Started
<1>12. ContainerInv(c)'
  BY <1>1, <1>4, <1>7 DEF CallInv, ContainerInv
<1>13. QED
  BY <1>1, <1>3, <1>4, <1>5, <1>6, <1>8, <1>11, <1>12, FrameOrchestrator DEF CallInv

\* Stop has dealt with a service.
LEMMA ServiceStoppedKeeps == ASSUME IInv, NEW c \in Call, ServiceStopped(c) PROVE IInv'
<1> DEFINE s == call[c].cur
           e == call[c].orch
           k == [call[c] EXCEPT !.pc = "stopnext", !.cur = Nil, !.target = Nil,
                                !.todo = @ \ {s}]
           o == [orc[e] EXCEPT !.collectors = @ \ {s}]
<1>1. /\ CallInv(c) /\ call[c].pc = "stopone" /\ UNCHANGED <<srv, ctr, crashes>>
      /\ Becomes(c, k) /\ orc' = [orc EXCEPT ![e] = o]
  BY DEF IInv, ServiceStopped
<1>2. e \in Call
  BY <1>1 DEF CallInv, IdentityInv, StopLabels
<1>3. k \in CallType
  <2>1. "stopnext" \in Labels
    BY LabelsTyped DEF StopLabels
  <2>2. QED
    BY <2>1, CallTyped DEF IInv, CallType
<1>4. /\ k.pc = "stopnext" /\ k.cur = Nil /\ k.orch = e
      /\ k.kind = call[c].kind /\ k.proj = call[c].proj /\ k.found = call[c].found
  BY CallTyped DEF IInv, CallType
<1>5. o \in OrchType /\ o.host = orc[e].host /\ o.docker = orc[e].docker /\ o.rt = orc[e].rt
  BY <1>2, CallTyped DEF IInv, OrchType
<1> HIDE DEF k, o
<1>6. /\ orc' \in [Call -> OrchType] /\ orc'[e] = o
      /\ \A d \in Call \ {e} : orc'[d] = orc[d]
  BY <1>1, <1>2, <1>5 DEF IInv, TypeOK
<1>7. call'[c] = k
  BY <1>1, <1>3, CallMoves DEF IInv
<1>8. IdentityInv(c)' /\ RuntimeInv(c)'
  BY <1>1, <1>2, <1>4, <1>5, <1>6, <1>7
  DEF CallInv, IdentityInv, RuntimeInv, StopLabels, CleanupLabels, Fresh, Loop
<1>9. LoopInv(c)' /\ ContainerInv(c)'
  BY <1>1, <1>4, <1>7
  DEF CallInv, LoopInv, ContainerInv, StopLabels, Fresh, Loop, AtService, Untouched
<1>10. QED
  BY <1>1, <1>3, <1>4, <1>5, <1>6, <1>8, <1>9, FrameOrchestrator DEF CallInv

\* Stop empties containerRT; Reset turns to Start.
LEMMA StopDoneKeeps == ASSUME IInv, NEW c \in Call, StopDone(c) PROVE IInv'
<1> DEFINE e == call[c].orch
           o == [orc[e] EXCEPT !.rt = NoOrch.rt]
<1>1. /\ CallInv(c) /\ call[c].pc = "stopnext" /\ UNCHANGED <<srv, ctr, crashes>>
      /\ orc' = [orc EXCEPT ![e] = o]
  BY DEF IInv, StopDone
<1>2. e \in Call
  BY <1>1 DEF CallInv, IdentityInv, StopLabels
<1>3. /\ o \in OrchType /\ o.host = orc[e].host /\ o.docker = orc[e].docker
      /\ \A s \in Service : o.rt[s] = Nil
  BY <1>2, CallTyped DEF IInv, OrchType, NoOrch
<1> HIDE DEF o
<1>4. /\ orc' \in [Call -> OrchType] /\ orc'[e] = o
      /\ \A d \in Call \ {e} : orc'[d] = orc[d]
  BY <1>1, <1>2, <1>3 DEF IInv, TypeOK
<1>5. /\ \A d \in Call : orc'[d].host = orc[d].host /\ orc'[d].docker = orc[d].docker
      /\ \A d \in Call, s \in Service : orc'[d].rt[s] \in {orc[d].rt[s], Nil}
  BY <1>3, <1>4
<1>6. CASE Becomes(c, [call[c] EXCEPT !.pc = "done", !.result = Return(c, "ok")])
  <2> DEFINE k == [call[c] EXCEPT !.pc = "done", !.result = Return(c, "ok")]
  <2>1. k \in CallType
    BY LabelsTyped, CallTyped DEF IInv, CallType
  <2>2. k.pc = "done" /\ k.kind = call[c].kind /\ k.proj = call[c].proj /\ k.found = call[c].found
    BY CallTyped DEF IInv, CallType
  <2>3. Becomes(c, k)
    BY <1>6
  <2> HIDE DEF k
  <2>4. call'[c] = k
    BY <2>1, <2>3, CallMoves DEF IInv
  <2>5. IdentityInv(c)' /\ RuntimeInv(c)'
    BY <1>1, <2>2, <2>4 DEF CallInv, IdentityInv, RuntimeInv, StopLabels, CleanupLabels, Fresh, Loop
  <2>6. LoopInv(c)' /\ ContainerInv(c)'
    BY <1>1, <2>2, <2>4 DEF CallInv, LoopInv, ContainerInv, StopLabels, Fresh, Loop, AtService
  <2>7. QED
    BY <1>1, <1>4, <1>5, <2>1, <2>2, <2>3, <2>5, <2>6, FrameOrchestrator DEF CallInv
<1>7. CASE call[c].kind = "Reset" /\ Becomes(c, [call[c] EXCEPT !.pc = "network"])
  <2> DEFINE k == [call[c] EXCEPT !.pc = "network"]
  <2>1. k \in CallType
    <3>1. "network" \in Labels
      BY LabelsTyped
    <3>2. QED
      BY <3>1, CallTyped DEF IInv, CallType
  <2>2. /\ k.pc = "network" /\ k.cur = call[c].cur
        /\ k.kind = call[c].kind /\ k.proj = call[c].proj /\ k.found = call[c].found
    BY CallTyped DEF IInv, CallType
  <2>3. Becomes(c, k)
    BY <1>7
  <2> HIDE DEF k
  <2>4. call'[c] = k
    BY <2>1, <2>3, CallMoves DEF IInv
  <2>5. e = c /\ orc[c].host # Nil
    BY <1>1, <1>7 DEF CallInv, IdentityInv, RuntimeInv, StopLabels
  <2>6. IdentityInv(c)' /\ RuntimeInv(c)'
    BY <1>1, <1>5, <2>2, <2>4, <2>5
    DEF CallInv, IdentityInv, RuntimeInv, StopLabels, CleanupLabels, Fresh, Loop
  <2>7. LoopInv(c)' /\ ContainerInv(c)'
    BY <1>1, <2>2, <2>4
    DEF CallInv, LoopInv, ContainerInv, StopLabels, Fresh, Loop, AtService, Untouched
  <2>8. QED
    BY <1>1, <1>4, <1>5, <2>1, <2>2, <2>3, <2>6, <2>7, FrameOrchestrator DEF CallInv
<1>8. QED
  BY <1>6, <1>7 DEF StopDone

\* ---- Steps on containers

\* Removing a container that exists, and the end of one that runs, are steady.
LEMMA RemoveSteady ==
  ASSUME TypeOK, NEW i \in ContainerId, Remove({i})
  PROVE  ctr' \in [ContainerId -> ContainerType] /\ \A j \in ContainerId : Steady(j)
<1>1. /\ DOMAIN ctr' = ContainerId /\ ctr' = [j \in ContainerId |-> ctr'[j]]
      /\ \A j \in ContainerId :
           ctr'[j] = IF j \in {i} /\ ctr[j].status \in Present
                     THEN [ctr[j] EXCEPT !.status = "removed"] ELSE ctr[j]
  BY DEF Remove
<1>2. ASSUME NEW j \in ContainerId PROVE ctr'[j] \in ContainerType /\ Steady(j)
  <2>1. CASE j = i /\ ctr[i].status \in Present
    <3>1. ctr[i] \in [rt : Runtime, status : Present \cup {"removed", "lost"}]
      BY <2>1 DEF TypeOK, ContainerType, Present
    <3>2. /\ [ctr[i] EXCEPT !.status = "removed"] \in ContainerType
          /\ [ctr[i] EXCEPT !.status = "removed"].status = "removed"
          /\ [ctr[i] EXCEPT !.status = "removed"].rt = ctr[i].rt
      BY <3>1 DEF ContainerType
    <3>3. ctr'[j].status = "removed" /\ ctr'[j].rt = ctr[j].rt /\ ctr'[j] \in ContainerType
      BY <1>1, <2>1, <3>2
    <3>4. QED
      BY <2>1, <3>3 DEF Steady, Present
  <2>2. CASE ~(j = i /\ ctr[i].status \in Present)
    <3>1. ctr'[j] = ctr[j]
      BY <1>1, <2>2
    <3>2. QED
      BY <3>1 DEF TypeOK, Steady
  <2>3. QED
    BY <2>1, <2>2
<1>3. ctr' \in [ContainerId -> ContainerType]
  <2>1. \A j \in ContainerId : ctr'[j] \in ContainerType
    BY <1>2
  <2>2. ctr' = [j \in ContainerId |-> ctr'[j]]
    BY <1>1
  <2>3. QED
    BY <2>1, <2>2
<1>4. QED
  BY <1>2, <1>3

\* A container that was started goes on to another state, and nothing else changes.
LEMMA EndSteady ==
  ASSUME TypeOK, NEW i \in ContainerId, ctr[i].status # "none",
         NEW end \in {"running", "exited", "killed", "removed", "lost"},
         ctr' = [ctr EXCEPT ![i].status = end]
  PROVE  /\ ctr' \in [ContainerId -> ContainerType] /\ \A j \in ContainerId : Steady(j)
         /\ ctr'[i].status = end /\ ctr'[i].rt = ctr[i].rt
         /\ \A j \in ContainerId \ {i} : ctr'[j] = ctr[j]
<1>1. ctr[i] \in [rt : Runtime, status : Present \cup {"removed", "lost"}]
  BY DEF TypeOK, ContainerType
<1>2. /\ [ctr[i] EXCEPT !.status = end] \in ContainerType
      /\ [ctr[i] EXCEPT !.status = end].status = end
      /\ [ctr[i] EXCEPT !.status = end].rt = ctr[i].rt
  BY <1>1 DEF ContainerType, Present
<1>3. /\ ctr'[i] = [ctr[i] EXCEPT !.status = end]
      /\ \A j \in ContainerId \ {i} : ctr'[j] = ctr[j]
  BY DEF TypeOK
<1>4. QED
  BY <1>2, <1>3 DEF TypeOK, Steady

\* Leaving the containers alone is steady.
LEMMA SameSteady ==
  ASSUME TypeOK, UNCHANGED ctr
  PROVE  ctr' \in [ContainerId -> ContainerType] /\ \A j \in ContainerId : Steady(j)
  BY DEF TypeOK, Steady

\* Steps on containers that do not create one, and the call that takes them.
LEMMA FrameContainers ==
  ASSUME IInv, NEW c \in Call, NEW k \in CallType, Becomes(c, k), CallInv(c)',
         UNCHANGED <<srv, orc, crashes>>, k.proj = call[c].proj,
         ctr' \in [ContainerId -> ContainerType], \A i \in ContainerId : Steady(i)
  PROVE  IInv'
<1>1. /\ call'[c] = k /\ call' \in [Call -> CallType]
      /\ \A d \in Call \ {c} : call'[d] = call[d]
  BY CallMoves DEF IInv
<1>2. TypeOK'
  BY <1>1 DEF IInv, TypeOK
<1>3. QED
  BY <1>1, <1>2, FrameStep DEF IInv

\* What steadiness preserves of a call's view of its own containers.
LEMMA SteadyView ==
  ASSUME NEW c \in Call, \A i \in ContainerId : Steady(i)
  PROVE  /\ \A S \in SUBSET Service : Untouched(c, S)' <=> Untouched(c, S)
         /\ \A s \in Service : Started(c, s) => Started(c, s)'
<1>1. \A s \in Service : <<c, s>> \in ContainerId
  BY DEF ContainerId
<1>2. QED
  BY <1>1 DEF Steady, Untouched, Started

\* An existing container of the same name is removed.
LEMMA RemoveExistingKeeps == ASSUME IInv, NEW c \in Call, RemoveExisting(c) PROVE IInv'
<1> DEFINE k(i) == [call[c] EXCEPT !.found = @ \ {i}]
<1>1. PICK i \in call[c].found :
        /\ IF Reachable(c, ctr[i].rt) THEN Remove({i}) ELSE UNCHANGED ctr
        /\ Becomes(c, k(i))
  BY DEF RemoveExisting
<1>2. CallInv(c) /\ call[c].pc = "replace" /\ UNCHANGED <<srv, orc, crashes>>
  BY DEF IInv, RemoveExisting
<1>3. i \in ContainerId /\ ctr[i].status # "none"
  BY <1>2, CallTyped DEF IInv, CallType, CallInv, ContainerInv
<1>4. ctr' \in [ContainerId -> ContainerType] /\ \A j \in ContainerId : Steady(j)
  BY <1>1, <1>3, RemoveSteady, SameSteady DEF IInv
<1>5. k(i) \in CallType
  BY CallTyped DEF IInv, CallType
<1>6. /\ k(i).pc = "replace" /\ k(i).cur = call[c].cur /\ k(i).todo = call[c].todo
      /\ k(i).kind = call[c].kind /\ k(i).proj = call[c].proj /\ k(i).found \subseteq call[c].found
      /\ call[c].found \subseteq ContainerId /\ call[c].todo \subseteq Service
  BY <1>2, CallTyped DEF IInv, CallType
<1> HIDE DEF k
<1>7. call'[c] = k(i)
  BY <1>1, <1>5, CallMoves DEF IInv
<1>8. IdentityInv(c)' /\ RuntimeInv(c)'
  BY <1>2, <1>6, <1>7
  DEF CallInv, IdentityInv, RuntimeInv, StopLabels, CleanupLabels, Fresh, Loop
<1>9. /\ Cfg(c)' = Cfg(c) /\ StartReady(c)' = StartReady(c)
      /\ RuntimeFor(c, call[c].cur)' = RuntimeFor(c, call[c].cur)
  BY <1>2, <1>6, <1>7 DEF Cfg, StartReady, RuntimeFor
<1>10. /\ call[c].cur \in Service /\ Cfg(c) \subseteq Service
  BY <1>2, <1>6, CfgTyped
  DEF CallInv, IdentityInv, LoopInv, StartReady, AtService, Loop
<1>11. LoopInv(c)
  BY <1>2 DEF CallInv
<1>12. LoopInv(c)'
  BY <1>2, <1>4, <1>6, <1>7, <1>9, <1>10, <1>11, SteadyView
  DEF LoopInv, StopLabels, Fresh, Loop, AtService
<1>13. ContainerInv(c)'
  BY <1>2, <1>4, <1>6, <1>7 DEF CallInv, ContainerInv, Steady
<1>14. QED
  BY <1>1, <1>2, <1>4, <1>5, <1>6, <1>8, <1>12, <1>13, FrameContainers DEF CallInv

\* cleanup stops a service it has an ID for.
LEMMA CleanupStopKeeps == ASSUME IInv, NEW c \in Call, CleanupStop(c) PROVE IInv'
<1> DEFINE k == [call[c] EXCEPT !.pc = "cleanremove"]
           i == <<c, call[c].cur>>
<1>1. /\ CallInv(c) /\ call[c].pc = "cleanstop" /\ UNCHANGED <<srv, orc, crashes>>
      /\ Becomes(c, k)
  BY DEF IInv, CleanupStop
<1>2. i \in ContainerId
  BY <1>1 DEF CallInv, RuntimeInv, ContainerId
<1>3. ctr' \in [ContainerId -> ContainerType] /\ \A j \in ContainerId : Steady(j)
  BY <1>2, EndSteady, SameSteady DEF IInv, CleanupStop, Ends
<1>4. k \in CallType
  <2>1. "cleanremove" \in Labels
    BY LabelsTyped DEF CleanupLabels
  <2>2. QED
    BY <2>1, CallTyped DEF IInv, CallType
<1>5. /\ k.pc = "cleanremove" /\ k.cur = call[c].cur /\ k.target = call[c].target
      /\ k.kind = call[c].kind /\ k.proj = call[c].proj /\ k.found = call[c].found
      /\ call[c].found \subseteq ContainerId
  BY CallTyped DEF IInv, CallType
<1> HIDE DEF k
<1>6. call'[c] = k
  BY <1>1, <1>4, CallMoves DEF IInv
<1>7. IdentityInv(c)' /\ RuntimeInv(c)'
  BY <1>1, <1>5, <1>6
  DEF CallInv, IdentityInv, RuntimeInv, StopLabels, CleanupLabels, Fresh, Loop
<1>8. LoopInv(c)' /\ ContainerInv(c)'
  BY <1>1, <1>3, <1>5, <1>6
  DEF CallInv, LoopInv, ContainerInv, StopLabels, Fresh, Loop, AtService, Steady
<1>9. QED
  BY <1>1, <1>3, <1>4, <1>5, <1>7, <1>8, FrameContainers DEF CallInv

\* cleanup removes it.
LEMMA CleanupRemoveKeeps == ASSUME IInv, NEW c \in Call, CleanupRemove(c) PROVE IInv'
<1> DEFINE i == <<c, call[c].cur>>
           k == [call[c] EXCEPT !.pc = "cleanup", !.ids = @ \ {i}]
<1>1. /\ CallInv(c) /\ call[c].pc = "cleanremove" /\ UNCHANGED <<srv, orc, crashes>>
      /\ Becomes(c, k)
  BY DEF IInv, CleanupRemove
<1>2. i \in ContainerId /\ call[c].target # Nil
  BY <1>1 DEF CallInv, RuntimeInv, ContainerId
<1>4. ctr' \in [ContainerId -> ContainerType] /\ \A j \in ContainerId : Steady(j)
  BY <1>2, RemoveSteady, SameSteady DEF IInv, CleanupRemove
<1>5. k \in CallType
  <2>1. "cleanup" \in Labels
    BY LabelsTyped DEF CleanupLabels
  <2>2. QED
    BY <2>1, CallTyped DEF IInv, CallType
<1>6. /\ k.pc = "cleanup"
      /\ k.kind = call[c].kind /\ k.proj = call[c].proj /\ k.found = call[c].found
      /\ call[c].found \subseteq ContainerId
  BY CallTyped DEF IInv, CallType
<1> HIDE DEF k
<1>7. call'[c] = k
  BY <1>1, <1>5, CallMoves DEF IInv
<1>8. IdentityInv(c)' /\ RuntimeInv(c)'
  BY <1>1, <1>6, <1>7
  DEF CallInv, IdentityInv, RuntimeInv, StopLabels, CleanupLabels, Fresh, Loop
<1>9. LoopInv(c)' /\ ContainerInv(c)'
  BY <1>1, <1>4, <1>6, <1>7
  DEF CallInv, LoopInv, ContainerInv, StopLabels, Fresh, Loop, AtService, Steady
<1>10. QED
  BY <1>1, <1>4, <1>5, <1>6, <1>8, <1>9, FrameContainers DEF CallInv

\* Stop stops one container of its list.
LEMMA StopOneKeeps == ASSUME IInv, NEW c \in Call, StopOne(c) PROVE IInv'
<1> DEFINE k(i) == [call[c] EXCEPT !.found = @ \ {i}]
<1>1. PICK i \in call[c].found :
        /\ IF ctr[i].status = "running" /\ Reachable(c, call[c].target)
           THEN \E end \in Ends(ctr[i].rt) : ctr' = [ctr EXCEPT ![i].status = end]
           ELSE UNCHANGED ctr
        /\ Becomes(c, k(i))
  BY DEF StopOne
<1>2. CallInv(c) /\ call[c].pc = "stopone" /\ UNCHANGED <<srv, orc, crashes>>
  BY DEF IInv, StopOne
<1>3. call[c].found \subseteq ContainerId /\ i \in ContainerId
  BY CallTyped DEF IInv, CallType
<1>4. ctr' \in [ContainerId -> ContainerType] /\ \A j \in ContainerId : Steady(j)
  BY <1>1, <1>3, EndSteady, SameSteady DEF IInv, Ends
<1>5. k(i) \in CallType
  BY CallTyped DEF IInv, CallType
<1>6. /\ k(i).pc = "stopone" /\ k(i).cur = call[c].cur /\ k(i).target = call[c].target
      /\ k(i).orch = call[c].orch /\ k(i).kind = call[c].kind /\ k(i).proj = call[c].proj
      /\ k(i).found \subseteq call[c].found
  BY <1>2, CallTyped DEF IInv, CallType
<1> HIDE DEF k
<1>7. call'[c] = k(i)
  BY <1>1, <1>5, CallMoves DEF IInv
<1>8. IdentityInv(c)' /\ RuntimeInv(c)'
  BY <1>2, <1>6, <1>7
  DEF CallInv, IdentityInv, RuntimeInv, StopLabels, CleanupLabels, Fresh, Loop
<1>9. Untouched(c, Service)'
  BY <1>2, <1>4, SteadyView DEF CallInv, LoopInv, StopLabels
<1>10. LoopInv(c)' /\ ContainerInv(c)'
  BY <1>2, <1>3, <1>4, <1>6, <1>7, <1>9
  DEF CallInv, LoopInv, ContainerInv, StopLabels, Fresh, Loop, AtService, Steady
<1>11. QED
  BY <1>1, <1>2, <1>4, <1>5, <1>6, <1>8, <1>10, FrameContainers DEF CallInv

\* The container starts, as a container or as a process.
LEMMA StartsKeeps ==
  ASSUME IInv, NEW c \in Call, call[c].pc \in {"start", "fork"},
         NEW end \in {"running", "lost"}, ctr[<<c, call[c].cur>>].status # "none",
         ctr' = [ctr EXCEPT ![<<c, call[c].cur>>].status = end],
         Becomes(c, [call[c] EXCEPT !.pc = "register"]), UNCHANGED <<srv, orc, crashes>>
  PROVE  IInv'
<1> DEFINE i == <<c, call[c].cur>>
           k == [call[c] EXCEPT !.pc = "register"]
<1>1. CallInv(c) /\ Becomes(c, k)
  BY DEF IInv
<1>2. call[c].todo \subseteq Service /\ call[c].found \subseteq ContainerId
  BY CallTyped DEF IInv, CallType
<1>3. call[c].cur \in Service /\ i \in ContainerId
  BY <1>1, <1>2 DEF CallInv, LoopInv, StartReady, AtService, Loop, ContainerId
<1>4. /\ ctr' \in [ContainerId -> ContainerType] /\ \A j \in ContainerId : Steady(j)
      /\ ctr'[i].status = end /\ ctr'[i].rt = ctr[i].rt
  BY <1>3, EndSteady DEF IInv
<1>5. k \in CallType
  <2>1. "register" \in Labels
    BY LabelsTyped
  <2>2. QED
    BY <2>1, CallTyped DEF IInv, CallType
<1>6. /\ k.pc = "register" /\ k.cur = call[c].cur /\ k.todo = call[c].todo
      /\ k.kind = call[c].kind /\ k.proj = call[c].proj /\ k.found = call[c].found
  BY CallTyped DEF IInv, CallType
<1> HIDE DEF k
<1>7. call'[c] = k
  BY <1>1, <1>5, CallMoves DEF IInv
<1>8. IdentityInv(c)' /\ RuntimeInv(c)'
  BY <1>1, <1>6, <1>7
  DEF CallInv, IdentityInv, RuntimeInv, StopLabels, CleanupLabels, Fresh, Loop
<1>9. /\ Cfg(c)' = Cfg(c) /\ StartReady(c)' = StartReady(c)
      /\ RuntimeFor(c, call[c].cur)' = RuntimeFor(c, call[c].cur)
  BY <1>1, <1>6, <1>7 DEF Cfg, StartReady, RuntimeFor
<1>10. Cfg(c) \subseteq Service
  BY <1>1, CfgTyped DEF CallInv, IdentityInv
<1>11. LoopInv(c) /\ ContainerInv(c)
  BY <1>1 DEF CallInv
<1>12. LoopInv(c)'
  BY <1>1, <1>2, <1>4, <1>6, <1>7, <1>9, <1>10, <1>11, SteadyView
  DEF LoopInv, StopLabels, Fresh, Loop, AtService
<1>13. ContainerInv(c)'
  BY <1>1, <1>2, <1>4, <1>6, <1>7, <1>9, <1>11 DEF ContainerInv, Steady, Started
<1>14. QED
  BY <1>1, <1>4, <1>5, <1>6, <1>8, <1>12, <1>13, FrameContainers DEF CallInv

\* In one request to Docker ...
LEMMA StartContainerKeeps == ASSUME IInv, NEW c \in Call, StartContainer(c) PROVE IInv'
  BY StartsKeeps DEF StartContainer

\* ... or by a fork, whether or not the entry of the process is still there.
LEMMA ForkProcessKeeps == ASSUME IInv, NEW c \in Call, ForkProcess(c) PROVE IInv'
<1>1. CallInv(c) /\ call[c].pc = "fork" /\ call[c].todo \subseteq Service
  BY CallTyped DEF IInv, ForkProcess, CallType
<1>2. <<c, call[c].cur>> \in ContainerId /\ ctr[<<c, call[c].cur>>].status # "none"
  BY <1>1 DEF CallInv, LoopInv, StartReady, AtService, Loop, ContainerId, ContainerInv
<1>3. PICK end \in {"running", "lost"} :
        ctr' = [ctr EXCEPT ![<<c, call[c].cur>>].status = end]
  <2>1. CASE ctr[<<c, call[c].cur>>].status = "created"
    BY <2>1 DEF ForkProcess
  <2>2. CASE ctr[<<c, call[c].cur>>].status # "created"
    BY <2>2 DEF ForkProcess
  <2>3. QED
    BY <2>1, <2>2
<1>4. QED
  BY <1>1, <1>2, <1>3, StartsKeeps DEF ForkProcess

\* The lookup finds the entry of a process that was not forked yet.
LEMMA LookupProcessKeeps == ASSUME IInv, NEW c \in Call, LookupProcess(c) PROVE IInv'
<1> DEFINE k == [call[c] EXCEPT !.pc = "fork"]
<1>1. /\ CallInv(c) /\ call[c].pc = "start" /\ UNCHANGED <<srv, orc, ctr, crashes>>
      /\ Becomes(c, k) /\ ctr[<<c, call[c].cur>>].status = "created"
      /\ ctr[<<c, call[c].cur>>].rt # Docker
  BY DEF IInv, LookupProcess
<1>2. k \in CallType
  <2>1. "fork" \in Labels
    BY LabelsTyped
  <2>2. QED
    BY <2>1, CallTyped DEF IInv, CallType
<1>3. /\ k.pc = "fork" /\ k.cur = call[c].cur /\ k.todo = call[c].todo
      /\ k.kind = call[c].kind /\ k.proj = call[c].proj /\ k.found = call[c].found
  BY CallTyped DEF IInv, CallType
<1> HIDE DEF k
<1>4. call'[c] = k
  BY <1>1, <1>2, CallMoves DEF IInv
<1>5. IdentityInv(c)' /\ RuntimeInv(c)'
  BY <1>1, <1>3, <1>4
  DEF CallInv, IdentityInv, RuntimeInv, StopLabels, CleanupLabels, Fresh, Loop
<1>6. /\ Cfg(c)' = Cfg(c) /\ StartReady(c)' = StartReady(c)
      /\ RuntimeFor(c, call[c].cur)' = RuntimeFor(c, call[c].cur)
  BY <1>1, <1>3, <1>4 DEF Cfg, StartReady, RuntimeFor
<1>7. LoopInv(c)' /\ ContainerInv(c)'
  BY <1>1, <1>3, <1>4, <1>6
  DEF CallInv, LoopInv, ContainerInv, StopLabels, Fresh, Loop, AtService, Untouched, Started
<1>8. QED
  BY <1>1, <1>2, <1>3, <1>5, <1>7, FrameLocal DEF CallInv

\* A service ends by itself: no call moves.
LEMMA ServiceExitKeeps == ASSUME IInv, NEW i \in ContainerId, ServiceExit(i) PROVE IInv'
<1>1. UNCHANGED <<srv, orc, call, crashes>>
  BY DEF ServiceExit
<1>2. ctr' \in [ContainerId -> ContainerType] /\ \A j \in ContainerId : Steady(j)
  BY EndSteady DEF IInv, ServiceExit, Ends
<1>3. TypeOK'
  BY <1>1, <1>2 DEF IInv, TypeOK
<1>4. \A j \in ContainerId : Lasts(j)
  BY <1>2 DEF Steady, Lasts
<1>5. ASSUME NEW d \in Call
      PROVE  CallInv(d)'
  <2>1. \A s \in Service : Steady(<<d, s>>)
    BY <1>2 DEF ContainerId
  <2>2. QED
    BY <1>1, <1>3, <1>4, <2>1, FrameCall DEF IInv
<1>6. RoutingSound'
  BY <1>1, <1>2, <1>3, FrameRouting DEF IInv
<1>7. DependencyOrder'
  BY <1>1, <1>2, FrameDependency DEF IInv
<1>8. QED
  BY <1>1, <1>3, <1>5, <1>6, <1>7 DEF IInv

\* The service is entered in containerRT, with the runtime that runs it.
LEMMA RegisterKeeps == ASSUME IInv, NEW c \in Call, Register(c) PROVE IInv'
<1> DEFINE s == call[c].cur
           k == [call[c] EXCEPT !.pc = "collect", !.ids = @ \cup {<<c, s>>}]
           o == [orc[c] EXCEPT !.rt[s] = RuntimeFor(c, s)]
<1>1. /\ CallInv(c) /\ call[c].pc = "register" /\ UNCHANGED <<srv, ctr, crashes>>
      /\ Becomes(c, k) /\ orc' = [orc EXCEPT ![c] = o]
  BY DEF IInv, Register
<1>2. call[c].todo \subseteq Service /\ call[c].found \subseteq ContainerId
  BY CallTyped DEF IInv, CallType
<1>3. s \in Service /\ <<c, s>> \in ContainerId
  BY <1>1, <1>2 DEF CallInv, LoopInv, StartReady, AtService, Loop, ContainerId
<1>4. /\ ctr[<<c, s>>].rt = RuntimeFor(c, s)
      /\ ctr[<<c, s>>].status \notin {"none", "created"}
  BY <1>1 DEF CallInv, ContainerInv, Started
<1>5. RuntimeFor(c, s) \in Runtime
  BY <1>3, <1>4 DEF IInv, TypeOK, ContainerType
<1>6. /\ o \in OrchType /\ o.host = orc[c].host /\ o.docker = orc[c].docker
      /\ o.rt[s] = RuntimeFor(c, s) /\ \A t \in Service \ {s} : o.rt[t] = orc[c].rt[t]
  BY <1>3, <1>5, CallTyped DEF IInv, OrchType
<1>7. k \in CallType
  <2>1. "collect" \in Labels
    BY LabelsTyped
  <2>2. QED
    BY <1>3, <2>1, CallTyped DEF IInv, CallType
<1>8. /\ k.pc = "collect" /\ k.cur = s /\ k.todo = call[c].todo
      /\ k.kind = call[c].kind /\ k.proj = call[c].proj /\ k.found = call[c].found
  BY CallTyped DEF IInv, CallType
<1> HIDE DEF k, o
<1>9. /\ orc' \in [Call -> OrchType] /\ orc'[c] = o
      /\ \A d \in Call \ {c} : orc'[d] = orc[d]
  BY <1>1, <1>6 DEF IInv, TypeOK
<1>10. /\ call'[c] = k /\ call' \in [Call -> CallType]
       /\ \A d \in Call \ {c} : call'[d] = call[d]
  BY <1>1, <1>7, CallMoves DEF IInv
<1>11. TypeOK'
  BY <1>1, <1>9, <1>10 DEF IInv, TypeOK
<1>12. CallInv(c)'
  <2>1. IdentityInv(c)' /\ RuntimeInv(c)'
    BY <1>1, <1>6, <1>8, <1>9, <1>10
    DEF CallInv, IdentityInv, RuntimeInv, StopLabels, CleanupLabels, Fresh, Loop
  <2>2. /\ Cfg(c)' = Cfg(c) /\ StartReady(c)' = StartReady(c)
        /\ RuntimeFor(c, s)' = RuntimeFor(c, s)
    BY <1>1, <1>6, <1>8, <1>9, <1>10 DEF Cfg, StartReady, RuntimeFor
  <2>3. LoopInv(c)'
    BY <1>1, <1>8, <1>10, <2>2
    DEF CallInv, LoopInv, StopLabels, Fresh, Loop, AtService, Untouched, Started
  <2>4. ContainerInv(c)'
    BY <1>1, <1>4, <1>8, <1>10 DEF CallInv, ContainerInv, Started
  <2>5. QED
    BY <2>1, <2>3, <2>4 DEF CallInv
<1>13. \A i \in ContainerId : Steady(i) /\ Lasts(i)
  BY <1>1 DEF Steady, Lasts
<1>14. ASSUME NEW d \in Call \ {c}
       PROVE  CallInv(d)'
  <2>1. \A t \in Service : Steady(<<d, t>>)
    BY <1>13 DEF ContainerId
  <2>2. \A e \in Call : orc[e].host # Nil => orc'[e].host # Nil
    BY <1>6, <1>9
  <2>3. orc'[d].host = orc[d].host /\ orc'[d].docker = orc[d].docker
    BY <1>9
  <2>4. QED
    BY <1>1, <1>10, <1>11, <1>13, <2>1, <2>2, <2>3, FrameCall DEF IInv
<1>15. RoutingSound'
  <2>1. ASSUME NEW d \in Call, NEW t \in Service, orc'[d].rt[t] # Nil
        PROVE  /\ ctr[<<d, t>>].rt = orc'[d].rt[t]
               /\ ctr[<<d, t>>].status \notin {"none", "created"}
    <3>1. CASE d = c /\ t = s
      BY <1>4, <1>6, <1>9, <3>1
    <3>2. CASE d # c \/ t # s
      BY <1>6, <1>9, <2>1, <3>2 DEF IInv, RoutingSound
    <3>3. QED
      BY <3>1, <3>2
  <2>2. QED
    BY <1>1, <2>1 DEF RoutingSound
<1>16. DependencyOrder'
  <2>1. \A d \in Call : call'[d].proj = call[d].proj
    BY <1>8, <1>10
  <2>2. QED
    BY <1>13, <2>1, FrameDependency DEF IInv
<1>17. srv'.orch # Nil => orc'[srv'.orch].host # Nil
  BY <1>1, <1>6, <1>9 DEF IInv, TypeOK, ServerType
<1>18. QED
  BY <1>11, <1>12, <1>14, <1>15, <1>16, <1>17 DEF IInv

\* The one step that brings a container into being: nothing depends on a
\* container that is not there, and the services it depends on are started.
LEMMA CreatesKeeps ==
  ASSUME IInv, NEW c \in Call, call[c].pc = "replace", NEW k \in CallType, Becomes(c, k),
         k.pc \in {"start", "cleanup"}, k.cur = call[c].cur, k.todo = call[c].todo,
         k.kind = call[c].kind, k.proj = call[c].proj, k.found = call[c].found,
         ctr' = [ctr EXCEPT ![<<c, call[c].cur>>] =
                    [rt |-> RuntimeFor(c, call[c].cur), status |-> "created"]],
         UNCHANGED <<srv, orc, crashes>>
  PROVE  IInv'
<1> DEFINE s == call[c].cur
           i == <<c, s>>
           n == [rt |-> RuntimeFor(c, s), status |-> "created"]
<1>1. CallInv(c) /\ LoopInv(c) /\ ContainerInv(c)
  BY DEF IInv, CallInv
<1>2. call[c].todo \subseteq Service /\ call[c].found \subseteq ContainerId
  BY CallTyped DEF IInv, CallType
<1>3. /\ s \in Service /\ s \in call[c].todo /\ i \in ContainerId /\ ctr[i].status = "none"
      /\ s \in StartReady(c) /\ call[c].todo \subseteq Cfg(c) /\ RuntimeFor(c, s) # Nil
      /\ Untouched(c, call[c].todo) /\ \A t \in Cfg(c) \ call[c].todo : Started(c, t)
  BY <1>1, <1>2 DEF LoopInv, StartReady, AtService, Loop, ContainerId, Untouched
<1>4. RuntimeFor(c, s) \in Runtime
  BY <1>3, CallTyped DEF IInv, OrchType, Runtime, RuntimeFor
<1>5. n \in ContainerType /\ n.rt = RuntimeFor(c, s) /\ n.status = "created"
  BY <1>4 DEF ContainerType, Present
<1> HIDE DEF n
<1>6. /\ ctr' \in [ContainerId -> ContainerType] /\ ctr'[i] = n
      /\ \A j \in ContainerId \ {i} : ctr'[j] = ctr[j]
  BY <1>3, <1>5 DEF IInv, TypeOK, n
<1>7. /\ call'[c] = k /\ call' \in [Call -> CallType]
      /\ \A d \in Call \ {c} : call'[d] = call[d]
  BY CallMoves DEF IInv
<1>8. TypeOK'
  BY <1>6, <1>7 DEF IInv, TypeOK
<1>9. \A j \in ContainerId : Lasts(j)
  BY <1>3, <1>6 DEF Lasts
<1>10. ASSUME NEW d \in Call \ {c}
       PROVE  CallInv(d)'
  <2>1. \A t \in Service : Steady(<<d, t>>)
    BY <1>6 DEF Steady, ContainerId
  <2>2. QED
    BY <1>7, <1>8, <1>9, <2>1, FrameCall DEF IInv
<1>11. CallInv(c)'
  <2>1. IdentityInv(c)' /\ RuntimeInv(c)'
    BY <1>1, <1>7
    DEF CallInv, IdentityInv, RuntimeInv, StopLabels, CleanupLabels, Fresh, Loop
  <2>2. /\ Cfg(c)' = Cfg(c) /\ StartReady(c)' = StartReady(c)
        /\ RuntimeFor(c, s)' = RuntimeFor(c, s)
    BY <1>7 DEF Cfg, StartReady, RuntimeFor
  <2>3. Cfg(c) \subseteq Service
    BY <1>1, CfgTyped DEF CallInv, IdentityInv, IInv
  <2>4. \A t \in Service \ {s} : ctr'[<<c, t>>] = ctr[<<c, t>>]
    BY <1>6 DEF ContainerId
  <2>5. \A t \in Cfg(c) \ call[c].todo : Started(c, t)'
    BY <1>3, <2>3, <2>4 DEF Started
  <2>6. \A t \in call[c].todo \ {s} : ctr'[<<c, t>>].status = "none"
    BY <1>2, <1>3, <2>4 DEF Untouched
  <2>7. LoopInv(c)'
    BY <1>3, <1>7, <2>2, <2>5, <2>6
    DEF LoopInv, StopLabels, Fresh, Loop, AtService, Untouched
  <2>8. ContainerInv(c)'
    BY <1>1, <1>2, <1>5, <1>6, <1>7, <2>2 DEF ContainerInv
  <2>9. QED
    BY <2>1, <2>7, <2>8 DEF CallInv
<1>12. RoutingSound'
  <2>1. ASSUME NEW d \in Call, NEW t \in Service, orc[d].rt[t] # Nil
        PROVE  ctr'[<<d, t>>] = ctr[<<d, t>>]
    BY <1>3, <1>6, <2>1 DEF IInv, RoutingSound, ContainerId
  <2>2. QED
    BY <2>1 DEF IInv, RoutingSound
<1>13. DependencyOrder'
  <2>1. ASSUME NEW d \in Call, NEW t \in Service, ctr'[<<d, t>>].status # "none",
               NEW e \in Deps(call'[d].proj, t)
        PROVE  ctr'[<<d, e>>].status \notin {"none", "created"}
    <3>1. call'[d].proj = call[d].proj
      BY <1>7
    <3>2. CASE d = c /\ t = s
      <4>1. e \in Cfg(c) \ call[c].todo
        BY <1>3, <2>1, <3>1, <3>2 DEF StartReady, Deps, Cfg
      <4>2. Started(c, e) /\ e # s
        BY <1>3, <4>1
      <4>3. e \in Service
        BY <1>1, <4>1, CfgTyped DEF CallInv, IdentityInv
      <4>4. QED
        BY <1>6, <3>2, <4>2, <4>3 DEF Started, ContainerId
    <3>3. CASE d # c \/ t # s
      <4>1. ctr[<<d, t>>].status # "none"
        BY <1>6, <2>1, <3>3 DEF ContainerId
      <4>2. ctr[<<d, e>>].status \notin {"none", "created"}
        BY <2>1, <3>1, <4>1 DEF IInv, DependencyOrder
      <4>3. call[d].pc # "idle"
        BY <4>1 DEF IInv, CallInv, LoopInv, Untouched, Fresh
      <4>4. e \in Service
        BY <2>1, <3>1, <4>3, ConfigAssumption DEF IInv, CallInv, IdentityInv, Deps
      <4>5. <<d, e>> \in ContainerId \ {i}
        BY <1>3, <4>2, <4>4 DEF ContainerId
      <4>6. QED
        BY <1>6, <4>2, <4>5
    <3>4. QED
      BY <3>2, <3>3
  <2>2. QED
    BY <2>1 DEF DependencyOrder, Deps
<1>14. QED
  BY <1>8, <1>10, <1>11, <1>12, <1>13 DEF IInv

\* The container is there and start follows.
LEMMA CreateContainerKeeps == ASSUME IInv, NEW c \in Call, CreateContainer(c) PROVE IInv'
<1> DEFINE k == [call[c] EXCEPT !.pc = "start"]
<1>1. k \in CallType
  <2>1. "start" \in Labels
    BY LabelsTyped
  <2>2. QED
    BY <2>1, CallTyped DEF IInv, CallType
<1>2. /\ k.pc = "start" /\ k.cur = call[c].cur /\ k.todo = call[c].todo
      /\ k.kind = call[c].kind /\ k.proj = call[c].proj /\ k.found = call[c].found
  BY CallTyped DEF IInv, CallType
<1>3. Becomes(c, k)
  BY DEF CreateContainer
<1> HIDE DEF k
<1>4. QED
  BY <1>1, <1>2, <1>3, CreatesKeeps DEF CreateContainer

\* Whether or not the container came into being, cleanup follows.
LEMMA CreateFailsKeeps == ASSUME IInv, NEW c \in Call, CreateFails(c) PROVE IInv'
<1> DEFINE k == [call[c] EXCEPT !.pc = "cleanup"]
<1>1. k \in CallType
  <2>1. "cleanup" \in Labels
    BY LabelsTyped DEF CleanupLabels
  <2>2. QED
    BY <2>1, CallTyped DEF IInv, CallType
<1>2. /\ k.pc = "cleanup" /\ k.cur = call[c].cur /\ k.todo = call[c].todo
      /\ k.kind = call[c].kind /\ k.proj = call[c].proj /\ k.found = call[c].found
  BY CallTyped DEF IInv, CallType
<1>3. Becomes(c, k) /\ call[c].pc = "replace" /\ UNCHANGED <<srv, orc, crashes>>
  BY DEF CreateFails
<1>4. CASE UNCHANGED ctr
  BY <1>3, <1>4, FrameCleanup DEF Loop
<1>5. CASE ctr' = [ctr EXCEPT ![<<c, call[c].cur>>] =
                     [rt |-> RuntimeFor(c, call[c].cur), status |-> "created"]]
  <2> HIDE DEF k
  <2>1. QED
    BY <1>1, <1>2, <1>3, <1>5, CreatesKeeps
<1>6. QED
  BY <1>4, <1>5 DEF CreateFails

\* The daemon is killed: handlers and orchestrators are gone, containers stay.
LEMMA CrashKeeps == ASSUME IInv, Crash PROVE IInv'
<1>1. UNCHANGED ctr /\ srv' = NoServer /\ orc' = [c \in Call |-> NoOrch]
  BY DEF Crash
<1>2. /\ srv' \in ServerType /\ srv'.orch = Nil
      /\ NoOrch \in OrchType /\ NoOrch.host = Nil /\ \A s \in Service : NoOrch.rt[s] = Nil
  BY <1>1 DEF NoServer, ServerType, NoOrch, OrchType
<1>3. crashes' \in Nat
  <2>1. crashes' = crashes + 1 /\ crashes \in Nat
    BY DEF IInv, TypeOK, Crash
  <2>2. QED
    BY <2>1
<1>4. ASSUME NEW c \in Call
      PROVE  /\ call'[c] \in CallType /\ CallInv(c)'
             /\ call'[c].proj = call[c].proj \/ Untouched(c, Service)
  <2>1. CallInv(c)
    BY DEF IInv
  <2>2. CASE call[c].kind = "none"
    <3>1. call'[c] = NoCall
      BY <2>2 DEF Crash
    <3>2. /\ NoCall.kind = "none" /\ NoCall.pc = "idle" /\ NoCall.cur = Nil /\ NoCall.found = {}
          /\ NoCall \in CallType
      BY DEF NoCall, CallType, Labels
    <3>3. Untouched(c, Service)
      BY <2>1, <2>2 DEF CallInv, IdentityInv, LoopInv, Fresh
    <3>4. IdentityInv(c)' /\ RuntimeInv(c)'
      BY <1>1, <1>2, <3>1, <3>2
      DEF IdentityInv, RuntimeInv, StopLabels, CleanupLabels, Fresh, Loop
    <3>5. LoopInv(c)' /\ ContainerInv(c)'
      BY <1>1, <3>1, <3>2, <3>3 DEF LoopInv, ContainerInv, Loop, AtService, Untouched
    <3>6. QED
      BY <3>1, <3>2, <3>3, <3>4, <3>5 DEF CallInv
  <2>3. CASE call[c].kind # "none"
    <3> DEFINE k == [NoCall EXCEPT !.kind = call[c].kind, !.proj = call[c].proj, !.pc = "done",
                                   !.result = Return(c, "crashed")]
    <3>1. call'[c] = k
      BY <2>3 DEF Crash
    <3>2. k \in CallType
      <4>1. Return(c, "crashed") \in {"none", "ok", "error", "cancelled", "crashed"}
        BY DEF IInv, TypeOK, CallType, Return
      <4>2. "done" \in Labels
        BY LabelsTyped
      <4>3. NoCall \in CallType
        BY DEF NoCall, CallType, Labels
      <4>4. call[c] \in CallType
        BY DEF IInv, TypeOK
      <4>5. QED
        BY <4>1, <4>2, <4>3, <4>4 DEF CallType
    <3>3. /\ k.kind = call[c].kind /\ k.proj = call[c].proj /\ k.pc = "done"
          /\ k.found = {}
      BY DEF NoCall
    <3> HIDE DEF k
    <3>4. call[c].pc # "idle"
      BY <2>1, <2>3 DEF CallInv, IdentityInv
    <3>5. IdentityInv(c)' /\ RuntimeInv(c)'
      BY <2>1, <2>3, <3>1, <3>3, <3>4
      DEF CallInv, IdentityInv, RuntimeInv, StopLabels, CleanupLabels, Fresh, Loop
    <3>6. LoopInv(c)' /\ ContainerInv(c)'
      BY <3>1, <3>3 DEF LoopInv, ContainerInv, StopLabels, Fresh, Loop, AtService
    <3>7. QED
      BY <3>1, <3>2, <3>3, <3>5, <3>6 DEF CallInv
  <2>4. QED
    BY <2>2, <2>3
<1>5. TypeOK'
  <2>1. call' \in [Call -> CallType]
    <3>1. \A c \in Call : call'[c] \in CallType
      BY <1>4
    <3>2. call' = [c \in Call |-> call'[c]]
      BY DEF Crash
    <3>3. QED
      BY <3>1, <3>2
  <2>2. QED
    BY <1>1, <1>2, <1>3, <2>1 DEF IInv, TypeOK
<1>6. \A i \in ContainerId : Steady(i)
  BY <1>1 DEF Steady
<1>7. RoutingSound'
  BY <1>1, <1>2 DEF RoutingSound
<1>8. DependencyOrder'
  BY <1>4, <1>6, FrameDependency DEF IInv
<1>9. QED
  BY <1>2, <1>4, <1>5, <1>7, <1>8 DEF IInv

\* ---- The theorems

\* A daemon that has just started.
LEMMA InitEstablishes == ASSUME Init PROVE IInv
<1>1. /\ NoServer \in ServerType /\ NoServer.orch = Nil /\ NoOrch \in OrchType
      /\ NoOrch.host = Nil /\ \A s \in Service : NoOrch.rt[s] = Nil
      /\ NoContainer \in ContainerType /\ NoContainer.status = "none"
  BY DEF NoServer, ServerType, NoOrch, OrchType, NoContainer, ContainerType
<1>2. /\ NoCall.kind = "none" /\ NoCall.pc = "idle" /\ NoCall.cur = Nil /\ NoCall.found = {}
      /\ NoCall \in CallType
  BY DEF NoCall, CallType, Labels
<1>3. TypeOK
  BY <1>1, <1>2 DEF Init, TypeOK
<1>4. ASSUME NEW c \in Call
      PROVE  CallInv(c)
  <2>1. /\ call[c] = NoCall /\ orc[c] = NoOrch
        /\ \A s \in Service : ctr[<<c, s>>] = NoContainer
    BY DEF Init, ContainerId
  <2>2. IdentityInv(c) /\ RuntimeInv(c)
    BY <1>1, <1>2, <2>1 DEF IdentityInv, RuntimeInv, StopLabels, CleanupLabels, Fresh, Loop
  <2>3. LoopInv(c) /\ ContainerInv(c)
    BY <1>1, <1>2, <2>1 DEF LoopInv, ContainerInv, Loop, AtService, Untouched
  <2>4. QED
    BY <2>2, <2>3 DEF CallInv
<1>5. RoutingSound /\ DependencyOrder
  BY <1>1 DEF Init, RoutingSound, DependencyOrder, ContainerId
<1>6. QED
  BY <1>1, <1>3, <1>4, <1>5 DEF Init, IInv

\* Nothing happens.
LEMMA StutterKeeps == ASSUME IInv, UNCHANGED vars PROVE IInv'
<1>1. TypeOK' /\ RoutingSound' /\ DependencyOrder'
  BY DEF IInv, vars, TypeOK, RoutingSound, DependencyOrder
<1>2. \A i \in ContainerId : Steady(i) /\ Lasts(i)
  BY DEF vars, Steady, Lasts
<1>3. ASSUME NEW c \in Call
      PROVE  CallInv(c)'
  <2>1. \A s \in Service : Steady(<<c, s>>)
    BY <1>2 DEF ContainerId
  <2>2. QED
    BY <1>1, <1>2, <2>1, FrameCall DEF IInv, vars
<1>4. QED
  BY <1>1, <1>3 DEF IInv, vars

\* Every step of every handler, of a client, of a service or of the machine.
LEMMA NextKeeps == ASSUME IInv, [Next]_vars PROVE IInv'
<1>1. CASE \E c \in Call, p \in Project : Client(c, p)
  BY <1>1, StartCallKeeps, StopCallKeeps, ResetCallKeeps DEF Client
<1>2. ASSUME NEW c \in Call, StartStep(c)
      PROVE  IInv'
  <2>1. CASE ConnectRuntimes(c) \/ ConnectFails(c) \/ ReadDockerRuntime(c)
             \/ SetupOrchestrator(c) \/ SetupFails(c) \/ EnsureNetwork(c) \/ NetworkFails(c)
    BY <2>1, ConnectRuntimesKeeps, ConnectFailsKeeps, ReadDockerRuntimeKeeps,
       SetupOrchestratorKeeps, SetupFailsKeeps, EnsureNetworkKeeps, NetworkFailsKeeps
  <2>2. CASE PickService(c) \/ PrepareFails(c) \/ ListExisting(c) \/ RemoveExisting(c)
    BY <2>2, PickServiceKeeps, PrepareFailsKeeps, ListExistingKeeps, RemoveExistingKeeps
  <2>3. CASE \/ CreateContainer(c) \/ CreateFails(c) \/ StartContainer(c)
             \/ LookupProcess(c) \/ ForkProcess(c) \/ StartFails(c)
    BY <2>3, CreateContainerKeeps, CreateFailsKeeps, StartContainerKeeps, LookupProcessKeeps,
       ForkProcessKeeps, StartFailsKeeps
  <2>4. CASE Register(c) \/ StartCollector(c) \/ StartDone(c)
    BY <2>4, RegisterKeeps, StartCollectorKeeps, StartDoneKeeps
  <2>5. QED
    BY <1>2, <2>1, <2>2, <2>3, <2>4 DEF StartStep
<1>3. ASSUME NEW c \in Call, CleanupStep(c)
      PROVE  IInv'
  BY <1>3, CleanupLookupKeeps, CleanupStopKeeps, CleanupRemoveKeeps, CleanupDoneKeeps
  DEF CleanupStep
<1>4. ASSUME NEW c \in Call, StopStep(c)
      PROVE  IInv'
  BY <1>4, StopLookupKeeps, StopListKeeps, StopOneKeeps, ServiceStoppedKeeps, StopDoneKeeps
  DEF StopStep
<1>5. CASE \E c \in Call : Handler(c) \/ Disconnect(c)
  BY <1>2, <1>3, <1>4, <1>5, DisconnectKeeps DEF Handler
<1>6. CASE \E i \in ContainerId : ServiceExit(i)
  BY <1>6, ServiceExitKeeps
<1>7. CASE Crash
  BY <1>7, CrashKeeps
<1>8. CASE UNCHANGED vars
  BY <1>8, StutterKeeps
<1>9. QED
  BY <1>1, <1>5, <1>6, <1>7, <1>8 DEF Next

\* The inductive invariant holds in every reachable state, however many calls,
\* projects and services there are, whatever fails and however often the daemon
\* is killed.
THEOREM Invariance == Spec => []IInv
<1>1. Init => IInv
  BY InitEstablishes
<1>2. IInv /\ [Next]_vars => IInv'
  BY NextKeeps
<1>3. QED
  BY <1>1, <1>2, PTL DEF Spec

\* Type correctness: the record of every handler keeps to the values its code
\* can hold.
THEOREM TypeCorrect == Spec => []TypeOK
<1>1. IInv => TypeOK
  BY DEF IInv
<1>2. QED
  BY <1>1, Invariance, PTL

\* containerRT never names a runtime that does not run the container, although
\* concurrent handlers fill it, empty it and read it (orchestrator.go 154, 338,
\* 378, 505).
THEOREM RoutingCorrect == Spec => []RoutingSound
<1>1. IInv => RoutingSound
  BY DEF IInv
<1>2. QED
  BY <1>1, Invariance, PTL

\* No Start makes a container before it has started every service that one
\* depends on, for every dependency graph (orchestrator.go:84).
THEOREM DependencyOrderCorrect == Spec => []DependencyOrder
<1>1. IInv => DependencyOrder
  BY DEF IInv
<1>2. QED
  BY <1>1, Invariance, PTL
\* ---- What a failed Start leaves behind

\* What no step of a call does to the others but those of Stop: change what they
\* know, their maps, or start a container of theirs.
Apart(d) ==
  /\ call'[d] = call[d]
  /\ call[d].kind = "Start" => orc'[d].rt = orc[d].rt
  /\ \A s \in Service : ctr'[<<d, s>>].status = "running" => ctr[<<d, s>>].status = "running"

\* A call that a step leaves apart knows what it knew.
LEMMA FrameTidy ==
  ASSUME NEW d \in Call, TidyInv(d), CleanInv(d), Apart(d) PROVE TidyInv(d)' /\ CleanInv(d)'
<1>1. TidyInv(d)'
  BY DEF Apart, TidyInv
<1>2. CleanInv(d)'
  BY DEF Apart, CleanInv
<1> QED
  BY <1>1, <1>2

\* A call moves, and no other.
LEMMA OneMoves ==
  ASSUME TypeOK, NEW c \in Call, NEW k, Becomes(c, k)
  PROVE  call'[c] = k /\ \A d \in Call \ {c} : call'[d] = call[d]
  BY DEF TypeOK, Becomes

\* Steps that change no orchestrator and no container.
LEMMA ApartLocal ==
  ASSUME TypeOK, NEW c \in Call, NEW k, Becomes(c, k), UNCHANGED <<orc, ctr>>
  PROVE  \A d \in Call \ {c} : Apart(d)
  BY OneMoves DEF Apart

\* Steps that change one orchestrator: that of the call, one no Start works with, or not its map.
LEMMA ApartOrc ==
  ASSUME TypeOK, NEW c \in Call, NEW k, Becomes(c, k), UNCHANGED ctr, NEW e \in Call, NEW o,
         orc' = [orc EXCEPT ![e] = o], e = c \/ call[e].kind # "Start" \/ o.rt = orc[e].rt
  PROVE  \A d \in Call \ {c} : Apart(d)
<1>1. orc'[e] = o /\ \A d \in Call \ {e} : orc'[d] = orc[d]
  BY DEF TypeOK
<1> QED
  BY <1>1, OneMoves DEF Apart

\* A step that revives no container but one of the call's own.
LEMMA ApartContainers ==
  ASSUME TypeOK, NEW c \in Call, NEW k, Becomes(c, k), UNCHANGED orc,
         \A i \in ContainerId : i[1] # c => (ctr'[i].status = "running" => ctr[i].status = "running")
  PROVE  \A d \in Call \ {c} : Apart(d)
<1>1. \A d \in Call, s \in Service : <<d, s>> \in ContainerId /\ <<d, s>>[1] = d
  BY DEF ContainerId
<1> QED
  BY <1>1, OneMoves DEF Apart

\* Removing and ending revive nothing.
LEMMA RemoveQuells ==
  ASSUME TypeOK, NEW i \in ContainerId, Remove({i})
  PROVE  /\ \A j \in ContainerId : ctr'[j].status = "running" => ctr[j].status = "running"
         /\ ctr'[i].status # "running"
<1>1. ctr[i] \in ContainerType
  BY DEF TypeOK
<1>2. [ctr[i] EXCEPT !.status = "removed"].status = "removed"
  BY <1>1 DEF ContainerType
<1>3. ctr'[i] = (IF ctr[i].status \in Present THEN [ctr[i] EXCEPT !.status = "removed"] ELSE ctr[i])
  BY DEF Remove
<1>4. \A j \in ContainerId \ {i} : ctr'[j] = ctr[j]
  BY DEF Remove
<1> QED
  BY <1>2, <1>3, <1>4 DEF Present

\* The end of a container leaves it ended.
LEMMA EndQuells ==
  ASSUME TypeOK, NEW i \in ContainerId, NEW end \in Ends(ctr[i].rt),
         ctr' = [ctr EXCEPT ![i].status = end]
  PROVE  /\ \A j \in ContainerId : ctr'[j].status = "running" => ctr[j].status = "running"
         /\ ctr'[i].status # "running"
<1>1. ctr[i] \in ContainerType /\ end \in {"exited", "killed"}
  BY DEF TypeOK, Ends
<1>2. [ctr[i] EXCEPT !.status = end].status = end
  BY <1>1 DEF ContainerType
<1>3. ctr'[i] = [ctr[i] EXCEPT !.status = end] /\ \A j \in ContainerId \ {i} : ctr'[j] = ctr[j]
  BY DEF TypeOK
<1> QED
  BY <1>1, <1>2, <1>3

\* What the call itself keeps while it moves through the loop.
LEMMA LoopTidy ==
  ASSUME NEW c \in Call, NEW k \in CallType, call'[c] = k, TidyInv(c), CleanInv(c),
         call[c].pc \in Loop \ {"register"}, k.pc \in (Loop \ {"register"}) \cup {"cleanup"},
         k.kind = call[c].kind, k.result = call[c].result, k.cancelled = call[c].cancelled,
         k.ids = call[c].ids, orc'[c].rt = orc[c].rt,
         \A s \in Service : ctr'[<<c, s>>].status = "running" => ctr[<<c, s>>].status = "running"
  PROVE  TidyInv(c)' /\ CleanInv(c)'
<1>1. TidyInv(c)'
  BY DEF TidyInv, Loop, Fresh, StopLabels
<1>2. CleanInv(c)'
  BY DEF CleanInv, TidyInv, Loop, CleanupLabels
<1> QED
  BY <1>1, <1>2

\* What it keeps before the loop.
LEMMA FreshTidy ==
  ASSUME NEW c \in Call, NEW k \in CallType, call'[c] = k, TidyInv(c),
         call[c].pc \in Fresh, k.pc \in Fresh \cup {"network"}, k.kind \in {"Start", call[c].kind},
         k.result = call[c].result, k.cancelled = call[c].cancelled, k.ids = call[c].ids
  PROVE  TidyInv(c)' /\ CleanInv(c)'
<1>1. TidyInv(c)'
  BY DEF TidyInv, Fresh, StopLabels
<1>2. CleanInv(c)'
  BY DEF CleanInv, TidyInv, Fresh, Loop, CleanupLabels
<1> QED
  BY <1>1, <1>2

\* What holds when a call has ended: a Start that failed has nothing running.
LEMMA EndTidy ==
  ASSUME NEW c \in Call, NEW k \in CallType, call'[c] = k, TidyInv(c),
         k.pc = "done", k.kind # "none", k.kind = call[c].kind \/ call[c].kind = "none",
         k.cancelled = call[c].cancelled, k.result = call[c].result \/ ~call[c].cancelled,
         k.kind = "Start" /\ k.result = "error" => \A s \in Service : ctr'[<<c, s>>].status # "running"
  PROVE  TidyInv(c)' /\ CleanInv(c)'
<1>1. TidyInv(c)'
  BY DEF TidyInv, Fresh, StopLabels
<1>2. CleanInv(c)'
  BY DEF CleanInv, Loop, CleanupLabels
<1> QED
  BY <1>1, <1>2

TidyKept(c) == TidyInv(c)' /\ CleanInv(c)' /\ \A d \in Call \ {c} : Apart(d)
Clean(c) == IInv /\ TidyInv(c) /\ CleanInv(c)

\* A Start before its loop.
LEMMA BeginsTidy ==
  ASSUME NEW c \in Call, Clean(c),
         \/ \E p \in Project : StartCall(c, p)
         \/ ConnectRuntimes(c) \/ ReadDockerRuntime(c) \/ SetupOrchestrator(c)
  PROVE  TidyKept(c)
<1>1. call[c] \in CallType /\ TypeOK
  BY CallTyped DEF Clean, IInv
<1>2. ASSUME NEW p \in Project, StartCall(c, p) PROVE TidyKept(c)
  <2> DEFINE k == [call[c] EXCEPT !.kind = "Start", !.proj = p, !.orch = c,
                                  !.pc = IF srv.host = Nil THEN "connect" ELSE "readrt"]
  <2>1. Becomes(c, k) /\ UNCHANGED <<orc, ctr>> /\ call[c].pc = "idle"
    BY <1>2 DEF StartCall, Issue, Clean, IInv, CallInv, IdentityInv
  <2>2. /\ k \in CallType /\ k.pc \in Fresh /\ k.kind = "Start" /\ k.result = call[c].result
        /\ k.cancelled = call[c].cancelled /\ k.ids = call[c].ids
    BY <1>1, LabelsTyped DEF CallType, Fresh
  <2> HIDE DEF k
  <2>3. call'[c] = k /\ \A d \in Call \ {c} : Apart(d)
    BY <1>1, <2>1, OneMoves, ApartLocal
  <2>4. TidyInv(c)' /\ CleanInv(c)'
    BY <2>1, <2>2, <2>3, FreshTidy DEF Clean, Fresh
  <2> QED
    BY <2>3, <2>4 DEF TidyKept
<1>3. ASSUME NEW pc \in {"readrt", "setup", "network"}, Becomes(c, [call[c] EXCEPT !.pc = pc]),
             call[c].pc \in {"connect", "readrt", "setup"}
      PROVE  TidyInv(c)' /\ CleanInv(c)'
  <2> DEFINE k == [call[c] EXCEPT !.pc = pc]
  <2>1. /\ k \in CallType /\ k.pc = pc /\ k.kind = call[c].kind /\ k.result = call[c].result
        /\ k.cancelled = call[c].cancelled /\ k.ids = call[c].ids
    BY <1>1, LabelsTyped DEF CallType
  <2>2. call'[c] = k
    BY <1>1, <1>3, OneMoves
  <2> HIDE DEF k
  <2> QED
    BY <1>3, <2>1, <2>2, FreshTidy DEF Clean, Fresh
<1>4. ASSUME ConnectRuntimes(c) PROVE TidyKept(c)
  BY <1>1, <1>3, <1>4, ApartLocal DEF ConnectRuntimes, TidyKept
<1>5. ASSUME ReadDockerRuntime(c) PROVE TidyKept(c)
  BY <1>1, <1>3, <1>5, ApartOrc DEF ReadDockerRuntime, TidyKept
<1>6. ASSUME SetupOrchestrator(c) PROVE TidyKept(c)
  <2>1. orc' = [orc EXCEPT ![c] = [orc[c] EXCEPT !.host = srv.host]]
    BY <1>6 DEF SetupOrchestrator
  <2> QED
    BY <1>1, <1>3, <1>6, <2>1, ApartOrc DEF SetupOrchestrator, TidyKept
<1> QED
  BY <1>2, <1>4, <1>5, <1>6 DEF Clean

\* Before its loop a Start has nothing to leave behind.
LEMMA FailsTidy ==
  ASSUME NEW c \in Call, Clean(c), ConnectFails(c) \/ SetupFails(c) \/ NetworkFails(c)
  PROVE  TidyKept(c)
<1>1. call[c] \in CallType /\ TypeOK
  BY CallTyped DEF Clean, IInv
<1> DEFINE k == [call[c] EXCEPT !.pc = "done", !.result = Return(c, "error")]
<1>2. Becomes(c, k) /\ UNCHANGED <<orc, ctr>> /\ call[c].pc \in {"connect", "setup", "network"}
  BY DEF ConnectFails, SetupFails, NetworkFails
<1>3. /\ k \in CallType /\ k.pc = "done" /\ k.kind = call[c].kind /\ k.cancelled = call[c].cancelled
      /\ k.result = Return(c, "error")
  BY <1>1, CallTyped, LabelsTyped DEF CallType, Clean, IInv
<1> HIDE DEF k
<1>4. call'[c] = k /\ \A d \in Call \ {c} : Apart(d)
  BY <1>1, <1>2, OneMoves, ApartLocal
<1>5. Untouched(c, Service) /\ call[c].kind # "none"
  BY <1>2 DEF Clean, IInv, CallInv, LoopInv, IdentityInv, Fresh
<1>6. TidyInv(c)' /\ CleanInv(c)'
  BY <1>2, <1>3, <1>4, <1>5, EndTidy DEF Clean, TidyInv, Return, Untouched
<1> QED
  BY <1>4, <1>6 DEF TidyKept

\* The loop begins with no container and no entry.
LEMMA NetworkTidy == ASSUME NEW c \in Call, Clean(c), EnsureNetwork(c) PROVE TidyKept(c)
<1>1. call[c] \in CallType /\ TypeOK
  BY CallTyped DEF Clean, IInv
<1> DEFINE k == [call[c] EXCEPT !.pc = "pick", !.todo = Cfg(c)]
<1>2. Becomes(c, k) /\ UNCHANGED <<orc, ctr>> /\ call[c].pc = "network"
  BY DEF EnsureNetwork
<1>3. /\ k.pc = "pick" /\ k.kind = call[c].kind /\ k.cancelled = call[c].cancelled
      /\ k.result = call[c].result /\ k.ids = call[c].ids
  BY <1>1 DEF CallType
<1> HIDE DEF k
<1>4. call'[c] = k /\ \A d \in Call \ {c} : Apart(d)
  BY <1>1, <1>2, OneMoves, ApartLocal
<1>5. Untouched(c, Service)
  BY <1>2 DEF Clean, IInv, CallInv, LoopInv
<1>6. TidyInv(c)'
  BY <1>2, <1>3, <1>4 DEF Clean, TidyInv, Fresh, StopLabels
<1>7. CleanInv(c)'
  BY <1>2, <1>3, <1>4, <1>5 DEF Clean, TidyInv, CleanInv, Untouched
<1> QED
  BY <1>4, <1>6, <1>7 DEF TidyKept

\* Steps in the loop that read, or that put off what they found.
LEMMA LooksTidy ==
  ASSUME NEW c \in Call, Clean(c), NEW k \in CallType, Becomes(c, k), UNCHANGED <<orc, ctr>>,
         call[c].pc \in Loop \ {"register"}, k.pc \in (Loop \ {"register"}) \cup {"cleanup"},
         k.kind = call[c].kind, k.result = call[c].result, k.cancelled = call[c].cancelled,
         k.ids = call[c].ids
  PROVE  TidyKept(c)
<1>1. call'[c] = k /\ \A d \in Call \ {c} : Apart(d)
  BY OneMoves, ApartLocal DEF Clean, IInv
<1>2. TidyInv(c)' /\ CleanInv(c)'
  BY <1>1, LoopTidy DEF Clean
<1> QED
  BY <1>1, <1>2 DEF TidyKept

\* The steps of the loop that only read, and those that give up.
LEMMA ReadsTidy ==
  ASSUME NEW c \in Call, Clean(c),
         PickService(c) \/ PrepareFails(c) \/ ListExisting(c) \/ LookupProcess(c) \/ StartFails(c)
  PROVE  TidyKept(c)
<1>1. call[c] \in CallType /\ TypeOK
  BY CallTyped DEF Clean, IInv
<1>2. ASSUME call[c].pc \in Loop \ {"register"}, Becomes(c, [call[c] EXCEPT !.pc = "cleanup"]),
             UNCHANGED <<orc, ctr>>
      PROVE  TidyKept(c)
  <2> DEFINE k == [call[c] EXCEPT !.pc = "cleanup"]
  <2>1. /\ k \in CallType /\ k.pc = "cleanup" /\ k.kind = call[c].kind /\ k.result = call[c].result
        /\ k.cancelled = call[c].cancelled /\ k.ids = call[c].ids
    BY <1>1, LabelsTyped DEF CallType, CleanupLabels
  <2> HIDE DEF k
  <2> QED
    BY <1>2, <2>1, LooksTidy DEF k
<1>3. ASSUME NEW s \in StartReady(c), Becomes(c, [call[c] EXCEPT !.pc = "list", !.cur = s]),
             call[c].pc = "pick", UNCHANGED <<orc, ctr>>
      PROVE  TidyKept(c)
  <2> DEFINE k == [call[c] EXCEPT !.pc = "list", !.cur = s]
  <2>1. s \in Service
    BY <1>1, <1>3 DEF StartReady, CallType
  <2>2. /\ k \in CallType /\ k.pc = "list" /\ k.kind = call[c].kind /\ k.result = call[c].result
        /\ k.cancelled = call[c].cancelled /\ k.ids = call[c].ids
    BY <1>1, <2>1, LabelsTyped DEF CallType
  <2> HIDE DEF k
  <2> QED
    BY <1>3, <2>2, LooksTidy DEF k, Loop
<1>4. ASSUME ListExisting(c) PROVE TidyKept(c)
  <2> DEFINE r == RuntimeFor(c, call[c].cur)
             f == IF Reachable(c, r) THEN Listed(r, call[c].cur) ELSE {}
             k == [call[c] EXCEPT !.pc = "replace", !.found = f]
  <2>1. Becomes(c, k) /\ call[c].pc = "list" /\ UNCHANGED <<orc, ctr>> /\ f \in SUBSET ContainerId
    BY <1>4 DEF ListExisting, Listed
  <2> HIDE DEF f
  <2>2. /\ k \in CallType /\ k.pc = "replace" /\ k.kind = call[c].kind /\ k.result = call[c].result
        /\ k.cancelled = call[c].cancelled /\ k.ids = call[c].ids
    BY <1>1, <2>1, LabelsTyped DEF CallType
  <2> HIDE DEF k
  <2> QED
    BY <2>1, <2>2, LooksTidy DEF Loop
<1>5. CASE PickService(c)
  BY <1>2, <1>3, <1>5 DEF PickService, Loop
<1>6. CASE PrepareFails(c) \/ StartFails(c)
  BY <1>2, <1>6 DEF PrepareFails, StartFails, Loop
<1>7. CASE LookupProcess(c)
  <2> DEFINE k == [call[c] EXCEPT !.pc = "fork"]
  <2>1. /\ k \in CallType /\ k.pc = "fork" /\ k.kind = call[c].kind /\ k.result = call[c].result
        /\ k.cancelled = call[c].cancelled /\ k.ids = call[c].ids
    BY <1>1, LabelsTyped DEF CallType
  <2>2. Becomes(c, k) /\ UNCHANGED <<orc, ctr>> /\ call[c].pc = "start"
    BY <1>7 DEF LookupProcess
  <2> HIDE DEF k
  <2> QED
    BY <2>1, <2>2, LooksTidy DEF Loop
<1> QED
  BY <1>4, <1>5, <1>6, <1>7

\* Steps in the loop on containers, of which none is started.
LEMMA TouchesTidy ==
  ASSUME NEW c \in Call, Clean(c), NEW k \in CallType, Becomes(c, k), UNCHANGED orc,
         call[c].pc \in Loop \ {"register"}, k.pc \in (Loop \ {"register"}) \cup {"cleanup"},
         k.kind = call[c].kind, k.result = call[c].result, k.cancelled = call[c].cancelled,
         k.ids = call[c].ids,
         \A i \in ContainerId : ctr'[i].status = "running" => ctr[i].status = "running"
  PROVE  TidyKept(c)
<1>1. call'[c] = k /\ \A d \in Call \ {c} : Apart(d)
  BY OneMoves, ApartContainers DEF Clean, IInv
<1>2. \A s \in Service : ctr'[<<c, s>>].status = "running" => ctr[<<c, s>>].status = "running"
  BY DEF ContainerId
<1>3. TidyInv(c)' /\ CleanInv(c)'
  BY <1>1, <1>2, LoopTidy DEF Clean
<1> QED
  BY <1>1, <1>3 DEF TidyKept

\* A container that is created does not run.
LEMMA CreatedQuells ==
  ASSUME TypeOK, NEW i \in ContainerId, NEW r,
         ctr' = [ctr EXCEPT ![i] = [rt |-> r, status |-> "created"]]
  PROVE  \A j \in ContainerId : ctr'[j].status = "running" => ctr[j].status = "running"
<1>1. ctr'[i].status = "created" /\ \A j \in ContainerId \ {i} : ctr'[j] = ctr[j]
  BY DEF TypeOK
<1> QED
  BY <1>1

\* The container of an earlier Start is removed, its own is made.
LEMMA ReplacesTidy ==
  ASSUME NEW c \in Call, Clean(c), RemoveExisting(c) \/ CreateContainer(c) \/ CreateFails(c)
  PROVE  TidyKept(c)
<1>1. call[c] \in CallType /\ TypeOK /\ call[c].pc = "replace" /\ UNCHANGED orc
  BY CallTyped DEF Clean, IInv, RemoveExisting, CreateContainer, CreateFails
<1>2. call[c].cur \in Service /\ <<c, call[c].cur>> \in ContainerId
  BY <1>1 DEF Clean, IInv, CallInv, LoopInv, AtService, Loop, StartReady, CallType, ContainerId
<1>3. ASSUME NEW pc \in {"start", "cleanup"}, Becomes(c, [call[c] EXCEPT !.pc = pc]),
             \A i \in ContainerId : ctr'[i].status = "running" => ctr[i].status = "running"
      PROVE  TidyKept(c)
  <2> DEFINE k == [call[c] EXCEPT !.pc = pc]
  <2>1. /\ k \in CallType /\ k.pc = pc /\ k.kind = call[c].kind /\ k.result = call[c].result
        /\ k.cancelled = call[c].cancelled /\ k.ids = call[c].ids
    BY <1>1, LabelsTyped DEF CallType, CleanupLabels
  <2> HIDE DEF k
  <2> QED
    BY <1>1, <1>3, <2>1, TouchesTidy DEF k, Loop
<1>4. CASE RemoveExisting(c)
  <2>1. PICK i \in call[c].found :
          /\ IF Reachable(c, ctr[i].rt) THEN Remove({i}) ELSE UNCHANGED ctr
          /\ Becomes(c, [call[c] EXCEPT !.found = @ \ {i}])
    BY <1>4 DEF RemoveExisting
  <2>2. i \in ContainerId
    BY <1>1 DEF CallType
  <2>3. \A j \in ContainerId : ctr'[j].status = "running" => ctr[j].status = "running"
    BY <1>1, <2>1, <2>2, RemoveQuells
  <2> DEFINE k == [call[c] EXCEPT !.found = @ \ {i}]
  <2>4. /\ k \in CallType /\ k.pc = "replace" /\ k.kind = call[c].kind /\ k.result = call[c].result
        /\ k.cancelled = call[c].cancelled /\ k.ids = call[c].ids
    BY <1>1 DEF CallType
  <2> HIDE DEF k
  <2> QED
    BY <1>1, <2>1, <2>3, <2>4, TouchesTidy DEF k, Loop
<1>5. CASE CreateContainer(c)
  BY <1>1, <1>2, <1>3, <1>5, CreatedQuells DEF CreateContainer
<1>6. CASE CreateFails(c)
  BY <1>1, <1>2, <1>3, <1>6, CreatedQuells DEF CreateFails
<1> QED
  BY <1>4, <1>5, <1>6

\* The container of the current service runs and is not registered yet.
LEMMA StartsTidy ==
  ASSUME NEW c \in Call, Clean(c), StartContainer(c) \/ ForkProcess(c) PROVE TidyKept(c)
<1> DEFINE i == <<c, call[c].cur>>
           k == [call[c] EXCEPT !.pc = "register"]
<1>1. call[c] \in CallType /\ TypeOK /\ call[c].pc \in {"start", "fork"}
  BY CallTyped DEF Clean, IInv, StartContainer, ForkProcess
<1>2. i \in ContainerId
  BY <1>1 DEF Clean, IInv, CallInv, LoopInv, AtService, Loop, StartReady, CallType, ContainerId
<1>3. Becomes(c, k) /\ UNCHANGED orc /\ \E end : ctr' = [ctr EXCEPT ![i] = end]
  BY DEF StartContainer, ForkProcess
<1>4. \A j \in ContainerId \ {i} : ctr'[j] = ctr[j]
  BY <1>1, <1>2, <1>3 DEF TypeOK
<1>5. /\ k \in CallType /\ k.pc = "register" /\ k.kind = call[c].kind /\ k.result = call[c].result
      /\ k.cancelled = call[c].cancelled /\ k.ids = call[c].ids /\ k.cur = call[c].cur
  BY <1>1, LabelsTyped DEF CallType
<1> HIDE DEF k
<1>6. call'[c] = k /\ \A d \in Call \ {c} : Apart(d)
  BY <1>1, <1>3, <1>4, OneMoves, ApartContainers
<1>7. \A s \in Service \ {call[c].cur} : ctr'[<<c, s>>] = ctr[<<c, s>>]
  BY <1>4 DEF ContainerId
<1>8. TidyInv(c)'
  BY <1>1, <1>5, <1>6 DEF Clean, TidyInv, Fresh, StopLabels
<1>9. CleanInv(c)'
  BY <1>1, <1>3, <1>5, <1>6, <1>7 DEF Clean, TidyInv, CleanInv, Loop, CleanupLabels
<1> QED
  BY <1>6, <1>8, <1>9 DEF TidyKept

\* From now on it has an entry, which is not Nil.
LEMMA RegistersTidy == ASSUME NEW c \in Call, Clean(c), Register(c) PROVE TidyKept(c)
<1> DEFINE s == call[c].cur
           k == [call[c] EXCEPT !.pc = "collect", !.ids = @ \cup {<<c, s>>}]
           o == [orc[c] EXCEPT !.rt = [@ EXCEPT ![s] = RuntimeFor(c, s)]]
<1>1. call[c] \in CallType /\ TypeOK /\ call[c].pc = "register" /\ orc[c] \in OrchType
  BY CallTyped DEF Clean, IInv, Register
<1>2. s \in Service /\ RuntimeFor(c, s) # Nil
  BY <1>1 DEF Clean, IInv, CallInv, LoopInv, AtService, Loop, StartReady, CallType
<1>3. Becomes(c, k) /\ orc' = [orc EXCEPT ![c] = o] /\ UNCHANGED ctr
  BY DEF Register
<1>4. /\ k.pc = "collect" /\ k.kind = call[c].kind /\ k.result = call[c].result
      /\ k.cancelled = call[c].cancelled /\ k.ids = call[c].ids \cup {<<c, s>>}
      /\ call[c].ids \subseteq ContainerId
  BY <1>1 DEF CallType
<1>5. o.rt[s] = RuntimeFor(c, s) /\ \A t \in Service \ {s} : o.rt[t] = orc[c].rt[t]
  BY <1>1, <1>2 DEF OrchType
<1> HIDE DEF k, o
<1>6. call'[c] = k /\ \A d \in Call \ {c} : Apart(d)
  BY <1>1, <1>3, OneMoves, ApartOrc
<1>7. orc'[c] = o
  BY <1>1, <1>3 DEF TypeOK
<1>8. TidyInv(c)'
  BY <1>1, <1>4, <1>6 DEF Clean, TidyInv, Fresh, StopLabels
<1>9. CleanInv(c)'
  <2>1. SUFFICES ASSUME k.kind = "Start", k.result # "cancelled" PROVE CleanInv(c)'
    BY <1>6 DEF CleanInv
  <2>2. \A i \in k.ids : i[1] = c /\ orc'[c].rt[i[2]] # Nil
    <3>1. ASSUME NEW i \in call[c].ids PROVE i[1] = c /\ o.rt[i[2]] # Nil
      <4>1. i[1] = c /\ orc[c].rt[i[2]] # Nil /\ i[2] \in Service
        BY <1>1, <1>4, <2>1 DEF Clean, CleanInv, Loop, ContainerId
      <4> QED
        BY <1>2, <1>5, <4>1
    <3> QED
      BY <1>2, <1>4, <1>5, <1>7, <3>1
  <2>3. \A t \in Service : ctr'[<<c, t>>].status = "running" => <<c, t>> \in k.ids
    BY <1>1, <1>3, <1>4, <2>1 DEF Clean, CleanInv, Loop
  <2>4. k.result # "error"
    BY <1>1, <1>4 DEF Clean, TidyInv
  <2> QED
    BY <1>4, <1>6, <2>2, <2>3, <2>4 DEF CleanInv
<1> QED
  BY <1>6, <1>8, <1>9 DEF TidyKept

\* The service is done, its container has its entry.
LEMMA CollectsTidy == ASSUME NEW c \in Call, Clean(c), StartCollector(c) PROVE TidyKept(c)
<1> DEFINE s == call[c].cur
           k == [call[c] EXCEPT !.pc = "pick", !.cur = Nil, !.todo = @ \ {s}]
           o == [orc[c] EXCEPT !.collectors = @ \cup {s}]
<1>1. call[c] \in CallType /\ TypeOK /\ call[c].pc = "collect" /\ orc[c] \in OrchType
  BY CallTyped DEF Clean, IInv, StartCollector
<1>2. Becomes(c, k) /\ orc' = [orc EXCEPT ![c] = o] /\ UNCHANGED ctr
  BY DEF StartCollector
<1>3. /\ k \in CallType /\ k.pc = "pick" /\ k.kind = call[c].kind /\ k.result = call[c].result
      /\ k.cancelled = call[c].cancelled /\ k.ids = call[c].ids
  <2>1. "pick" \in Labels
    BY DEF Labels, StartLabels
  <2> QED
    BY <1>1, <2>1 DEF CallType
<1>4. o.rt = orc[c].rt
  BY <1>1 DEF OrchType
<1> HIDE DEF k, o
<1>5. call'[c] = k /\ \A d \in Call \ {c} : Apart(d)
  BY <1>1, <1>2, OneMoves, ApartOrc
<1>6. orc'[c].rt = orc[c].rt
  BY <1>1, <1>2, <1>4 DEF TypeOK
<1>7. TidyInv(c)' /\ CleanInv(c)'
  BY <1>1, <1>2, <1>3, <1>5, <1>6, LoopTidy DEF Clean, Loop
<1> QED
  BY <1>5, <1>7 DEF TidyKept

\* A Start that succeeds has nothing to clean up.
LEMMA DoneTidy == ASSUME NEW c \in Call, Clean(c), StartDone(c) PROVE TidyKept(c)
<1> DEFINE k == [call[c] EXCEPT !.pc = "done", !.ids = {}, !.result = Return(c, "ok")]
<1>1. call[c] \in CallType /\ TypeOK /\ call[c].pc = "pick"
  BY CallTyped DEF Clean, IInv, StartDone
<1>2. Becomes(c, k) /\ UNCHANGED <<orc, ctr>>
  BY DEF StartDone
<1>3. /\ k \in CallType /\ k.pc = "done" /\ k.kind = call[c].kind /\ k.cancelled = call[c].cancelled
      /\ k.result = Return(c, "ok")
  BY <1>1, CallTyped, LabelsTyped DEF CallType, Clean, IInv
<1> HIDE DEF k
<1>4. call'[c] = k /\ \A d \in Call \ {c} : Apart(d)
  BY <1>1, <1>2, OneMoves, ApartLocal
<1>5. call[c].kind # "none" /\ call[c].result # "error"
  BY <1>1 DEF Clean, IInv, CallInv, IdentityInv, TidyInv
<1>6. TidyInv(c)' /\ CleanInv(c)'
  BY <1>3, <1>4, <1>5, EndTidy DEF Clean, TidyInv, Return
<1> QED
  BY <1>4, <1>6 DEF TidyKept

\* Cleanup asks the runtime of the entry, which RoutingSound says is the container's.
LEMMA LooksUpTidy == ASSUME NEW c \in Call, Clean(c), CleanupLookup(c) PROVE TidyKept(c)
<1>1. call[c] \in CallType /\ TypeOK /\ call[c].pc = "cleanup" /\ UNCHANGED <<orc, ctr>>
  BY CallTyped DEF Clean, IInv, CleanupLookup
<1>2. PICK i \in call[c].ids :
        Becomes(c, [call[c] EXCEPT !.pc = "cleanstop", !.cur = i[2],
                                   !.target = IF orc[c].rt[i[2]] # Nil
                                              THEN orc[c].rt[i[2]] ELSE orc[c].host])
  BY DEF CleanupLookup
<1> DEFINE r == IF orc[c].rt[i[2]] # Nil THEN orc[c].rt[i[2]] ELSE orc[c].host
           k == [call[c] EXCEPT !.pc = "cleanstop", !.cur = i[2], !.target = r]
<1>3. Becomes(c, k)
  BY <1>2
<1>4. /\ k.pc = "cleanstop" /\ k.kind = call[c].kind /\ k.result = call[c].result
      /\ k.cancelled = call[c].cancelled /\ k.ids = call[c].ids /\ k.cur = i[2] /\ k.target = r
  BY <1>1 DEF CallType
<1>5. i[2] \in Service /\ i = <<i[1], i[2]>> /\ i \in k.ids
  BY <1>1, <1>4 DEF CallType, ContainerId
<1> HIDE DEF k
<1>6. call'[c] = k /\ \A d \in Call \ {c} : Apart(d)
  BY <1>1, <1>3, OneMoves, ApartLocal
<1>7. TidyInv(c)'
  BY <1>1, <1>4, <1>6 DEF Clean, TidyInv, Fresh, StopLabels
<1>8. CleanInv(c)'
  BY <1>1, <1>4, <1>5, <1>6 DEF Clean, TidyInv, CleanInv, Loop, CleanupLabels
<1> QED
  BY <1>6, <1>7, <1>8 DEF TidyKept

\* Cleanup stops a container.
LEMMA StopsTidy == ASSUME NEW c \in Call, Clean(c), CleanupStop(c) PROVE TidyKept(c)
<1> DEFINE i == <<c, call[c].cur>>
           k == [call[c] EXCEPT !.pc = "cleanremove"]
<1>1. call[c] \in CallType /\ TypeOK /\ call[c].pc = "cleanstop" /\ UNCHANGED orc
  BY CallTyped DEF Clean, IInv, CleanupStop
<1>2. i \in ContainerId
  BY <1>1 DEF Clean, IInv, CallInv, RuntimeInv, ContainerId
<1>3. Becomes(c, k)
  BY DEF CleanupStop
<1>4. \A j \in ContainerId : ctr'[j].status = "running" => ctr[j].status = "running"
  BY <1>1, <1>2, EndQuells DEF CleanupStop
<1>5. /\ k.pc = "cleanremove" /\ k.kind = call[c].kind /\ k.result = call[c].result
      /\ k.cancelled = call[c].cancelled /\ k.ids = call[c].ids /\ k.cur = call[c].cur
      /\ k.target = call[c].target
  BY <1>1 DEF CallType
<1> HIDE DEF k
<1>6. call'[c] = k /\ \A d \in Call \ {c} : Apart(d)
  BY <1>1, <1>3, <1>4, OneMoves, ApartContainers
<1>7. TidyInv(c)'
  BY <1>1, <1>5, <1>6 DEF Clean, TidyInv, Fresh, StopLabels
<1>8. \A s \in Service : ctr'[<<c, s>>].status = "running" => ctr[<<c, s>>].status = "running"
  BY <1>4 DEF ContainerId
<1>9. CleanInv(c)'
  BY <1>1, <1>5, <1>6, <1>8 DEF Clean, TidyInv, CleanInv, Loop, CleanupLabels
<1> QED
  BY <1>6, <1>7, <1>9 DEF TidyKept

\* Cleanup removes it: the runtime is the right one, and can be reached as the client is there.
LEMMA RemovesTidy == ASSUME NEW c \in Call, Clean(c), CleanupRemove(c) PROVE TidyKept(c)
<1> DEFINE i == <<c, call[c].cur>>
           k == [call[c] EXCEPT !.pc = "cleanup", !.ids = @ \ {i}]
<1>1. call[c] \in CallType /\ TypeOK /\ call[c].pc = "cleanremove" /\ UNCHANGED orc
  BY CallTyped DEF Clean, IInv, CleanupRemove
<1>2. i \in ContainerId /\ call[c].cur \in Service
  BY <1>1 DEF Clean, IInv, CallInv, RuntimeInv, ContainerId
<1>3. Becomes(c, k)
  BY DEF CleanupRemove
<1>4. \A j \in ContainerId : ctr'[j].status = "running" => ctr[j].status = "running"
  BY <1>1, <1>2, RemoveQuells DEF CleanupRemove
<1>5. /\ k.pc = "cleanup" /\ k.kind = call[c].kind /\ k.result = call[c].result
      /\ k.cancelled = call[c].cancelled /\ k.ids = call[c].ids \ {i}
  BY <1>1 DEF CallType
<1> HIDE DEF k
<1>6. call'[c] = k /\ \A d \in Call \ {c} : Apart(d)
  BY <1>1, <1>3, <1>4, OneMoves, ApartContainers
<1>7. TidyInv(c)'
  BY <1>1, <1>5, <1>6 DEF Clean, TidyInv, Fresh, StopLabels
<1>8. \A s \in Service : ctr'[<<c, s>>].status = "running" => ctr[<<c, s>>].status = "running"
  BY <1>4 DEF ContainerId
<1>9. ASSUME k.kind = "Start", k.result # "cancelled" PROVE ctr'[i].status # "running"
  <2>1. i \in call[c].ids /\ call[c].target = orc[c].rt[call[c].cur] /\ orc[c].rt[call[c].cur] # Nil
    BY <1>1, <1>5, <1>9 DEF Clean, CleanInv, CleanupLabels
  <2>2. ctr[i].rt = call[c].target
    BY <1>2, <2>1 DEF Clean, IInv, RoutingSound
  <2>3. Reachable(c, ctr[i].rt)
    BY <1>5, <1>9 DEF Reachable, Clean, TidyInv
  <2> QED
    BY <1>1, <1>2, <2>2, <2>3, RemoveQuells DEF CleanupRemove
<1>10. CleanInv(c)'
  BY <1>1, <1>2, <1>5, <1>6, <1>8, <1>9 DEF Clean, TidyInv, CleanInv, Loop, CleanupLabels
<1> QED
  BY <1>6, <1>7, <1>10 DEF TidyKept

\* Cleanup ends when no container is left.
LEMMA CleanedTidy == ASSUME NEW c \in Call, Clean(c), CleanupDone(c) PROVE TidyKept(c)
<1> DEFINE k == [call[c] EXCEPT !.pc = "done", !.cur = Nil, !.todo = {}, !.target = Nil,
                                !.result = Return(c, "error")]
<1>1. call[c] \in CallType /\ TypeOK /\ call[c].pc = "cleanup" /\ call[c].ids = {}
  BY CallTyped DEF Clean, IInv, CleanupDone
<1>2. Becomes(c, k) /\ UNCHANGED <<orc, ctr>>
  BY DEF CleanupDone
<1>3. /\ k \in CallType /\ k.pc = "done" /\ k.kind = call[c].kind /\ k.cancelled = call[c].cancelled
      /\ k.result = Return(c, "error")
  BY <1>1, CallTyped, LabelsTyped DEF CallType, Clean, IInv
<1> HIDE DEF k
<1>4. call'[c] = k /\ \A d \in Call \ {c} : Apart(d)
  BY <1>1, <1>2, OneMoves, ApartLocal
<1>5. call[c].kind # "none"
  BY <1>1 DEF Clean, IInv, CallInv, IdentityInv
<1>6. ASSUME call[c].kind = "Start", k.result = "error"
      PROVE  \A s \in Service : ctr'[<<c, s>>].status # "running"
  BY <1>1, <1>2, <1>3, <1>6 DEF Clean, CleanInv, Return, CleanupLabels
<1>7. TidyInv(c)' /\ CleanInv(c)'
  BY <1>3, <1>4, <1>5, <1>6, EndTidy DEF Clean, TidyInv, Return
<1> QED
  BY <1>4, <1>7 DEF TidyKept

\* A Reset stops first, and is no Start.
LEMMA ResetsTidy ==
  ASSUME NEW c \in Call, Clean(c), NEW p \in Project, ResetCall(c, p) \/ StopCall(c, p)
  PROVE  TidyKept(c)
<1>1. call[c] \in CallType /\ TypeOK /\ call[c].pc = "idle" /\ call[c].kind = "none"
  BY CallTyped DEF Clean, IInv, ResetCall, StopCall, Issue, CallInv, IdentityInv
<1>2. /\ call'[c].kind \in {"Stop", "Reset"} /\ call'[c].pc \in {"done", "stopnext"}
      /\ call'[c].ids = call[c].ids /\ call'[c].cancelled = call[c].cancelled
      /\ \/ call'[c].result = call[c].result
         \/ call'[c].result = "error" /\ call'[c].pc = "done"
  <2> DEFINE failed(kind) == [call[c] EXCEPT !.kind = kind, !.proj = p, !.pc = "done", !.result = "error"]
             stops == [call[c] EXCEPT !.kind = "Stop", !.proj = p, !.pc = "stopnext",
                                      !.orch = srv.orch, !.todo = Services[p]]
             resets == [call[c] EXCEPT !.kind = "Reset", !.proj = p, !.orch = c,
                                       !.pc = "stopnext", !.todo = Services[p]]
  <2>1. PICK k \in {failed("Stop"), failed("Reset"), stops, resets} : Becomes(c, k)
    BY DEF StopCall, ResetCall
  <2>2. call'[c] = k
    BY <1>1, <2>1, OneMoves
  <2>3. CASE k \in {stops, resets}
    BY <1>1, <2>2, <2>3 DEF CallType
  <2>4. CASE k \in {failed("Stop"), failed("Reset")}
    BY <1>1, <2>2, <2>4 DEF CallType
  <2> QED
    BY <2>1, <2>3, <2>4
<1>3. TidyInv(c)' /\ CleanInv(c)'
  BY <1>1, <1>2 DEF Clean, TidyInv, CleanInv, Fresh
<1>4. \A d \in Call \ {c} : Apart(d)
  BY <1>1, ApartLocal, ApartOrc DEF StopCall, ResetCall
<1> QED
  BY <1>3, <1>4 DEF TidyKept

\* Nothing that Stop or the first half of Reset does concerns a Start, if there was
\* no Stop.
LEMMA StoppingTidy ==
  ASSUME NEW c \in Call, Clean(c), Quiet, StopStep(c) PROVE TidyKept(c)
<1>1. call[c] \in CallType /\ TypeOK /\ call[c].pc \in StopLabels
  BY CallTyped DEF Clean, IInv, StopStep, StopLookup, StopList, StopOne, ServiceStopped, StopDone, StopLabels
<1>2. call[c].kind = "Reset" /\ call[c].orch = c
  BY <1>1 DEF Clean, TidyInv, IInv, CallInv, IdentityInv, Quiet, CallType, StopLabels
<1>3. /\ call'[c].kind = call[c].kind /\ call'[c].cancelled = call[c].cancelled
      /\ \/ call'[c].pc \in StopLabels \cup {"network"} /\ call'[c].result = call[c].result
         \/ call'[c].pc = "done" /\ (~call[c].cancelled \/ call'[c].result = call[c].result)
  <2> DEFINE Same(k) == /\ k.kind = call[c].kind /\ k.cancelled = call[c].cancelled
                        /\ k.pc \in StopLabels \cup {"network"} /\ k.result = call[c].result
  <2>1. ASSUME NEW k, Same(k), Becomes(c, k)
        PROVE  /\ call'[c].kind = call[c].kind /\ call'[c].cancelled = call[c].cancelled
               /\ call'[c].pc \in StopLabels \cup {"network"} /\ call'[c].result = call[c].result
    BY <1>1, <2>1, OneMoves
  <2>2. CASE StopLookup(c)
    <3>1. PICK s \in StopReady(c) :
            Becomes(c, [call[c] EXCEPT !.pc = "stoplist", !.cur = s,
                                       !.target = LookupRuntime(call[c].orch, s)])
      BY <2>2 DEF StopLookup
    <3>2. Same([call[c] EXCEPT !.pc = "stoplist", !.cur = s, !.target = LookupRuntime(call[c].orch, s)])
      BY <1>1 DEF CallType, StopLabels
    <3> HIDE DEF Same
    <3> QED
      BY <2>1, <3>1, <3>2
  <2>3. CASE StopList(c)
    <3> DEFINE a == [call[c] EXCEPT !.pc = "stopone", !.found = Listed(call[c].target, call[c].cur)]
               b == [call[c] EXCEPT !.pc = "stopnext", !.cur = Nil, !.target = Nil,
                                    !.todo = @ \ {call[c].cur}]
    <3>1. Becomes(c, a) \/ Becomes(c, b)
      BY <2>3 DEF StopList
    <3>2. Same(a) /\ Same(b)
      BY <1>1 DEF CallType, StopLabels
    <3> HIDE DEF Same, a, b
    <3> QED
      BY <2>1, <3>1, <3>2
  <2>4. CASE StopOne(c)
    <3>1. PICK i \in call[c].found : Becomes(c, [call[c] EXCEPT !.found = @ \ {i}])
      BY <2>4 DEF StopOne
    <3>2. Same([call[c] EXCEPT !.found = @ \ {i}])
      BY <1>1 DEF CallType
    <3> HIDE DEF Same
    <3> QED
      BY <2>1, <3>1, <3>2
  <2>5. CASE ServiceStopped(c)
    <3> DEFINE a == [call[c] EXCEPT !.pc = "stopnext", !.cur = Nil, !.target = Nil,
                                    !.todo = @ \ {call[c].cur}]
    <3>1. Becomes(c, a)
      BY <2>5 DEF ServiceStopped
    <3>2. Same(a)
      BY <1>1 DEF CallType, StopLabels
    <3> HIDE DEF Same, a
    <3> QED
      BY <2>1, <3>1, <3>2
  <2>6. CASE StopDone(c)
    <3> DEFINE a == [call[c] EXCEPT !.pc = "done", !.result = Return(c, "ok")]
               b == [call[c] EXCEPT !.pc = "network"]
    <3>1. Becomes(c, a) \/ Becomes(c, b)
      BY <2>6 DEF StopDone
    <3>2. Same(b)
      BY <1>1 DEF CallType
    <3>3. /\ a.kind = call[c].kind /\ a.cancelled = call[c].cancelled /\ a.pc = "done"
          /\ a.result = Return(c, "ok")
      BY <1>1 DEF CallType
    <3>4. ~call[c].cancelled \/ Return(c, "ok") = call[c].result
      BY DEF Return, Clean, TidyInv
    <3>5. CASE Becomes(c, a)
      <4> HIDE DEF a, Same
      <4>1. call'[c] = a
        BY <1>1, <3>5, OneMoves
      <4> QED
        BY <3>3, <3>4, <4>1
    <3>6. CASE Becomes(c, b)
      <4> HIDE DEF b, Same
      <4> QED
        BY <2>1, <3>2, <3>6
    <3> QED
      BY <3>1, <3>5, <3>6
  <2> QED
    BY <2>2, <2>3, <2>4, <2>5, <2>6 DEF StopStep
<1>4. TidyInv(c)' /\ CleanInv(c)'
  BY <1>1, <1>2, <1>3 DEF Clean, TidyInv, CleanInv, Fresh, StopLabels
<1>5. ASSUME StopLookup(c) \/ StopList(c) PROVE \A d \in Call \ {c} : Apart(d)
  BY <1>1, <1>5, ApartLocal DEF StopLookup, StopList
<1>6. ASSUME StopOne(c) PROVE \A d \in Call \ {c} : Apart(d)
  <2>1. PICK i \in call[c].found :
          /\ IF ctr[i].status = "running" /\ Reachable(c, call[c].target)
             THEN \E end \in Ends(ctr[i].rt) : ctr' = [ctr EXCEPT ![i].status = end]
             ELSE UNCHANGED ctr
          /\ Becomes(c, [call[c] EXCEPT !.found = @ \ {i}])
    BY <1>6 DEF StopOne
  <2>2. \A j \in ContainerId : ctr'[j].status = "running" => ctr[j].status = "running"
    BY <1>1, <2>1, EndQuells DEF CallType
  <2> QED
    BY <1>1, <1>6, <2>1, <2>2, ApartContainers DEF StopOne
<1>7. ASSUME ServiceStopped(c) PROVE \A d \in Call \ {c} : Apart(d)
  <2> DEFINE o == [orc[c] EXCEPT !.collectors = @ \ {call[c].cur}]
  <2>1. orc' = [orc EXCEPT ![c] = o] /\ UNCHANGED ctr
    BY <1>2, <1>7 DEF ServiceStopped
  <2> QED
    BY <1>1, <1>7, <2>1, ApartOrc DEF ServiceStopped
<1>8. ASSUME StopDone(c) PROVE \A d \in Call \ {c} : Apart(d)
  <2> DEFINE o == [orc[c] EXCEPT !.rt = NoOrch.rt]
  <2>1. orc' = [orc EXCEPT ![c] = o] /\ UNCHANGED ctr
    BY <1>2, <1>8 DEF StopDone
  <2> QED
    BY <1>1, <1>8, <2>1, ApartOrc DEF StopDone
<1> QED
  BY <1>4, <1>5, <1>6, <1>7, <1>8 DEF TidyKept, StopStep

\* Nothing is asked of a Start whose client has left.
LEMMA LeavesTidy == ASSUME NEW c \in Call, Clean(c), Disconnect(c) PROVE TidyKept(c)
<1>1. call[c] \in CallType /\ TypeOK /\ call[c].kind # "none" /\ call[c].result = "none"
  BY CallTyped DEF Clean, IInv, Disconnect, InFlight
<1>2. /\ call'[c].kind = call[c].kind /\ call'[c].result = "cancelled" /\ call'[c].pc = call[c].pc
      /\ call'[c].ids = call[c].ids
  BY <1>1 DEF Disconnect, Becomes, TypeOK, CallType
<1>3. TidyInv(c)' /\ CleanInv(c)'
  BY <1>1, <1>2 DEF Clean, TidyInv, CleanInv
<1>4. \A d \in Call \ {c} : Apart(d)
  BY <1>1, ApartLocal DEF Disconnect
<1> QED
  BY <1>3, <1>4 DEF TidyKept

\* Every step of a call.
LEMMA HandlerTidy ==
  ASSUME NEW c \in Call, Clean(c), Quiet,
         Handler(c) \/ Disconnect(c) \/ \E p \in Project : Client(c, p)
  PROVE  TidyKept(c)
<1>1. ASSUME StartStep(c) PROVE TidyKept(c)
  BY <1>1, BeginsTidy, FailsTidy, NetworkTidy, ReadsTidy, ReplacesTidy, StartsTidy, RegistersTidy,
     CollectsTidy, DoneTidy DEF StartStep
<1>2. ASSUME CleanupStep(c) PROVE TidyKept(c)
  BY <1>2, LooksUpTidy, StopsTidy, RemovesTidy, CleanedTidy DEF CleanupStep
<1>3. ASSUME NEW p \in Project, Client(c, p) PROVE TidyKept(c)
  BY <1>3, BeginsTidy, ResetsTidy DEF Client
<1> QED
  BY <1>1, <1>2, <1>3, StoppingTidy, LeavesTidy DEF Handler
\* A call stays what it is.
LEMMA KindStays ==
  ASSUME TypeOK, NEW c \in Call, call[c].kind # "none",
         Handler(c) \/ Disconnect(c) \/ \E p \in Project : Client(c, p)
  PROVE  call'[c].kind = call[c].kind /\ \A d \in Call \ {c} : call'[d] = call[d]
<1>1. call[c] \in CallType
  BY CallTyped
<1>2. ASSUME NEW k, k.kind = call[c].kind, Becomes(c, k)
      PROVE  call'[c].kind = call[c].kind /\ \A d \in Call \ {c} : call'[d] = call[d]
  BY <1>2, OneMoves
<1>4. CASE ConnectRuntimes(c) \/ ConnectFails(c) \/ ReadDockerRuntime(c) \/ SetupOrchestrator(c)
           \/ SetupFails(c) \/ EnsureNetwork(c) \/ NetworkFails(c) \/ PrepareFails(c)
  BY <1>1, <1>2, <1>4 DEF ConnectRuntimes, ConnectFails, ReadDockerRuntime, SetupOrchestrator, SetupFails,
     EnsureNetwork, NetworkFails, PrepareFails, CallType
<1>5. CASE CreateContainer(c) \/ CreateFails(c)
           \/ StartContainer(c) \/ LookupProcess(c) \/ ForkProcess(c) \/ StartFails(c)
           \/ Register(c) \/ StartCollector(c) \/ StartDone(c)
  BY <1>1, <1>2, <1>5 DEF CreateContainer, CreateFails, StartContainer, LookupProcess, ForkProcess,
     StartFails, Register, StartCollector, StartDone, CallType
<1>6. CASE PickService(c) \/ ListExisting(c) \/ RemoveExisting(c)
  BY <1>1, <1>2, <1>6 DEF PickService, ListExisting, RemoveExisting, CallType
<1>7. CASE CleanupStep(c) \/ Disconnect(c)
  BY <1>1, <1>2, <1>7 DEF CleanupStep, CleanupLookup, CleanupStop, CleanupRemove, CleanupDone, Disconnect, CallType
<1>8. CASE StopStep(c)
  BY <1>1, <1>2, <1>8 DEF StopStep, StopLookup, StopList, StopOne, ServiceStopped, StopDone, CallType
<1>9. ~\E p \in Project : Client(c, p)
  BY DEF Client, StartCall, StopCall, ResetCall, Issue
<1> QED
  BY <1>4, <1>5, <1>6, <1>7, <1>8, <1>9 DEF Handler, StartStep

\* A service that ends, and a daemon that is killed.
LEMMA ExitTidy ==
  ASSUME IInv, CleanupInv, NEW i \in ContainerId, ServiceExit(i) PROVE CleanupInv'
<1>1. \A j \in ContainerId : ctr'[j].status = "running" => ctr[j].status = "running"
  <2>1. CASE ctr[i].status = "running"
    BY <2>1, EndQuells DEF ServiceExit, IInv
  <2>2. CASE ctr[i].status # "running"
    <3>1. ctr[i].status = "lost" /\ ctr' = [ctr EXCEPT ![i].status = "removed"]
      BY <2>2 DEF ServiceExit
    <3> QED
      BY <3>1, EndSteady DEF IInv
  <2> QED
    BY <2>1, <2>2
<1>2. \A d \in Call : Apart(d)
  BY <1>1 DEF Apart, ServiceExit, ContainerId
<1>3. Quiet' = Quiet
  BY DEF Quiet, ServiceExit
<1> QED
  BY <1>2, <1>3, FrameTidy DEF CleanupInv

\* A killed daemon answers nobody, and what it answered before stays so.
LEMMA CrashTidy == ASSUME IInv, CleanupInv, Crash PROVE CleanupInv'
<1>1. SUFFICES ASSUME Quiet', NEW c \in Call PROVE TidyInv(c)' /\ CleanInv(c)'
  BY DEF CleanupInv
<1> DEFINE k == [NoCall EXCEPT !.kind = call[c].kind, !.proj = call[c].proj, !.pc = "done",
                               !.result = Return(c, "crashed")]
<1>2. call'[c] = (IF call[c].kind = "none" THEN NoCall ELSE k) /\ UNCHANGED ctr
  BY DEF Crash
<1>3. /\ k.kind = call[c].kind /\ k.pc = "done" /\ k.result = Return(c, "crashed")
      /\ k.cancelled = FALSE
  BY DEF NoCall
<1>4. /\ NoCall.kind = "none" /\ NoCall.pc = "idle" /\ NoCall.result = "none"
      /\ NoCall.cancelled = FALSE /\ NoCall.ids = {}
  BY DEF NoCall
<1>5. \A d \in Call : call'[d].kind = call[d].kind
  <2>1. SUFFICES ASSUME NEW d \in Call PROVE call'[d].kind = call[d].kind
    OBVIOUS
  <2> QED
    BY DEF Crash, NoCall
<1>6. TidyInv(c) /\ CleanInv(c)
  BY <1>1, <1>5 DEF CleanupInv, Quiet
<1> HIDE DEF k
<1>7. CASE call[c].kind = "none"
  BY <1>2, <1>4, <1>7 DEF TidyInv, CleanInv, StopLabels
<1>8. CASE call[c].kind # "none"
  <2>1. TidyInv(c)'
    BY <1>2, <1>3, <1>8 DEF TidyInv, StopLabels, Fresh
  <2>2. k.result = "error" => call[c].result = "error"
    BY <1>3 DEF Return
  <2>3. CleanInv(c)'
    BY <1>2, <1>3, <1>6, <1>8, <2>2 DEF CleanInv, CleanupLabels, Loop
  <2> QED
    BY <2>1, <2>3
<1> QED
  BY <1>7, <1>8

\* Every step; the kinds of calls stay, so if there is no Stop now there was none before.
LEMMA NextTidy == ASSUME IInv, CleanupInv, [Next]_vars PROVE CleanupInv'
<1>1. ASSUME NEW c \in Call, Handler(c) \/ Disconnect(c) \/ \E p \in Project : Client(c, p)
      PROVE  CleanupInv'
  <2>1. SUFFICES ASSUME Quiet' PROVE \A d \in Call : TidyInv(d)' /\ CleanInv(d)'
    BY DEF CleanupInv
  <2>2. ASSUME NEW d \in Call, call[d].kind = "Stop" PROVE FALSE
    <3>1. call[c].kind # "none" => call'[c].kind = call[c].kind /\ \A e \in Call \ {c} : call'[e] = call[e]
      BY <1>1, KindStays DEF IInv
    <3>2. call[c].kind = "none" => \A e \in Call \ {c} : call'[e] = call[e]
      <4>1. SUFFICES ASSUME call[c].kind = "none" PROVE \A e \in Call \ {c} : call'[e] = call[e]
        OBVIOUS
      <4>2. call[c].pc = "idle"
        BY <4>1 DEF IInv, CallInv, IdentityInv
      <4>3. ~Handler(c) /\ ~Disconnect(c)
        BY <4>1, <4>2 DEF Handler, StartStep, CleanupStep, StopStep, ConnectRuntimes, ConnectFails,
           ReadDockerRuntime, SetupOrchestrator, SetupFails, EnsureNetwork, NetworkFails, PickService,
           PrepareFails, ListExisting, RemoveExisting, CreateContainer, CreateFails, StartContainer,
           LookupProcess, ForkProcess, StartFails, Register, StartCollector, StartDone, CleanupLookup, CleanupStop, CleanupRemove,
           CleanupDone, StopLookup, StopList, StopOne, ServiceStopped, StopDone, Disconnect, InFlight
      <4>4. PICK p \in Project : Client(c, p)
        BY <1>1, <4>3
      <4> QED
        BY <4>4, OneMoves DEF IInv, Client, StartCall, StopCall, ResetCall
    <3> QED
      BY <2>1, <2>2, <3>1, <3>2 DEF Quiet
  <2>3. Quiet
    BY <2>2 DEF Quiet
  <2>4. \A d \in Call : TidyInv(d) /\ CleanInv(d)
    BY <2>3 DEF CleanupInv
  <2>5. TidyKept(c)
    BY <1>1, <2>3, <2>4, HandlerTidy DEF Clean
  <2> QED
    BY <2>4, <2>5, FrameTidy DEF TidyKept
<1>2. CASE UNCHANGED vars
  <2>1. \A d \in Call : Apart(d)
    BY <1>2 DEF vars, Apart
  <2> QED
    BY <1>2, <2>1, FrameTidy DEF CleanupInv, Quiet, vars
<1> QED
  BY <1>1, <1>2, ExitTidy, CrashTidy DEF Next

\* At the beginning no call has begun.
LEMMA InitTidy == ASSUME Init PROVE CleanupInv
<1>1. \A c \in Call : call[c] = NoCall
  BY DEF Init
<1> QED
  BY <1>1 DEF CleanupInv, TidyInv, CleanInv, NoCall, StopLabels

\* As long as there is no Stop, an entry of the map exists for whatever a Start has
\* running, and cleanup finds it.
THEOREM CleanupInvariance == Spec => []CleanupInv
<1>1. Init => CleanupInv
  BY InitTidy
<1>2. IInv /\ CleanupInv /\ [Next]_vars => CleanupInv'
  BY NextTidy
<1> QED
  BY <1>1, <1>2, Invariance, PTL DEF Spec

\* ---- The process that a removal between lookup and fork leaves behind

AllLost == \A c \in Call : LostInv(c)

\* Calls that were issued keep their kind and their project.
Remembers ==
  \A d \in Call : call[d].kind # "none" =>
    call'[d].kind = call[d].kind /\ call'[d].proj = call[d].proj

\* What no step of another call does to a container: start it, lose it, or remove it
\* without a reason.
Spared(d) ==
  \A s \in Service :
    /\ ctr[<<d, s>>].status # "none" => ctr'[<<d, s>>].rt = ctr[<<d, s>>].rt
    /\ ctr'[<<d, s>>].status = "lost" => ctr[<<d, s>>].status = "lost"
    /\ ctr[<<d, s>>].status \in {"created", "removed"} =>
         ctr'[<<d, s>>].status \in {"created", "removed"}
    /\ ctr[<<d, s>>].status = "created" /\ ctr'[<<d, s>>].status = "removed" => Taken(d, s)'

\* A call that took the name of a process has done so for good.
LEMMA TakenStays ==
  ASSUME Remembers, NEW c \in Call, NEW s \in Service, Taken(c, s)
  PROVE  Taken(c, s)'
  BY DEF Remembers, Taken, Cfg

\* A call that does not move keeps what it knows.
LEMMA FrameLost ==
  ASSUME IInv, Remembers, NEW d \in Call, call'[d] = call[d], LostInv(d), Spared(d)
  PROVE  LostInv(d)'
<1>1. call[d].pc = "fork" => call[d].cur \in Service /\ ctr[<<d, call[d].cur>>].status # "none"
  BY CallTyped DEF IInv, CallInv, LoopInv, ContainerInv, AtService, Loop, StartReady, CallType
<1>2. call[d].pc = "fork" =>
        /\ ctr'[<<d, call[d].cur>>].status \in {"created", "removed"}
        /\ ctr'[<<d, call[d].cur>>].status = "removed" => Taken(d, call[d].cur)'
  BY <1>1, TakenStays DEF LostInv, Spared
<1>3. \A s \in Service : ctr'[<<d, s>>].status = "lost" =>
        ctr'[<<d, s>>].rt # Docker /\ Taken(d, s)'
  BY TakenStays DEF LostInv, Spared
<1> QED
  BY <1>2, <1>3 DEF LostInv

\* Call c moves, no other does, and it keeps its kind and its project.
Steps(c) ==
  /\ \A d \in Call \ {c} : call'[d] = call[d]
  /\ call[c].kind = "none" \/ (call'[c].kind = call[c].kind /\ call'[c].proj = call[c].proj)

\* It goes to a label at which there is nothing new to know.
StepsOut(c) ==
  /\ Steps(c)
  /\ call'[c].pc \notin {"replace", "fork"}
  /\ call'[c].pc \in StartLabels => call'[c].kind \in {"Start", "Reset"}

\* A step of call c.
LEMMA LostMoves ==
  ASSUME IInv, AllLost, NEW c \in Call, Steps(c),
         call'[c].pc \in StartLabels => call'[c].kind \in {"Start", "Reset"},
         call'[c].pc = "replace" => \A i \in call'[c].found : i[2] = call'[c].cur,
         call'[c].pc = "fork" => ctr'[<<c, call'[c].cur>>].status = "created",
         \A d \in Call \ {c} : Spared(d),
         \A s \in Service : ctr'[<<c, s>>].status = "lost" =>
           \/ ctr[<<c, s>>].status = "lost" /\ ctr'[<<c, s>>].rt = ctr[<<c, s>>].rt
           \/ ctr'[<<c, s>>].rt # Docker /\ Taken(c, s)
  PROVE  AllLost'
<1>2. Remembers
  BY DEF Remembers, Steps
<1>3. \A d \in Call \ {c} : LostInv(d)'
  BY <1>2, FrameLost DEF AllLost, Steps
<1>4. \A s \in Service : ctr'[<<c, s>>].status = "lost" =>
        ctr'[<<c, s>>].rt # Docker /\ Taken(c, s)'
  BY <1>2, TakenStays DEF AllLost, LostInv
<1>5. LostInv(c)'
  BY <1>4 DEF LostInv
<1> QED
  BY <1>3, <1>5 DEF AllLost

\* One that leaves the containers alone.
LEMMA LostLocal ==
  ASSUME IInv, AllLost, NEW c \in Call, UNCHANGED ctr, Steps(c),
         call'[c].pc \in StartLabels => call'[c].kind \in {"Start", "Reset"},
         call'[c].pc = "replace" => \A i \in call'[c].found : i[2] = call'[c].cur,
         call'[c].pc = "fork" => ctr[<<c, call'[c].cur>>].status = "created"
  PROVE  AllLost'
<1>1. \A d \in Call : Spared(d)
  BY DEF Spared
<1> QED
  BY <1>1, LostMoves

LEMMA LostOut ==
  ASSUME IInv, AllLost, NEW c \in Call, UNCHANGED ctr, StepsOut(c)
  PROVE  AllLost'
  BY LostLocal DEF StepsOut

\* One that ends a container that runs.
LEMMA EndSpares ==
  ASSUME TypeOK, NEW i \in ContainerId, ctr[i].status \in {"running", "lost"},
         NEW end \in {"exited", "killed", "removed"}, ctr' = [ctr EXCEPT ![i].status = end]
  PROVE  \A d \in Call : Spared(d)
<1>1. /\ ctr'[i].status = end /\ ctr'[i].rt = ctr[i].rt
      /\ \A j \in ContainerId \ {i} : ctr'[j] = ctr[j]
  BY EndSteady
<1>2. \A d \in Call, s \in Service : <<d, s>> \in ContainerId
  BY DEF ContainerId
<1> QED
  BY <1>1, <1>2 DEF Spared

LEMMA LostGoes ==
  ASSUME IInv, AllLost, NEW c \in Call, UNCHANGED ctr, NEW k, Becomes(c, k),
         call[c].kind = "none" \/ (k.kind = call[c].kind /\ k.proj = call[c].proj),
         k.pc \notin {"replace", "fork"},
         k.pc \in StartLabels => k.kind \in {"Start", "Reset"}
  PROVE  AllLost'
<1>1. call'[c] = k /\ \A d \in Call \ {c} : call'[d] = call[d]
  BY OneMoves DEF IInv
<1>2. StepsOut(c)
  BY <1>1 DEF Steps, StepsOut
<1> QED
  BY <1>2, LostOut

\* The loop of a Start, or of a Reset that goes on to it.
LEMMA LoopLost ==
  ASSUME IInv, AllLost, NEW c \in Call,
         \/ PickService(c) \/ PrepareFails(c) \/ ListExisting(c) \/ LookupProcess(c)
         \/ StartFails(c) \/ Register(c) \/ StartCollector(c) \/ StartDone(c)
  PROVE  AllLost'
<1>1. /\ call \in [Call -> CallType] /\ call[c].pc \in Loop
      /\ call[c].kind \in {"Start", "Reset"}
  BY DEF IInv, TypeOK, AllLost, LostInv, PickService, PrepareFails, ListExisting, LookupProcess,
     StartFails, Register, StartCollector, StartDone, Loop, StartLabels
<1>2. UNCHANGED ctr
  BY DEF PickService, PrepareFails, ListExisting, LookupProcess,
     StartFails, Register, StartCollector, StartDone
<1>3. CASE ListExisting(c)
  <2> DEFINE r == RuntimeFor(c, call[c].cur)
             f == IF Reachable(c, r) THEN Listed(r, call[c].cur) ELSE {}
             k == [call[c] EXCEPT !.pc = "replace", !.found = f]
  <2>1. Becomes(c, k) /\ \A i \in f : i[2] = call[c].cur
    BY <1>3 DEF ListExisting, Listed
  <2>2. k.pc = "replace" /\ k.kind = call[c].kind /\ k.proj = call[c].proj /\ k.found = f /\ k.cur = call[c].cur
    BY <1>1 DEF CallType
  <2> HIDE DEF k, f
  <2>3. Steps(c) /\ call'[c] = k
    BY <1>1, <2>1, <2>2 DEF Steps, Becomes
  <2> QED
    BY <1>1, <1>2, <2>1, <2>2, <2>3, LostLocal
<1>4. CASE LookupProcess(c)
  <2>1. Steps(c) /\ call'[c].kind = call[c].kind /\ call'[c].pc = "fork" /\ call'[c].cur = call[c].cur
    BY <1>1, <1>4 DEF LookupProcess, Becomes, Steps, CallType
  <2> QED
    BY <1>1, <1>2, <1>4, <2>1, LostLocal DEF LookupProcess
<1>5. CASE PickService(c)
  <2>1. PICK s \in StartReady(c) :
          IF RuntimeFor(c, s) = Nil
          THEN Becomes(c, [call[c] EXCEPT !.pc = "cleanup"])
          ELSE Becomes(c, [call[c] EXCEPT !.pc = "list", !.cur = s])
    BY <1>5 DEF PickService
  <2>2. CASE RuntimeFor(c, s) = Nil
    <3> DEFINE k == [call[c] EXCEPT !.pc = "cleanup"]
    <3>1. k.kind = call[c].kind /\ k.proj = call[c].proj /\ k.pc = "cleanup"
      BY <1>1 DEF CallType
    <3>2. Becomes(c, k)
      BY <2>1, <2>2
    <3> HIDE DEF k
    <3> QED
      BY <1>1, <1>2, <3>1, <3>2, LostGoes
  <2>3. CASE RuntimeFor(c, s) # Nil
    <3> DEFINE k == [call[c] EXCEPT !.pc = "list", !.cur = s]
    <3>1. k.kind = call[c].kind /\ k.proj = call[c].proj /\ k.pc = "list"
      BY <1>1 DEF CallType
    <3>2. Becomes(c, k)
      BY <2>1, <2>3
    <3> HIDE DEF k
    <3> QED
      BY <1>1, <1>2, <3>1, <3>2, LostGoes
  <2> QED
    BY <2>2, <2>3
<1>6. CASE PrepareFails(c) \/ StartFails(c)
  BY <1>1, <1>2, <1>6, LostOut DEF PrepareFails, StartFails, Becomes, Steps, StepsOut, CallType
<1>7. CASE Register(c)
  BY <1>1, <1>2, <1>7, LostOut DEF Register, Becomes, Steps, StepsOut, CallType
<1>8. CASE StartCollector(c)
  BY <1>1, <1>2, <1>8, LostOut DEF StartCollector, Becomes, Steps, StepsOut, CallType
<1>9. CASE StartDone(c)
  BY <1>1, <1>2, <1>9, LostOut DEF StartDone, Becomes, Steps, StepsOut, CallType
<1> QED
  BY <1>3, <1>4, <1>5, <1>6, <1>7, <1>8, <1>9

\* What comes before the loop.
LEMMA BeforeLost ==
  ASSUME IInv, AllLost, NEW c \in Call,
         \/ ConnectRuntimes(c) \/ ConnectFails(c) \/ ReadDockerRuntime(c) \/ SetupOrchestrator(c)
         \/ SetupFails(c) \/ EnsureNetwork(c) \/ NetworkFails(c)
  PROVE  AllLost'
<1>1. /\ call \in [Call -> CallType] /\ call[c].kind \in {"Start", "Reset"} /\ UNCHANGED ctr
  BY DEF IInv, TypeOK, AllLost, LostInv, StartLabels, ConnectRuntimes, ConnectFails,
     ReadDockerRuntime, SetupOrchestrator, SetupFails, EnsureNetwork, NetworkFails
<1>2. CASE ConnectRuntimes(c)
  <2> DEFINE k == [call[c] EXCEPT !.pc = "readrt"]
  <2>1. k.kind = call[c].kind /\ k.proj = call[c].proj /\ k.pc = "readrt"
    BY <1>1 DEF CallType
  <2>2. Becomes(c, k)
    BY <1>2 DEF ConnectRuntimes
  <2> HIDE DEF k
  <2> QED
    BY <1>1, <2>1, <2>2, LostGoes
<1>3. CASE ConnectFails(c) \/ SetupFails(c) \/ NetworkFails(c)
  <2> DEFINE k == [call[c] EXCEPT !.pc = "done", !.result = Return(c, "error")]
  <2>1. k.kind = call[c].kind /\ k.proj = call[c].proj /\ k.pc = "done"
    BY <1>1 DEF CallType
  <2>2. Becomes(c, k)
    BY <1>3 DEF ConnectFails, SetupFails, NetworkFails
  <2> HIDE DEF k
  <2> QED
    BY <1>1, <2>1, <2>2, LostGoes
<1>4. CASE ReadDockerRuntime(c)
  <2> DEFINE k == [call[c] EXCEPT !.pc = "setup"]
  <2>1. k.kind = call[c].kind /\ k.proj = call[c].proj /\ k.pc = "setup"
    BY <1>1 DEF CallType
  <2>2. Becomes(c, k)
    BY <1>4 DEF ReadDockerRuntime
  <2> HIDE DEF k
  <2> QED
    BY <1>1, <2>1, <2>2, LostGoes
<1>5. CASE SetupOrchestrator(c)
  <2> DEFINE k == [call[c] EXCEPT !.pc = "network"]
  <2>1. k.kind = call[c].kind /\ k.proj = call[c].proj /\ k.pc = "network"
    BY <1>1 DEF CallType
  <2>2. Becomes(c, k)
    BY <1>5 DEF SetupOrchestrator
  <2> HIDE DEF k
  <2> QED
    BY <1>1, <2>1, <2>2, LostGoes
<1>6. CASE EnsureNetwork(c)
  <2> DEFINE k == [call[c] EXCEPT !.pc = "pick", !.todo = Cfg(c)]
  <2>1. k.kind = call[c].kind /\ k.proj = call[c].proj /\ k.pc = "pick"
    BY <1>1 DEF CallType
  <2>2. Becomes(c, k)
    BY <1>6 DEF EnsureNetwork
  <2> HIDE DEF k
  <2> QED
    BY <1>1, <2>1, <2>2, LostGoes
<1> QED
  BY <1>2, <1>3, <1>4, <1>5, <1>6

\* What comes after it: cleanup and Stop, but for what they end.
LEMMA AfterLost ==
  ASSUME IInv, AllLost, NEW c \in Call,
         \/ CleanupLookup(c) \/ CleanupDone(c) \/ StopLookup(c) \/ StopList(c)
         \/ ServiceStopped(c) \/ StopDone(c)
  PROVE  AllLost'
<1>1. /\ call \in [Call -> CallType] /\ UNCHANGED ctr
  BY DEF IInv, TypeOK, CleanupLookup, CleanupDone, StopLookup, StopList, ServiceStopped, StopDone
<1>2. CASE CleanupLookup(c)
  <2>1. PICK i \in call[c].ids :
          Becomes(c, [call[c] EXCEPT !.pc = "cleanstop", !.cur = i[2],
                                     !.target = IF orc[c].rt[i[2]] # Nil
                                             THEN orc[c].rt[i[2]] ELSE orc[c].host])
    BY <1>2 DEF CleanupLookup
  <2> QED
    BY <1>1, <2>1, LostOut DEF Becomes, Steps, StepsOut, StartLabels, CallType
<1>3. CASE CleanupDone(c)
  BY <1>1, <1>3, LostOut DEF CleanupDone, Becomes, Steps, StepsOut, StartLabels, CallType
<1>4. CASE StopLookup(c)
  <2>1. PICK s \in StopReady(c) :
          Becomes(c, [call[c] EXCEPT !.pc = "stoplist", !.cur = s,
                                     !.target = LookupRuntime(call[c].orch, s)])
    BY <1>4 DEF StopLookup
  <2> DEFINE k == [call[c] EXCEPT !.pc = "stoplist", !.cur = s,
                                  !.target = LookupRuntime(call[c].orch, s)]
  <2>2. k.kind = call[c].kind /\ k.proj = call[c].proj /\ k.pc = "stoplist"
    BY <1>1 DEF CallType
  <2> HIDE DEF k
  <2> QED
    BY <1>1, <2>1, <2>2, LostGoes DEF StartLabels, k
<1>5. CASE StopList(c)
  <2>1. CASE Reachable(c, call[c].target)
    <3> DEFINE k == [call[c] EXCEPT !.pc = "stopone", !.found = Listed(call[c].target, call[c].cur)]
    <3>1. k.kind = call[c].kind /\ k.proj = call[c].proj /\ k.pc = "stopone"
      BY <1>1 DEF CallType
    <3>2. Becomes(c, k)
      BY <1>5, <2>1 DEF StopList
    <3> HIDE DEF k
    <3> QED
      BY <1>1, <3>1, <3>2, LostGoes DEF StartLabels
  <2>2. CASE ~Reachable(c, call[c].target)
    <3> DEFINE k == [call[c] EXCEPT !.pc = "stopnext", !.cur = Nil, !.target = Nil, !.todo = @ \ {call[c].cur}]
    <3>1. k.kind = call[c].kind /\ k.proj = call[c].proj /\ k.pc = "stopnext"
      BY <1>1 DEF CallType
    <3>2. Becomes(c, k)
      BY <1>5, <2>2 DEF StopList
    <3> HIDE DEF k
    <3> QED
      BY <1>1, <3>1, <3>2, LostGoes DEF StartLabels
  <2> QED
    BY <2>1, <2>2
<1>6. CASE ServiceStopped(c)
  BY <1>1, <1>6, LostOut DEF ServiceStopped, Becomes, Steps, StepsOut, StartLabels, CallType
<1>7. CASE StopDone(c)
  <2>1. ASSUME Becomes(c, [call[c] EXCEPT !.pc = "done", !.result = Return(c, "ok")])
        PROVE  AllLost'
    <3> DEFINE k == [call[c] EXCEPT !.pc = "done", !.result = Return(c, "ok")]
    <3>1. k.kind = call[c].kind /\ k.proj = call[c].proj /\ k.pc = "done"
      BY <1>1 DEF CallType
    <3>2. Becomes(c, k)
      BY <2>1 DEF StopDone
    <3> HIDE DEF k
    <3> QED
      BY <1>1, <3>1, <3>2, LostGoes DEF StartLabels
  <2>2. ASSUME call[c].kind = "Reset", Becomes(c, [call[c] EXCEPT !.pc = "network"])
        PROVE  AllLost'
    <3> DEFINE k == [call[c] EXCEPT !.pc = "network"]
    <3>1. k.kind = call[c].kind /\ k.proj = call[c].proj /\ k.pc = "network"
      BY <1>1 DEF CallType
    <3>2. Becomes(c, k)
      BY <2>2 DEF StopDone
    <3> HIDE DEF k
    <3> QED
      BY <1>1, <3>1, <2>2, <3>2, LostGoes
  <2> QED
    BY <1>7, <2>1, <2>2 DEF StopDone
<1> QED
  BY <1>2, <1>3, <1>4, <1>5, <1>6, <1>7

\* What a client does.
LEMMA ClientLost ==
  ASSUME IInv, AllLost, NEW c \in Call, NEW p \in Project, Client(c, p)
  PROVE  AllLost'
<1>1. call \in [Call -> CallType] /\ UNCHANGED ctr /\ call[c].kind = "none"
  BY DEF IInv, TypeOK, Client, StartCall, StopCall, ResetCall, Issue
<1>2. CASE StartCall(c, p)
  BY <1>1, <1>2, LostOut DEF StartCall, Becomes, Steps, StepsOut, StartLabels, CallType
<1>3. ASSUME NEW k, Becomes(c, k), k.pc \in {"done", "stopnext"}
      PROVE  AllLost'
  BY <1>1, <1>3, LostGoes DEF StartLabels
<1>4. CASE StopCall(c, p)
  <2> DEFINE k1 == [call[c] EXCEPT !.kind = "Stop", !.proj = p, !.pc = "done", !.result = "error"]
             k2 == [call[c] EXCEPT !.kind = "Stop", !.proj = p, !.pc = "stopnext",
                                   !.orch = srv.orch, !.todo = Services[p]]
  <2>1. k1.pc = "done" /\ k2.pc = "stopnext"
    BY <1>1 DEF CallType
  <2>2. Becomes(c, k1) \/ Becomes(c, k2)
    BY <1>4 DEF StopCall
  <2> HIDE DEF k1, k2
  <2> QED
    BY <1>3, <2>1, <2>2
<1>5. CASE ResetCall(c, p)
  <2> DEFINE k1 == [call[c] EXCEPT !.kind = "Reset", !.proj = p, !.pc = "done", !.result = "error"]
             k2 == [call[c] EXCEPT !.kind = "Reset", !.proj = p, !.orch = c,
                                   !.pc = "stopnext", !.todo = Services[p]]
  <2>1. k1.pc = "done" /\ k2.pc = "stopnext"
    BY <1>1 DEF CallType
  <2>2. Becomes(c, k1) \/ Becomes(c, k2)
    BY <1>5 DEF ResetCall
  <2> HIDE DEF k1, k2
  <2> QED
    BY <1>3, <2>1, <2>2
<1> QED
  BY <1>2, <1>4, <1>5 DEF Client

LEMMA DisconnectLost ==
  ASSUME IInv, AllLost, NEW c \in Call, Disconnect(c)
  PROVE  AllLost'
<1>1. /\ call \in [Call -> CallType] /\ UNCHANGED ctr /\ LostInv(c)
  BY DEF IInv, TypeOK, AllLost, Disconnect
<1>2. /\ \A d \in Call \ {c} : call'[d] = call[d]
      /\ call'[c].kind = call[c].kind /\ call'[c].proj = call[c].proj /\ call'[c].pc = call[c].pc
      /\ call'[c].cur = call[c].cur /\ call'[c].found = call[c].found
  BY <1>1 DEF Disconnect, Becomes, CallType
<1>3. Remembers /\ \A d \in Call : Spared(d)
  BY <1>1, <1>2 DEF Remembers, Spared
<1>4. \A d \in Call \ {c} : LostInv(d)'
  BY <1>2, <1>3, FrameLost DEF AllLost
<1>5. \A s \in Service : Taken(c, s) => Taken(c, s)'
  BY <1>3, TakenStays
<1>6. call[c].pc = "fork" => call[c].cur \in Service
  BY DEF IInv, CallInv, LoopInv, AtService, Loop, StartReady, TypeOK, CallType
<1>7. LostInv(c)'
  BY <1>1, <1>2, <1>5, <1>6 DEF LostInv
<1> QED
  BY <1>4, <1>7 DEF AllLost

\* The call's own container changes, and is not lost by that.
LEMMA LostOwn ==
  ASSUME IInv, AllLost, NEW c \in Call, NEW s \in Service, StepsOut(c),
         \A j \in ContainerId \ {<<c, s>>} : ctr'[j] = ctr[j],
         ctr'[<<c, s>>].status = "lost" =>
           \/ ctr[<<c, s>>].status = "lost" /\ ctr'[<<c, s>>].rt = ctr[<<c, s>>].rt
           \/ ctr'[<<c, s>>].rt # Docker /\ Taken(c, s)
  PROVE  AllLost'
<1>1. \A d \in Call, t \in Service : <<d, t>> \in ContainerId
  BY DEF ContainerId
<1>2. \A d \in Call \ {c} : Spared(d)
  BY <1>1 DEF Spared
<1>3. \A t \in Service : ctr'[<<c, t>>].status = "lost" =>
        \/ ctr[<<c, t>>].status = "lost" /\ ctr'[<<c, t>>].rt = ctr[<<c, t>>].rt
        \/ ctr'[<<c, t>>].rt # Docker /\ Taken(c, t)
  BY <1>1
<1> QED
  BY <1>2, <1>3, LostMoves DEF StepsOut

\* The steps of a Start on its own container.
LEMMA OwnLost ==
  ASSUME IInv, AllLost, NEW c \in Call,
         CreateContainer(c) \/ CreateFails(c) \/ StartContainer(c) \/ ForkProcess(c)
  PROVE  AllLost'
<1> DEFINE s == call[c].cur
<1>1. /\ call \in [Call -> CallType] /\ call[c] \in CallType /\ TypeOK /\ LostInv(c) /\ CallInv(c)
      /\ call[c].pc \in {"replace", "start", "fork"} /\ call[c].kind \in {"Start", "Reset"}
  BY CallTyped DEF IInv, TypeOK, AllLost, LostInv, CreateContainer, CreateFails, StartContainer,
     ForkProcess, StartLabels
<1>2. s \in Service /\ <<c, s>> \in ContainerId
  BY <1>1 DEF CallInv, LoopInv, AtService, Loop, StartReady, CallType, ContainerId
<1>3. StepsOut(c)
  BY <1>1 DEF CreateContainer, CreateFails, StartContainer, ForkProcess, Becomes, Steps, StepsOut,
     CallType
<1>4. CASE CreateContainer(c) \/ CreateFails(c)
  <2>1. \/ UNCHANGED ctr
        \/ ctr' = [ctr EXCEPT ![<<c, s>>] = [rt |-> RuntimeFor(c, s), status |-> "created"]]
    BY <1>4 DEF CreateContainer, CreateFails
  <2>2. \A j \in ContainerId \ {<<c, s>>} : ctr'[j] = ctr[j]
    BY <1>1, <1>2, <2>1 DEF TypeOK
  <2>3. ctr'[<<c, s>>].status = "created" \/ ctr'[<<c, s>>] = ctr[<<c, s>>]
    BY <1>1, <1>2, <2>1 DEF TypeOK
  <2> QED
    BY <1>1, <1>2, <1>3, <2>2, <2>3, LostOwn
<1>5. CASE StartContainer(c)
  <2>1. ctr' = [ctr EXCEPT ![<<c, s>>].status = "running"] /\ ctr[<<c, s>>].status # "none"
    BY <1>5 DEF StartContainer
  <2>2. ctr'[<<c, s>>].status = "running" /\ \A j \in ContainerId \ {<<c, s>>} : ctr'[j] = ctr[j]
    BY <1>1, <1>2, <2>1, EndSteady
  <2> QED
    BY <1>1, <1>2, <1>3, <2>2, LostOwn
<1>6. CASE ForkProcess(c)
  <2>1. /\ ctr[<<c, s>>].status \in {"created", "removed"} /\ ctr[<<c, s>>].rt # Docker
        /\ ctr[<<c, s>>].status = "removed" => Taken(c, s)
    BY <1>1, <1>6 DEF ForkProcess, LostInv, CallInv, ContainerInv
  <2>2. CASE ctr[<<c, s>>].status = "created"
    <3>1. ctr' = [ctr EXCEPT ![<<c, s>>].status = "running"]
      BY <1>6, <2>2 DEF ForkProcess
    <3>2. ctr'[<<c, s>>].status = "running" /\ \A j \in ContainerId \ {<<c, s>>} : ctr'[j] = ctr[j]
      BY <1>1, <1>2, <2>2, <3>1, EndSteady
    <3> QED
      BY <1>1, <1>2, <1>3, <3>2, LostOwn
  <2>3. CASE ctr[<<c, s>>].status = "removed"
    <3>1. ctr' = [ctr EXCEPT ![<<c, s>>].status = "lost"]
      BY <1>6, <2>3 DEF ForkProcess
    <3>2. /\ ctr'[<<c, s>>].rt = ctr[<<c, s>>].rt
          /\ \A j \in ContainerId \ {<<c, s>>} : ctr'[j] = ctr[j]
      BY <1>1, <1>2, <2>3, <3>1, EndSteady
    <3> QED
      BY <1>1, <1>2, <1>3, <2>1, <2>3, <3>2, LostOwn
  <2> QED
    BY <2>1, <2>2, <2>3
<1> QED
  BY <1>4, <1>5, <1>6

\* A container is removed.
LEMMA RemovedOne ==
  ASSUME TypeOK, NEW i \in ContainerId, Remove({i})
  PROVE  /\ \A j \in ContainerId \ {i} : ctr'[j] = ctr[j]
         /\ ctr'[i].rt = ctr[i].rt
         /\ ctr'[i].status = IF ctr[i].status \in Present THEN "removed" ELSE ctr[i].status
<1>1. ctr[i] \in ContainerType
  BY DEF TypeOK
<1>2. /\ [ctr[i] EXCEPT !.status = "removed"].status = "removed"
      /\ [ctr[i] EXCEPT !.status = "removed"].rt = ctr[i].rt
  BY <1>1 DEF ContainerType
<1>3. ctr'[i] = (IF ctr[i].status \in Present THEN [ctr[i] EXCEPT !.status = "removed"] ELSE ctr[i])
  BY DEF Remove
<1>4. \A j \in ContainerId \ {i} : ctr'[j] = ctr[j]
  BY DEF Remove
<1> QED
  BY <1>2, <1>3, <1>4

\* The step by which a process loses its entry: the remover is the reason.
LEMMA RemoveExistingLost ==
  ASSUME IInv, AllLost, NEW c \in Call, RemoveExisting(c)
  PROVE  AllLost'
<1> DEFINE k(i) == [call[c] EXCEPT !.found = @ \ {i}]
<1>1. PICK i \in call[c].found :
        /\ IF Reachable(c, ctr[i].rt) THEN Remove({i}) ELSE UNCHANGED ctr
        /\ Becomes(c, k(i))
  BY DEF RemoveExisting
<1>2. /\ call[c] \in CallType /\ TypeOK /\ LostInv(c) /\ CallInv(c) /\ call[c].pc = "replace"
      /\ call[c].kind \in {"Start", "Reset"}
  BY CallTyped DEF IInv, AllLost, LostInv, RemoveExisting, StartLabels
<1>3. i \in ContainerId /\ i[2] = call[c].cur
  BY <1>2 DEF CallType, LostInv
<1>4. /\ k(i).kind = call[c].kind /\ k(i).proj = call[c].proj /\ k(i).pc = "replace"
      /\ k(i).cur = call[c].cur /\ k(i).found \subseteq call[c].found
  BY <1>2 DEF CallType
<1> HIDE DEF k
<1>5. call'[c] = k(i) /\ Steps(c)
  BY <1>1, <1>2, <1>4, OneMoves DEF Steps
<1>6. call[c].cur \in Cfg(c)
  BY <1>2 DEF CallInv, LoopInv, AtService, Loop, StartReady
<1>7. call[c].cur \in Cfg(c)'
  BY <1>4, <1>5, <1>6 DEF Cfg
<1>8. \A d \in Call \ {c} : Taken(d, call[c].cur)'
  BY <1>2, <1>4, <1>5, <1>7 DEF Taken
<1>9. \A j \in ContainerId : ctr'[j].rt = ctr[j].rt /\ (j # i => ctr'[j] = ctr[j])
  BY <1>1, <1>2, <1>3, RemovedOne
<1>10. ctr'[i].status \in {ctr[i].status, "removed"} /\ (ctr[i].status \notin Present => ctr'[i].status = ctr[i].status)
  BY <1>1, <1>2, <1>3, RemovedOne
<1>11. \A d \in Call, s \in Service : <<d, s>> \in ContainerId /\ (<<d, s>> = i => s = call[c].cur)
  BY <1>3 DEF ContainerId
<1>12. \A d \in Call \ {c} : Spared(d)
  <2>1. ASSUME NEW d \in Call \ {c}, NEW s \in Service, <<d, s>> # i
        PROVE  ctr'[<<d, s>>] = ctr[<<d, s>>]
    BY <1>9, <1>11, <2>1
  <2>2. ASSUME NEW d \in Call \ {c}, NEW s \in Service, <<d, s>> = i
        PROVE  ctr'[<<d, s>>].rt = ctr[<<d, s>>].rt /\ Taken(d, s)'
               /\ ctr'[<<d, s>>].status \in {ctr[<<d, s>>].status, "removed"}
    <3>1. s = call[c].cur /\ <<d, s>> \in ContainerId
      BY <1>11, <2>2
    <3>2. Taken(d, s)'
      BY <1>4, <1>5, <1>8, <3>1 DEF Taken
    <3>3. ctr'[<<d, s>>].rt = ctr[<<d, s>>].rt
      BY <1>9, <3>1
    <3>4. ctr'[<<d, s>>].status \in {ctr[<<d, s>>].status, "removed"}
      BY <1>10, <2>2
    <3> QED
      BY <3>2, <3>3, <3>4
  <2>3. SUFFICES ASSUME NEW d \in Call \ {c}, NEW s \in Service
                 PROVE  /\ ctr[<<d, s>>].status # "none" => ctr'[<<d, s>>].rt = ctr[<<d, s>>].rt
                        /\ ctr'[<<d, s>>].status = "lost" => ctr[<<d, s>>].status = "lost"
                        /\ ctr[<<d, s>>].status \in {"created", "removed"} =>
                             ctr'[<<d, s>>].status \in {"created", "removed"}
                        /\ ctr[<<d, s>>].status = "created" /\ ctr'[<<d, s>>].status = "removed"
                             => Taken(d, s)'
    BY DEF Spared
  <2> QED
    BY <2>1, <2>2
<1>13. \A s \in Service : ctr'[<<c, s>>].status = "lost" =>
         ctr[<<c, s>>].status = "lost" /\ ctr'[<<c, s>>].rt = ctr[<<c, s>>].rt
  BY <1>9, <1>10, <1>11
<1>14. \A j \in k(i).found : j[2] = k(i).cur
  BY <1>2, <1>4 DEF LostInv
<1> QED
  BY <1>2, <1>4, <1>5, <1>12, <1>13, <1>14, LostMoves

\* cleanup and Stop end what runs.
LEMMA EndsLost ==
  ASSUME IInv, AllLost, NEW c \in Call, CleanupStop(c) \/ CleanupRemove(c) \/ StopOne(c)
  PROVE  AllLost'
<1>1. call \in [Call -> CallType] /\ TypeOK /\ CallInv(c)
  BY DEF IInv, TypeOK
<1>2. ASSUME StepsOut(c), \A d \in Call : Spared(d)
      PROVE  AllLost'
  <2>1. \A s \in Service : ctr'[<<c, s>>].status = "lost" =>
          ctr[<<c, s>>].status = "lost" /\ ctr'[<<c, s>>].rt = ctr[<<c, s>>].rt
    BY <1>2 DEF Spared
  <2> QED
    BY <1>2, <2>1, LostMoves DEF StepsOut
<1>3. UNCHANGED ctr => \A d \in Call : Spared(d)
  BY DEF Spared
<1>4. CASE CleanupStop(c)
  <2>1. StepsOut(c)
    BY <1>1, <1>4 DEF CleanupStop, Becomes, Steps, StepsOut, CallType, StartLabels
  <2>2. <<c, call[c].cur>> \in ContainerId
    BY <1>1, <1>4 DEF CleanupStop, CallInv, RuntimeInv, ContainerId
  <2>3. \A d \in Call : Spared(d)
    BY <1>1, <1>3, <1>4, <2>2, EndSpares DEF CleanupStop, Ends
  <2> QED
    BY <1>2, <2>1, <2>3
<1>5. CASE StopOne(c)
  <2>1. PICK i \in call[c].found :
          /\ IF ctr[i].status = "running" /\ Reachable(c, call[c].target)
             THEN \E end \in Ends(ctr[i].rt) : ctr' = [ctr EXCEPT ![i].status = end]
             ELSE UNCHANGED ctr
          /\ Becomes(c, [call[c] EXCEPT !.found = @ \ {i}])
    BY <1>5 DEF StopOne
  <2>2. i \in ContainerId
    BY <1>1 DEF CallType
  <2>3. \A d \in Call : Spared(d)
    BY <1>1, <1>3, <2>1, <2>2, EndSpares DEF Ends
  <2>4. StepsOut(c)
    BY <1>1, <1>5, <2>1 DEF StopOne, Becomes, Steps, StepsOut, CallType, StartLabels
  <2> QED
    BY <1>2, <2>3, <2>4
<1>6. CASE CleanupRemove(c)
  <2>1. StepsOut(c)
    BY <1>1, <1>6 DEF CleanupRemove, Becomes, Steps, StepsOut, CallType, StartLabels
  <2>2. call[c].cur \in Service /\ <<c, call[c].cur>> \in ContainerId
    BY <1>1, <1>6 DEF CleanupRemove, CallInv, RuntimeInv, ContainerId
  <2>3. UNCHANGED ctr \/ Remove({<<c, call[c].cur>>})
    BY <1>6 DEF CleanupRemove
  <2>4. \A j \in ContainerId \ {<<c, call[c].cur>>} : ctr'[j] = ctr[j]
    BY <1>1, <2>2, <2>3, RemovedOne
  <2>5. LET i == <<c, call[c].cur>> IN
        ctr'[i].rt = ctr[i].rt /\ (ctr'[i].status = "lost" => ctr[i].status = "lost")
    BY <1>1, <2>2, <2>3, RemovedOne
  <2> QED
    BY <2>1, <2>2, <2>4, <2>5, LostOwn
<1> QED
  BY <1>4, <1>5, <1>6

\* A service that ends, and a daemon that is killed: no call takes a step.
LEMMA AloneLost ==
  ASSUME IInv, AllLost, Remembers, \A d \in Call : Spared(d),
         \A d \in Call : call'[d] = call[d] \/ call'[d].pc \in {"idle", "done"}
  PROVE  AllLost'
<1>1. SUFFICES ASSUME NEW d \in Call PROVE LostInv(d)'
  BY DEF AllLost
<1>2. CASE call'[d] = call[d]
  BY <1>2, FrameLost DEF AllLost
<1>3. CASE call'[d].pc \in {"idle", "done"}
  <2>1. ASSUME NEW s \in Service, ctr'[<<d, s>>].status = "lost"
        PROVE  ctr'[<<d, s>>].rt # Docker /\ Taken(d, s)'
    <3>1. ctr[<<d, s>>].status = "lost" /\ ctr'[<<d, s>>].rt = ctr[<<d, s>>].rt
      BY <2>1 DEF Spared
    <3>2. ctr[<<d, s>>].rt # Docker /\ Taken(d, s)
      BY <3>1 DEF AllLost, LostInv
    <3> QED
      BY <3>1, <3>2, TakenStays
  <2> QED
    BY <1>3, <2>1 DEF LostInv, StartLabels
<1> QED
  BY <1>2, <1>3

\* Every step.
LEMMA NextLost == ASSUME IInv, AllLost, [Next]_vars PROVE AllLost'
<1>1. ASSUME NEW c \in Call, Handler(c) PROVE AllLost'
  BY <1>1, LoopLost, BeforeLost, AfterLost, OwnLost, RemoveExistingLost, EndsLost
  DEF Handler, StartStep, CleanupStep, StopStep
<1>2. ASSUME NEW c \in Call, NEW p \in Project, Client(c, p) PROVE AllLost'
  BY <1>2, ClientLost
<1>3. ASSUME NEW c \in Call, Disconnect(c) PROVE AllLost'
  BY <1>3, DisconnectLost
<1>4. ASSUME NEW i \in ContainerId, ServiceExit(i) PROVE AllLost'
  <2>1. UNCHANGED call
    BY <1>4 DEF ServiceExit
  <2>2. \A d \in Call : Spared(d)
    BY <1>4, EndSpares DEF ServiceExit, Ends, IInv
  <2> QED
    BY <2>1, <2>2, AloneLost DEF Remembers
<1>5. CASE Crash
  <2>1. UNCHANGED ctr
    BY <1>5 DEF Crash
  <2>2. Remembers
    BY <1>5 DEF Remembers, Crash, NoCall
  <2>3. \A d \in Call : call'[d].pc \in {"idle", "done"}
    <3>1. SUFFICES ASSUME NEW d \in Call PROVE call'[d].pc \in {"idle", "done"}
      OBVIOUS
    <3> QED
      BY <1>5 DEF Crash, NoCall
  <2> QED
    BY <2>1, <2>2, <2>3, AloneLost DEF Spared
<1>6. CASE UNCHANGED vars
  BY <1>6, AloneLost DEF vars, Remembers, Spared
<1> QED
  BY <1>1, <1>2, <1>3, <1>4, <1>5, <1>6 DEF Next

\* Nothing was forked yet.
LEMMA InitLost == ASSUME Init PROVE AllLost
<1>1. \A c \in Call : call[c] = NoCall /\ \A s \in Service : ctr[<<c, s>>] = NoContainer
  BY DEF Init, ContainerId
<1>2. NoCall.pc = "idle" /\ NoContainer.status = "none"
  BY DEF NoCall, NoContainer
<1> QED
  BY <1>1, <1>2 DEF AllLost, LostInv, StartLabels

\* A process runs without an entry only on the host, and only if another Start or Reset
\* of a service of its name was issued.
THEOREM LostInvariance == Spec => []AllLost
<1>1. Init => AllLost
  BY InitLost
<1>2. IInv /\ AllLost /\ [Next]_vars => AllLost'
  BY NextLost
<1> QED
  BY <1>1, <1>2, Invariance, PTL DEF Spec

\* If there is no Stop and no client leaves, a Start that failed leaves none of its
\* services running, whatever else overlaps (orchestrator.go:502), but for a host
\* process whose entry another Start removed between its lookup and its fork
\* (process.go:250, 260).
THEOREM FailedStartCorrect == Spec => []FailedStartCleansUp
<1>1. IInv /\ CleanupInv /\ AllLost => FailedStartCleansUp
  BY DEF CleanupInv, Quiet, CleanInv, AllLost, LostInv, FailedStartCleansUp, Undisturbed, Runs
<1> QED
  BY <1>1, Invariance, CleanupInvariance, LostInvariance, PTL
-------------------------------------------------------------------------------
(* One call at a time, of one project, with nothing that fails: the properties *)
(* of sequential instances                                                     *)

\* The hypotheses of the lemmas that follow: project p is served, call c takes a step.
Serves(p, c) == OneAtATime /\ Project = {p} /\ IInv /\ SequentialInv(p)

\* What a step of call c leaves to show.
SeqKept(p, c) ==
  /\ call' \in [Call -> CallType]
  /\ \A d \in Call \ {c} : call'[d] = call[d]
  /\ Waits(c)' /\ Starting(c)' /\ Stopping(c)' /\ call'[c].pc \notin CleanupLabels
  /\ HomeInv(p)'
  /\ call'[c].pc \notin Loop \cup {"network"} => \A s \in Service : Settled(s)'

\* A call at rest knows nothing.
LEMMA RestsKnow ==
  ASSUME NEW d \in Call, call'[d] = call[d], ~Busy(d), Waits(d)
  PROVE  Waits(d)' /\ Starting(d)' /\ Stopping(d)' /\ ~Busy(d)' /\ call'[d].pc \notin CleanupLabels \cup Loop \cup {"network"}
<1>1. call[d].pc \in {"idle", "done"} /\ call'[d].pc \in {"idle", "done"}
  BY DEF Busy
<1>2. Waits(d)' /\ ~Busy(d)'
  BY DEF Waits, Busy
<1>3. Starting(d)' /\ Stopping(d)'
  BY <1>1 DEF Starting, Stopping, StartLabels, StopLabels, Loop
<1> QED
  BY <1>1, <1>2, <1>3 DEF CleanupLabels, Loop

\* What call c keeps is kept, and the others rest.
LEMMA SeqFrame ==
  ASSUME NEW p, NEW c \in Call, Serves(p, c), \A d \in Call \ {c} : ~Busy(d), SeqKept(p, c)
  PROVE  SequentialInv(p)'
<1>1. ASSUME NEW d \in Call \ {c}
      PROVE  /\ Waits(d)' /\ Starting(d)' /\ Stopping(d)' /\ ~Busy(d)'
             /\ call'[d].pc \notin CleanupLabels \cup Loop \cup {"network"}
  BY <1>1, RestsKnow DEF SeqKept, Serves, SequentialInv
<1>2. \A d \in Call : Waits(d)' /\ Starting(d)' /\ Stopping(d)' /\ call'[d].pc \notin CleanupLabels
  BY <1>1 DEF SeqKept
<1>3. \A d, e \in Call : Busy(d)' /\ Busy(e)' => d = e
  BY <1>1
<1>4. (\A d \in Call : call'[d].pc \notin Loop \cup {"network"}) => \A s \in Service : Settled(s)'
  BY DEF SeqKept
<1> QED
  BY <1>2, <1>3, <1>4 DEF SequentialInv, SeqKept

\* A client only calls when the last call has been answered.
LEMMA NoneBusy ==
  ASSUME NEW p, NEW c \in Call, Serves(p, c), NEW k, Issue(c, k)
  PROVE  \A d \in Call : ~Busy(d)
<1>1. \A d \in Call : d \in InFlight <=> Busy(d)
  <2>1. SUFFICES ASSUME NEW d \in Call PROVE d \in InFlight <=> Busy(d)
    OBVIOUS
  <2>2. IdentityInv(d) /\ Waits(d)
    BY DEF Serves, IInv, CallInv, SequentialInv
  <2> QED
    BY <2>2 DEF IdentityInv, Waits, InFlight, Busy
<1>2. IsFiniteSet(InFlight)
  <2>1. CASE InFlight = {}
    BY <2>1, FS_EmptySet
  <2>2. CASE InFlight # {}
    <3>1. PICK d \in Call : InFlight = {d}
      BY <1>1, <2>2 DEF Serves, SequentialInv, InFlight
    <3> QED
      BY <3>1, FS_Singleton
  <2> QED
    BY <2>1, <2>2
<1>3. Cardinality(InFlight) = 0
  BY <1>2, FS_CardinalityType DEF Issue, Serves, OneAtATime
<1> QED
  BY <1>1, <1>2, <1>3, FS_EmptySet

\* While a call is at work no other is.
LEMMA OthersRest ==
  ASSUME NEW p, NEW c \in Call, Serves(p, c), Busy(c)
  PROVE  \A d \in Call \ {c} : ~Busy(d)
  BY DEF Serves, SequentialInv

\* What is known of a call that takes a step.
LEMMA SeqFacts ==
  ASSUME NEW p, NEW c \in Call, Serves(p, c)
  PROVE  /\ TypeOK /\ call[c] \in CallType /\ orc[c] \in OrchType /\ ctr \in [ContainerId -> ContainerType]
         /\ CallInv(c) /\ Waits(c) /\ Starting(c) /\ Stopping(c) /\ HomeInv(p)
         /\ call[c].pc \notin CleanupLabels
         /\ call[c].pc # "idle" => call[c].proj = p
         /\ \A r : Reachable(c, r)
         /\ Services[p] \subseteq Service
<1>1. TypeOK /\ CallInv(c) /\ Waits(c)
  BY DEF Serves, IInv, SequentialInv
<1>2. call[c].pc # "idle" => call[c].proj = p
  BY <1>1 DEF CallInv, IdentityInv, Serves
<1>3. \A r : Reachable(c, r)
  BY <1>1 DEF Waits, Reachable
<1>4. Services[p] \subseteq Service
  BY ConfigAssumption DEF Serves
<1> QED
  BY <1>1, <1>2, <1>3, <1>4, CallTyped DEF Serves, SequentialInv, TypeOK

\* Steps that leave server, orchestrators and containers alone.
LEMMA SameHome ==
  ASSUME NEW p, UNCHANGED <<srv, orc, ctr>>
  PROVE  /\ HomeInv(p) => HomeInv(p)'
         /\ \A s \in Service : Settled(s) => Settled(s)'
         /\ \A c, s : Up(c, s)' = Up(c, s) /\ Only(c, s)' = Only(c, s)
<1>1. HomeInv(p) => HomeInv(p)'
  BY DEF HomeInv, Home
<1>2. \A s \in Service : Settled(s) => Settled(s)'
  BY DEF Settled
<1>3. \A c, s : Up(c, s)' = Up(c, s) /\ Only(c, s)' = Only(c, s)
  BY DEF Up, Only
<1> QED
  BY <1>1, <1>2, <1>3

\* Nobody at work: all is settled.
LEMMA RestSettled ==
  ASSUME NEW p, NEW c \in Call, Serves(p, c), \A d \in Call \ {c} : ~Busy(d),
         call[c].pc \notin Loop \cup {"network"}
  PROVE  \A s \in Service : Settled(s)
<1>1. \A d \in Call : call[d].pc \notin Loop \cup {"network"}
  BY DEF Busy, Loop
<1> QED
  BY <1>1 DEF Serves, SequentialInv

\* A Start begins when everything is settled.
LEMMA StartCallSeq ==
  ASSUME NEW p, NEW c \in Call, Serves(p, c), StartCall(c, p) PROVE SequentialInv(p)'
<1> DEFINE k == [call[c] EXCEPT !.kind = "Start", !.proj = p, !.orch = c,
                                !.pc = IF srv.host = Nil THEN "connect" ELSE "readrt"]
<1>1. /\ TypeOK /\ call[c] \in CallType /\ Waits(c) /\ HomeInv(p) /\ call[c].pc = "idle"
  BY SeqFacts DEF CallInv, IdentityInv, StartCall, Issue
<1>2. \A d \in Call : ~Busy(d)
  BY NoneBusy DEF StartCall
<1>3. Becomes(c, k) /\ UNCHANGED <<srv, orc, ctr>>
  BY DEF StartCall
<1>4. /\ k \in CallType /\ k.pc \in {"connect", "readrt"} /\ (k.pc = "connect" => srv.host = Nil)
      /\ k.kind = "Start" /\ k.result = call[c].result /\ k.cancelled = call[c].cancelled
  <2>1. p \in Project
    BY DEF Serves
  <2>2. \A x \in CallType, l \in Labels :
          [x EXCEPT !.kind = "Start", !.proj = p, !.orch = c, !.pc = l] \in CallType
    BY <2>1 DEF CallType
  <2>3. k \in CallType
    BY <1>1, <2>2, LabelsTyped
  <2>4. k.pc = (IF srv.host = Nil THEN "connect" ELSE "readrt") /\ k.kind = "Start"
        /\ k.result = call[c].result /\ k.cancelled = call[c].cancelled
    BY <1>1 DEF CallType
  <2> QED
    BY <2>3, <2>4
<1> HIDE DEF k
<1>5. call'[c] = k /\ call' \in [Call -> CallType] /\ \A d \in Call \ {c} : call'[d] = call[d]
  BY <1>1, <1>3, <1>4, CallMoves
<1>6. Waits(c)' /\ Starting(c)' /\ Stopping(c)' /\ call'[c].pc \notin CleanupLabels
  BY <1>1, <1>3, <1>4, <1>5 DEF Waits, Starting, Stopping, Loop, StopLabels, CleanupLabels
<1>7. \A s \in Service : Settled(s)
  BY <1>1, <1>2, RestSettled DEF Loop
<1>8. SeqKept(p, c)
  BY <1>1, <1>3, <1>5, <1>6, <1>7, SameHome DEF SeqKept
<1> QED
  BY <1>2, <1>8, SeqFrame

\* So does a Stop: what runs is a service of the project, so it has it to do.
LEMMA StopCallSeq ==
  ASSUME NEW p, NEW c \in Call, Serves(p, c), StopCall(c, p) PROVE SequentialInv(p)'
<1> DEFINE a == [call[c] EXCEPT !.kind = "Stop", !.proj = p, !.pc = "done", !.result = "error"]
           b == [call[c] EXCEPT !.kind = "Stop", !.proj = p, !.pc = "stopnext",
                                !.orch = srv.orch, !.todo = Services[p]]
<1>1. /\ TypeOK /\ call[c] \in CallType /\ Waits(c) /\ HomeInv(p) /\ call[c].pc = "idle"
      /\ Services[p] \subseteq Service
  BY SeqFacts DEF CallInv, IdentityInv, StopCall, Issue
<1>2. \A d \in Call : ~Busy(d)
  BY NoneBusy DEF StopCall
<1>3. (Becomes(c, a) \/ Becomes(c, b)) /\ UNCHANGED <<srv, orc, ctr>>
  BY DEF StopCall
<1>4. /\ a \in CallType /\ a.pc = "done" /\ a.kind = "Stop" /\ a.result = "error"
      /\ a.cancelled = call[c].cancelled
  BY <1>1, LabelsTyped DEF CallType, Serves
<1>5. /\ b \in CallType /\ b.pc = "stopnext" /\ b.kind = "Stop" /\ b.result = call[c].result
      /\ b.cancelled = call[c].cancelled /\ b.orch = srv.orch /\ b.todo = Services[p]
  <2>1. "stopnext" \in Labels /\ srv.orch \in Call \cup {Nil} /\ p \in Project
    BY <1>1, LabelsTyped DEF StopLabels, TypeOK, ServerType, Serves
  <2> QED
    BY <1>1, <2>1 DEF CallType
<1> HIDE DEF a, b
<1>6. /\ call'[c] \in {a, b} /\ call' \in [Call -> CallType]
      /\ \A d \in Call \ {c} : call'[d] = call[d]
  BY <1>1, <1>3, <1>4, <1>5, CallMoves
<1>7. Waits(c)' /\ Starting(c)' /\ call'[c].pc \notin CleanupLabels
  BY <1>1, <1>4, <1>5, <1>6 DEF Waits, Starting, StartLabels, Loop, CleanupLabels
<1>8. \A i \in ContainerId : ctr'[i].status = "running" => i[2] \in Services[p]
  BY <1>1, <1>3 DEF HomeInv
<1>9. Stopping(c)'
  BY <1>3, <1>4, <1>5, <1>6, <1>8 DEF Stopping, StopLabels
<1>10. \A s \in Service : Settled(s)
  BY <1>1, <1>2, RestSettled DEF Loop
<1>11. SeqKept(p, c)
  BY <1>1, <1>3, <1>6, <1>7, <1>9, <1>10, SameHome DEF SeqKept
<1> QED
  BY <1>2, <1>11, SeqFrame

\* The first Start makes the runtimes, before there is any container.
LEMMA ConnectSeq ==
  ASSUME NEW p, NEW c \in Call, Serves(p, c), ConnectRuntimes(c) PROVE SequentialInv(p)'
<1> DEFINE k == [call[c] EXCEPT !.pc = "readrt"]
           needed == Cfg(c) \cap NeedsDocker[call[c].proj] # {}
<1>1. /\ TypeOK /\ call[c] \in CallType /\ Waits(c) /\ Starting(c) /\ HomeInv(p)
      /\ call[c].pc = "connect" /\ call[c].proj = p
  BY SeqFacts DEF ConnectRuntimes
<1>2. Becomes(c, k) /\ UNCHANGED <<orc, ctr>> /\ srv' = [srv EXCEPT !.host = c, !.docker = needed]
  BY DEF ConnectRuntimes
<1>3. /\ k \in CallType /\ k.pc = "readrt" /\ k.kind = call[c].kind /\ k.result = call[c].result
      /\ k.cancelled = call[c].cancelled
  BY <1>1, LabelsTyped DEF CallType
<1>4. /\ call[c].kind = "Start" /\ srv.host = Nil /\ srv.orch = Nil
      /\ \A i \in ContainerId : ctr[i].status = "none"
  BY <1>1 DEF Starting, HomeInv, StartLabels
<1>5. /\ srv'.host = c /\ srv'.orch = srv.orch /\ c # Nil
      /\ srv'.docker = (Services[p] \cap NeedsDocker[p] # {})
  BY <1>1, <1>2, NamesAssumption DEF TypeOK, ServerType, Cfg
<1> HIDE DEF k
<1>6. call'[c] = k /\ call' \in [Call -> CallType] /\ \A d \in Call \ {c} : call'[d] = call[d]
  BY <1>1, <1>2, <1>3, CallMoves
<1>7. Waits(c)' /\ Starting(c)' /\ Stopping(c)' /\ call'[c].pc \notin CleanupLabels
  BY <1>1, <1>3, <1>4, <1>6 DEF Waits, Starting, Stopping, Loop, StopLabels, CleanupLabels
<1>8. HomeInv(p)'
  BY <1>2, <1>4, <1>5 DEF HomeInv
<1>9. \A s \in Service : Settled(s)'
  BY <1>2, <1>4 DEF Settled
<1>10. SeqKept(p, c)
  BY <1>6, <1>7, <1>8, <1>9 DEF SeqKept
<1> QED
  BY <1>1, <1>10, SeqFrame, OthersRest DEF Busy

\* Nothing fails, so only a cycle makes a Start return early, and then nothing ran.
LEMMA FailSeq ==
  ASSUME NEW p, NEW c \in Call, Serves(p, c), ConnectFails(c) \/ SetupFails(c) \/ NetworkFails(c)
  PROVE  SequentialInv(p)'
<1> DEFINE k == [call[c] EXCEPT !.pc = "done", !.result = Return(c, "error")]
<1>1. /\ TypeOK /\ call[c] \in CallType /\ Waits(c) /\ Starting(c) /\ HomeInv(p)
      /\ \A r : Reachable(c, r)
  BY SeqFacts
<1>2. ~Faults
  BY DEF Serves, OneAtATime
<1>3. NetworkFails(c) /\ Cyclic(call[c].proj)
  BY <1>1, <1>2 DEF ConnectFails, SetupFails, NetworkFails
<1>4. Becomes(c, k) /\ UNCHANGED <<srv, orc, ctr>> /\ call[c].pc = "network" /\ call[c].proj = p
  BY <1>3, SeqFacts DEF NetworkFails
<1>5. /\ k \in CallType /\ k.pc = "done" /\ k.kind = call[c].kind /\ k.result = "error"
      /\ k.cancelled = call[c].cancelled
  BY <1>1, <1>4, LabelsTyped DEF CallType, Return, Waits
<1> HIDE DEF k
<1>6. call'[c] = k /\ call' \in [Call -> CallType] /\ \A d \in Call \ {c} : call'[d] = call[d]
  BY <1>1, <1>4, <1>5, CallMoves
<1>7. Waits(c)' /\ Starting(c)' /\ Stopping(c)' /\ call'[c].pc \notin CleanupLabels
  BY <1>1, <1>4, <1>5, <1>6 DEF Waits, Starting, Stopping, Loop, StartLabels, StopLabels, CleanupLabels
<1>8. \A s \in Service : Settled(s)'
  BY <1>1, <1>3, <1>4 DEF HomeInv, Settled
<1>9. SeqKept(p, c)
  BY <1>1, <1>4, <1>6, <1>7, <1>8, SameHome DEF SeqKept
<1> QED
  BY <1>4, <1>9, SeqFrame, OthersRest DEF Busy

\* A Start's own orchestrator is not the published one before it is set up.
LEMMA ReadSeq ==
  ASSUME NEW p, NEW c \in Call, Serves(p, c), ReadDockerRuntime(c) PROVE SequentialInv(p)'
<1> DEFINE k == [call[c] EXCEPT !.pc = "setup"]
           o == [NoOrch EXCEPT !.docker = srv.docker]
<1>1. /\ TypeOK /\ call[c] \in CallType /\ Waits(c) /\ Starting(c) /\ HomeInv(p) /\ CallInv(c)
      /\ call[c].pc = "readrt"
  BY SeqFacts DEF ReadDockerRuntime
<1>2. Becomes(c, k) /\ UNCHANGED <<srv, ctr>> /\ orc' = [orc EXCEPT ![c] = o]
  BY DEF ReadDockerRuntime
<1>3. /\ k \in CallType /\ k.pc = "setup" /\ k.kind = call[c].kind /\ k.result = call[c].result
      /\ k.cancelled = call[c].cancelled
  BY <1>1, LabelsTyped DEF CallType
<1>4. o.docker = srv.docker /\ call[c].kind = "Start"
  BY <1>1 DEF NoOrch, Starting, StartLabels
<1> HIDE DEF k, o
<1>5. call'[c] = k /\ call' \in [Call -> CallType] /\ \A d \in Call \ {c} : call'[d] = call[d]
  BY <1>1, <1>2, <1>3, CallMoves
<1>6. orc'[c] = o /\ \A d \in Call \ {c} : orc'[d] = orc[d]
  BY <1>1, <1>2 DEF TypeOK
<1>7. Waits(c)' /\ Starting(c)' /\ Stopping(c)' /\ call'[c].pc \notin CleanupLabels
  BY <1>1, <1>2, <1>3, <1>4, <1>5, <1>6 DEF Waits, Starting, Stopping, Loop, StopLabels, CleanupLabels
<1>8. srv.orch # c
  BY <1>1, NamesAssumption DEF CallInv, RuntimeInv, Fresh, Serves, IInv
<1>9. \A s \in Service : Settled(s)
  BY <1>1, RestSettled, OthersRest DEF Busy, Loop
<1>10. \A s \in Service : Settled(s)'
  <2>1. srv.orch = Nil => \A i \in ContainerId : i[1] # srv.orch
    BY NamesAssumption DEF ContainerId
  <2>2. srv.orch # Nil => orc'[srv.orch] = orc[srv.orch]
    BY <1>1, <1>6, <1>8 DEF TypeOK, ServerType
  <2> QED
    BY <1>2, <1>9, <2>1, <2>2 DEF Settled
<1>11. HomeInv(p)'
  BY <1>1, <1>2 DEF HomeInv, Home
<1>12. SeqKept(p, c)
  BY <1>5, <1>7, <1>10, <1>11 DEF SeqKept
<1> QED
  BY <1>1, <1>12, SeqFrame, OthersRest DEF Busy

\* The new orchestrator is published; its Start takes the services over.
LEMMA SetupSeq ==
  ASSUME NEW p, NEW c \in Call, Serves(p, c), SetupOrchestrator(c) PROVE SequentialInv(p)'
<1> DEFINE k == [call[c] EXCEPT !.pc = "network"]
<1>1. /\ TypeOK /\ call[c] \in CallType /\ Waits(c) /\ Starting(c) /\ HomeInv(p) /\ CallInv(c)
      /\ call[c].pc = "setup" /\ orc[c] \in OrchType
  BY SeqFacts DEF SetupOrchestrator
<1>2. /\ Becomes(c, k) /\ UNCHANGED ctr /\ orc' = [orc EXCEPT ![c].host = srv.host]
      /\ srv' = [srv EXCEPT !.orch = c]
  BY DEF SetupOrchestrator
<1>3. /\ k \in CallType /\ k.pc = "network" /\ k.kind = call[c].kind /\ k.result = call[c].result
      /\ k.cancelled = call[c].cancelled
  BY <1>1, LabelsTyped DEF CallType
<1>4. /\ call[c].kind = "Start" /\ srv.host # Nil /\ orc[c].docker = srv.docker
  BY <1>1 DEF Starting, StartLabels, CallInv, RuntimeInv, Loop
<1>5. srv'.host = srv.host /\ srv'.docker = srv.docker /\ srv'.orch = c
  BY <1>1, <1>2 DEF TypeOK, ServerType
<1>6. orc'[c].host = srv.host /\ orc'[c].docker = orc[c].docker
  BY <1>1, <1>2 DEF TypeOK, OrchType
<1> HIDE DEF k
<1>7. call'[c] = k /\ call' \in [Call -> CallType] /\ \A d \in Call \ {c} : call'[d] = call[d]
  BY <1>1, <1>2, <1>3, CallMoves
<1>8. Waits(c)' /\ Starting(c)' /\ Stopping(c)' /\ call'[c].pc \notin CleanupLabels
  BY <1>1, <1>3, <1>4, <1>5, <1>6, <1>7
     DEF Waits, Starting, Stopping, Loop, StopLabels, CleanupLabels
<1>9. HomeInv(p)'
  BY <1>1, <1>2, <1>4, <1>5 DEF HomeInv, Home
<1>10. SeqKept(p, c)
  BY <1>3, <1>7, <1>8, <1>9 DEF SeqKept
<1> QED
  BY <1>1, <1>10, SeqFrame, OthersRest DEF Busy

\* Steps of the loop that touch nothing but what the call knows.
LEMMA NetworkSeq ==
  ASSUME NEW p, NEW c \in Call, Serves(p, c), EnsureNetwork(c) PROVE SequentialInv(p)'
<1> DEFINE k == [call[c] EXCEPT !.pc = "pick", !.todo = Cfg(c)]
<1>1. /\ TypeOK /\ call[c] \in CallType /\ Waits(c) /\ Starting(c) /\ HomeInv(p)
      /\ call[c].pc = "network" /\ call[c].proj = p /\ Services[p] \subseteq Service
  BY SeqFacts DEF EnsureNetwork
<1>2. Becomes(c, k) /\ UNCHANGED <<srv, orc, ctr>> /\ ~Cyclic(p)
  BY <1>1 DEF EnsureNetwork
<1>3. /\ k \in CallType /\ k.pc = "pick" /\ k.kind = call[c].kind /\ k.result = call[c].result
      /\ k.cancelled = call[c].cancelled /\ k.proj = p /\ k.todo = Services[p]
  BY <1>1 DEF CallType, Cfg, Labels, StartLabels
<1>4. /\ call[c].kind = "Start" /\ orc[c].docker = srv.docker /\ orc[c].host = srv.host
      /\ srv.orch = c
  BY <1>1 DEF Starting, StartLabels
<1> HIDE DEF k
<1>5. call'[c] = k /\ call' \in [Call -> CallType] /\ \A d \in Call \ {c} : call'[d] = call[d]
  BY <1>1, <1>2, <1>3, CallMoves
<1>6. ~Cyclic(p)'
  BY <1>2 DEF Cyclic, Deps
<1>7. Waits(c)' /\ Stopping(c)' /\ call'[c].pc \notin CleanupLabels
  BY <1>1, <1>3, <1>5 DEF Waits, Stopping, StopLabels, CleanupLabels
<1>8. Starting(c)'
  BY <1>2, <1>3, <1>4, <1>5 DEF Starting, Cfg, Loop
<1>9. SeqKept(p, c)
  BY <1>1, <1>2, <1>3, <1>5, <1>7, <1>8, SameHome DEF SeqKept, Loop
<1> QED
  BY <1>1, <1>9, SeqFrame, OthersRest DEF Busy

\* What the loop of a Start knows of runtimes and services.
LEMMA LoopFacts ==
  ASSUME NEW p, NEW c \in Call, Serves(p, c), call[c].pc \in Loop
  PROVE  /\ call[c].kind = "Start" /\ call[c].proj = p /\ Cfg(c) = Services[p] /\ ~Cyclic(p)
         /\ call[c].todo \subseteq Services[p]
         /\ srv.orch = c /\ srv.host # Nil
         /\ \A s \in Services[p] : RuntimeFor(c, s) = Home(p, s) /\ Home(p, s) # Nil
         /\ \A s \in Services[p] \ call[c].todo : Up(c, s)
         /\ call[c].pc \in AtService => call[c].cur \in call[c].todo
<1>1. /\ CallInv(c) /\ Starting(c) /\ HomeInv(p) /\ call[c].proj = p
  BY SeqFacts DEF Loop
<1>2. /\ call[c].kind = "Start" /\ orc[c].docker = srv.docker /\ orc[c].host = srv.host
      /\ srv.orch = c /\ ~Cyclic(p) /\ \A s \in Cfg(c) \ call[c].todo : Up(c, s)
  BY <1>1 DEF Starting, StartLabels, Loop
<1>3. srv.host # Nil /\ call[c].todo \subseteq Cfg(c) /\ Cfg(c) = Services[p]
  BY <1>1, <1>2 DEF CallInv, RuntimeInv, LoopInv, Cfg
<1>4. \A s \in Services[p] : RuntimeFor(c, s) = Home(p, s) /\ Home(p, s) # Nil
  BY <1>1, <1>2, <1>3, NamesAssumption DEF HomeInv, Home, RuntimeFor
<1>5. call[c].pc \in AtService => call[c].cur \in call[c].todo
  BY <1>1 DEF CallInv, LoopInv, StartReady
<1> QED
  BY <1>1, <1>2, <1>3, <1>4, <1>5

\* What a step within the loop has to show.
LEMMA LoopFrame ==
  ASSUME NEW p, NEW c \in Call, Serves(p, c), call[c].pc \in Loop,
         NEW k \in CallType, Becomes(c, k), k.pc \in Loop,
         k.kind = call[c].kind, k.result = call[c].result, k.cancelled = call[c].cancelled,
         Starting(c)', HomeInv(p)'
  PROVE  SequentialInv(p)'
<1>1. TypeOK /\ Waits(c) /\ Busy(c)
  BY SeqFacts DEF Busy, Loop
<1>2. call'[c] = k /\ call' \in [Call -> CallType] /\ \A d \in Call \ {c} : call'[d] = call[d]
  BY <1>1, CallMoves
<1>3. Waits(c)' /\ Stopping(c)' /\ call'[c].pc \notin CleanupLabels
  BY <1>1, <1>2 DEF Waits, Stopping, StopLabels, CleanupLabels, Loop
<1>4. SeqKept(p, c)
  BY <1>2, <1>3 DEF SeqKept
<1> QED
  BY <1>1, <1>4, SeqFrame, OthersRest

\* The services that are done stay up when only the current one is touched.
LEMMA UpKept ==
  ASSUME NEW c \in Call, NEW s \in Service, Up(c, s),
         \A i \in ContainerId : i[2] = s => ctr'[i] = ctr[i],
         orc'[c].rt[s] = orc[c].rt[s]
  PROVE  Up(c, s)'
<1>1. <<c, s>> \in ContainerId
  BY DEF ContainerId
<1> QED
  BY <1>1 DEF Up, Only

\* The next service; there is a runtime for it.
LEMMA PickSeq ==
  ASSUME NEW p, NEW c \in Call, Serves(p, c), PickService(c) PROVE SequentialInv(p)'
<1>1. /\ TypeOK /\ call[c] \in CallType /\ Starting(c) /\ HomeInv(p) /\ call[c].pc = "pick"
      /\ UNCHANGED <<srv, orc, ctr>>
  BY SeqFacts DEF PickService
<1>2. PICK s \in StartReady(c) :
        IF RuntimeFor(c, s) = Nil
        THEN Becomes(c, [call[c] EXCEPT !.pc = "cleanup"])
        ELSE Becomes(c, [call[c] EXCEPT !.pc = "list", !.cur = s])
  BY DEF PickService
<1>3. call[c].pc \in Loop
  BY <1>1 DEF Loop
<1>4. s \in call[c].todo /\ RuntimeFor(c, s) # Nil /\ s \in Service
  BY <1>1, <1>3, LoopFacts DEF StartReady, CallType
<1> DEFINE k == [call[c] EXCEPT !.pc = "list", !.cur = s]
<1>5. Becomes(c, k)
  BY <1>2, <1>4
<1>6. /\ k \in CallType /\ k.pc = "list" /\ k.kind = call[c].kind /\ k.result = call[c].result
      /\ k.cancelled = call[c].cancelled /\ k.proj = call[c].proj /\ k.todo = call[c].todo
  BY <1>1, <1>4 DEF CallType, Labels, StartLabels
<1> HIDE DEF k
<1>7. call'[c] = k
  BY <1>1, <1>5, <1>6, CallMoves
<1>8. ~Cyclic(p)' /\ \A t \in Cfg(c) \ call[c].todo : Up(c, t)'
  BY <1>1, <1>3, LoopFacts, SameHome DEF Cyclic, Deps
<1>9. Starting(c)'
  BY <1>1, <1>3, <1>6, <1>7, <1>8, LoopFacts DEF Starting, Cfg, Loop, StartLabels
<1>10. HomeInv(p)'
  BY <1>1, SameHome
<1> QED
  BY <1>3, <1>5, <1>6, <1>9, <1>10, LoopFrame DEF Loop

\* The list has every container of the service, as the runtime of a service never changes.
LEMMA ListSeq ==
  ASSUME NEW p, NEW c \in Call, Serves(p, c), ListExisting(c) PROVE SequentialInv(p)'
<1> DEFINE r == RuntimeFor(c, call[c].cur)
           k == [call[c] EXCEPT !.pc = "replace", !.found = Listed(r, call[c].cur)]
<1>1. /\ TypeOK /\ call[c] \in CallType /\ Starting(c) /\ HomeInv(p) /\ call[c].pc = "list"
      /\ UNCHANGED <<srv, orc, ctr>> /\ Becomes(c, k) /\ \A t : Reachable(c, t)
  BY SeqFacts DEF ListExisting
<1>2. call[c].pc \in Loop /\ call[c].pc \in AtService
  BY <1>1 DEF Loop, AtService
<1>3. call[c].cur \in Services[p] /\ r = Home(p, call[c].cur)
  BY <1>2, LoopFacts
<1>4. /\ k \in CallType /\ k.pc = "replace" /\ k.kind = call[c].kind /\ k.result = call[c].result
      /\ k.cancelled = call[c].cancelled /\ k.proj = call[c].proj /\ k.todo = call[c].todo
      /\ k.cur = call[c].cur /\ k.found = Listed(r, call[c].cur)
  BY <1>1 DEF CallType, Labels, StartLabels, Listed
<1>5. /\ \A i \in k.found : i[2] = k.cur
      /\ \A i \in ContainerId : i[2] = k.cur /\ ctr'[i].status \in Present => i \in k.found
  BY <1>1, <1>3, <1>4 DEF Listed, HomeInv, Present
<1> HIDE DEF k, r
<1>6. call'[c] = k
  BY <1>1, <1>4, CallMoves
<1>7. ~Cyclic(p)' /\ \A t \in Cfg(c) \ call[c].todo : Up(c, t)'
  BY <1>1, <1>2, LoopFacts, SameHome DEF Cyclic, Deps
<1>8. Starting(c)'
  BY <1>1, <1>2, <1>4, <1>5, <1>6, <1>7, LoopFacts DEF Starting, Cfg, Loop, StartLabels
<1>9. HomeInv(p)'
  BY <1>1, SameHome
<1> QED
  BY <1>1, <1>2, <1>4, <1>8, <1>9, LoopFrame DEF Loop

\* A container that is removed is gone from the list and from the runtime.
LEMMA RemoveSeq ==
  ASSUME NEW p, NEW c \in Call, Serves(p, c), RemoveExisting(c) PROVE SequentialInv(p)'
<1>1. /\ TypeOK /\ call[c] \in CallType /\ Starting(c) /\ HomeInv(p) /\ CallInv(c)
      /\ call[c].pc = "replace" /\ UNCHANGED <<srv, orc>> /\ \A t : Reachable(c, t)
  BY SeqFacts DEF RemoveExisting
<1>2. PICK i \in call[c].found :
        Remove({i}) /\ Becomes(c, [call[c] EXCEPT !.found = @ \ {i}])
  BY <1>1 DEF RemoveExisting
<1> DEFINE k == [call[c] EXCEPT !.found = @ \ {i}]
<1>3. call[c].pc \in Loop /\ call[c].pc \in AtService
  BY <1>1 DEF Loop, AtService
<1>4. i \in ContainerId /\ i[2] = call[c].cur /\ ctr[i].status # "none"
  BY <1>1 DEF CallType, Starting, CallInv, ContainerInv
<1>5. /\ k \in CallType /\ k.pc = "replace" /\ k.kind = call[c].kind /\ k.result = call[c].result
      /\ k.cancelled = call[c].cancelled /\ k.proj = call[c].proj /\ k.todo = call[c].todo
      /\ k.cur = call[c].cur /\ k.found = call[c].found \ {i} /\ Becomes(c, k)
  BY <1>1, <1>2 DEF CallType
<1> HIDE DEF k
<1>6. call'[c] = k
  BY <1>1, <1>5, CallMoves
<1>7. /\ \A j \in ContainerId \ {i} : ctr'[j] = ctr[j]
      /\ ctr'[i].rt = ctr[i].rt /\ ctr'[i].status = "removed"
  <2>1. ctr[i].status \in Present \cup {"removed"}
    BY <1>1, <1>4 DEF HomeInv, TypeOK, ContainerType
  <2> QED
    BY <1>1, <1>2, <1>4, <2>1, RemovedOne
<1>8. \A t \in Services[p] \ call[c].todo : Up(c, t)'
  <2>1. SUFFICES ASSUME NEW t \in Services[p] \ call[c].todo PROVE Up(c, t)'
    OBVIOUS
  <2>2. Up(c, t) /\ t # call[c].cur /\ t \in Service
    BY <1>3, LoopFacts, SeqFacts
  <2>3. \A j \in ContainerId : j[2] = t => ctr'[j] = ctr[j]
    BY <1>4, <1>7, <2>2
  <2> QED
    BY <1>1, <2>2, <2>3, UpKept
<1>9. ~Cyclic(p)'
  BY <1>3, LoopFacts DEF Cyclic, Deps
<1>10. /\ \A j \in k.found : j[2] = k.cur
       /\ \A j \in ContainerId : j[2] = k.cur /\ ctr'[j].status \in Present => j \in k.found
  BY <1>1, <1>5, <1>7 DEF Starting, Present
<1>11. Starting(c)'
  BY <1>1, <1>3, <1>5, <1>6, <1>8, <1>9, <1>10, LoopFacts DEF Starting, Cfg, Loop, StartLabels
<1>12. HomeInv(p)'
  BY <1>1, <1>4, <1>7, <1>9 DEF HomeInv, Home
<1> QED
  BY <1>1, <1>2, <1>3, <1>5, <1>11, <1>12, LoopFrame DEF Loop

\* The list was empty when the last container of the name was removed.
LEMMA CreateSeq ==
  ASSUME NEW p, NEW c \in Call, Serves(p, c), CreateContainer(c) PROVE SequentialInv(p)'
<1> DEFINE r == RuntimeFor(c, call[c].cur)
           i == <<c, call[c].cur>>
           x == [rt |-> r, status |-> "created"]
           k == [call[c] EXCEPT !.pc = "start"]
<1>1. /\ TypeOK /\ call[c] \in CallType /\ Starting(c) /\ HomeInv(p)
      /\ call[c].pc = "replace" /\ call[c].found = {} /\ UNCHANGED <<srv, orc>>
      /\ ctr' = [ctr EXCEPT ![i] = x] /\ Becomes(c, k)
  BY SeqFacts DEF CreateContainer
<1>2. call[c].pc \in Loop /\ call[c].pc \in AtService
  BY <1>1 DEF Loop, AtService
<1>3. /\ call[c].cur \in Services[p] /\ call[c].cur \in Service /\ r = Home(p, call[c].cur)
      /\ i \in ContainerId /\ i[2] = call[c].cur /\ i[1] = c
  BY <1>2, LoopFacts, SeqFacts DEF ContainerId
<1>4. /\ k \in CallType /\ k.pc = "start" /\ k.kind = call[c].kind /\ k.result = call[c].result
      /\ k.cancelled = call[c].cancelled /\ k.proj = call[c].proj /\ k.todo = call[c].todo
      /\ k.cur = call[c].cur
  BY <1>1, LabelsTyped DEF CallType
<1>5. /\ \A j \in ContainerId \ {i} : ctr'[j] = ctr[j]
      /\ ctr'[i].rt = Home(p, i[2]) /\ ctr'[i].status = "created"
  BY <1>1, <1>3 DEF TypeOK
<1> HIDE DEF k, r, x, i
<1>6. call'[c] = k
  BY <1>1, <1>4, CallMoves
<1>7. \A t \in Services[p] \ call[c].todo : Up(c, t)'
  <2>1. SUFFICES ASSUME NEW t \in Services[p] \ call[c].todo PROVE Up(c, t)'
    OBVIOUS
  <2>2. Up(c, t) /\ t # call[c].cur /\ t \in Service
    BY <1>2, LoopFacts, SeqFacts
  <2>3. \A j \in ContainerId : j[2] = t => ctr'[j] = ctr[j]
    BY <1>3, <1>5, <2>2
  <2> QED
    BY <1>1, <2>2, <2>3, UpKept
<1>8. ~Cyclic(p)'
  BY <1>2, LoopFacts DEF Cyclic, Deps
<1>9. \A j \in ContainerId : j[2] = k.cur /\ ctr'[j].status \in Present => j[1] = c
  BY <1>1, <1>3, <1>4, <1>5 DEF Starting, Only
<1>10. ctr'[<<c, k.cur>>].status = "created"
  BY <1>4, <1>5 DEF i
<1>11. Starting(c)'
  BY <1>1, <1>2, <1>4, <1>6, <1>7, <1>8, <1>9, <1>10, LoopFacts
     DEF Starting, Only, Cfg, Loop, StartLabels
<1>12. HomeInv(p)'
  <2>1. srv.host # Nil
    BY <1>2, LoopFacts
  <2> QED
    BY <1>1, <1>3, <1>5, <1>8, <2>1 DEF HomeInv, Home
<1> QED
  BY <1>1, <1>2, <1>4, <1>11, <1>12, LoopFrame DEF Loop

\* The process is found.
LEMMA LookupProcessSeq ==
  ASSUME NEW p, NEW c \in Call, Serves(p, c), LookupProcess(c) PROVE SequentialInv(p)'
<1> DEFINE k == [call[c] EXCEPT !.pc = "fork"]
<1>1. /\ TypeOK /\ call[c] \in CallType /\ Starting(c) /\ HomeInv(p)
      /\ call[c].pc = "start" /\ UNCHANGED <<srv, orc, ctr>> /\ Becomes(c, k)
  BY SeqFacts DEF LookupProcess
<1>2. call[c].pc \in Loop /\ call[c].pc \in AtService
  BY <1>1 DEF Loop, AtService
<1>3. /\ k \in CallType /\ k.pc = "fork" /\ k.kind = call[c].kind /\ k.result = call[c].result
      /\ k.cancelled = call[c].cancelled /\ k.proj = call[c].proj /\ k.todo = call[c].todo
      /\ k.cur = call[c].cur
  BY <1>1, LabelsTyped DEF CallType
<1> HIDE DEF k
<1>4. call'[c] = k
  BY <1>1, <1>3, CallMoves
<1>5. Starting(c)'
  BY <1>1, <1>2, <1>3, <1>4, LoopFacts DEF Starting, Up, Only, Cyclic, Deps, Cfg, Loop, StartLabels
<1>6. HomeInv(p)'
  BY <1>1 DEF HomeInv, Home, Cyclic, Deps
<1> QED
  BY <1>1, <1>2, <1>3, <1>5, <1>6, LoopFrame DEF Loop

\* The container runs.
LEMMA StartSeq ==
  ASSUME NEW p, NEW c \in Call, Serves(p, c), StartContainer(c) \/ ForkProcess(c)
  PROVE  SequentialInv(p)'
<1> DEFINE i == <<c, call[c].cur>>
           k == [call[c] EXCEPT !.pc = "register"]
<1>1. /\ TypeOK /\ call[c] \in CallType /\ Starting(c) /\ HomeInv(p)
      /\ call[c].pc \in {"start", "fork"} /\ UNCHANGED <<srv, orc>>
      /\ ctr' = [ctr EXCEPT ![i].status = "running"] /\ ctr[i].status = "created" /\ Becomes(c, k)
  BY SeqFacts DEF StartContainer, ForkProcess, Starting
<1>2. call[c].pc \in Loop /\ call[c].pc \in AtService
  BY <1>1 DEF Loop, AtService
<1>3. /\ call[c].cur \in Service /\ i \in ContainerId /\ i[2] = call[c].cur /\ i[1] = c
  BY <1>2, LoopFacts, SeqFacts DEF ContainerId
<1>4. /\ k \in CallType /\ k.pc = "register" /\ k.kind = call[c].kind /\ k.result = call[c].result
      /\ k.cancelled = call[c].cancelled /\ k.proj = call[c].proj /\ k.todo = call[c].todo
      /\ k.cur = call[c].cur
  BY <1>1, LabelsTyped DEF CallType
<1>5. /\ \A j \in ContainerId \ {i} : ctr'[j] = ctr[j]
      /\ ctr'[i].rt = ctr[i].rt /\ ctr'[i].status = "running"
  BY <1>1, <1>3 DEF TypeOK, ContainerType
<1> HIDE DEF k, i
<1>6. call'[c] = k
  BY <1>1, <1>4, CallMoves
<1>7. \A t \in Services[p] \ call[c].todo : Up(c, t)'
  <2>1. SUFFICES ASSUME NEW t \in Services[p] \ call[c].todo PROVE Up(c, t)'
    OBVIOUS
  <2>2. Up(c, t) /\ t # call[c].cur /\ t \in Service
    BY <1>2, LoopFacts, SeqFacts
  <2>3. \A j \in ContainerId : j[2] = t => ctr'[j] = ctr[j]
    BY <1>3, <1>5, <2>2
  <2> QED
    BY <1>1, <2>2, <2>3, UpKept
<1>8. ~Cyclic(p)'
  BY <1>2, LoopFacts DEF Cyclic, Deps
<1>9. \A j \in ContainerId : j[2] = k.cur /\ ctr'[j].status \in Present => j[1] = c
  BY <1>1, <1>3, <1>4, <1>5 DEF Starting, Only
<1>10. ctr'[<<c, k.cur>>].status = "running"
  BY <1>4, <1>5 DEF i
<1>11. Starting(c)'
  BY <1>1, <1>2, <1>4, <1>6, <1>7, <1>8, <1>9, <1>10, LoopFacts
     DEF Starting, Only, Cfg, Loop, StartLabels
<1>12. HomeInv(p)'
  BY <1>1, <1>3, <1>5, <1>8 DEF HomeInv, Home
<1> QED
  BY <1>1, <1>2, <1>4, <1>11, <1>12, LoopFrame DEF Loop

\* The entry in containerRT names a runtime.
LEMMA RegisterSeq ==
  ASSUME NEW p, NEW c \in Call, Serves(p, c), Register(c) PROVE SequentialInv(p)'
<1> DEFINE s == call[c].cur
           r == RuntimeFor(c, s)
           k == [call[c] EXCEPT !.pc = "collect", !.ids = @ \cup {<<c, s>>}]
<1>1. /\ TypeOK /\ call[c] \in CallType /\ Starting(c) /\ HomeInv(p) /\ orc[c] \in OrchType
      /\ call[c].pc = "register" /\ UNCHANGED <<srv, ctr>>
      /\ orc' = [orc EXCEPT ![c].rt[s] = r] /\ Becomes(c, k)
  BY SeqFacts DEF Register
<1>2. call[c].pc \in Loop /\ call[c].pc \in AtService
  BY <1>1 DEF Loop, AtService
<1>3. s \in Service /\ <<c, s>> \in ContainerId /\ r # Nil
  BY <1>2, LoopFacts, SeqFacts DEF ContainerId
<1>4. /\ k \in CallType /\ k.pc = "collect" /\ k.kind = call[c].kind /\ k.result = call[c].result
      /\ k.cancelled = call[c].cancelled /\ k.proj = call[c].proj /\ k.todo = call[c].todo
      /\ k.cur = s
  BY <1>1, <1>3 DEF CallType, Labels, StartLabels
<1>5. /\ orc'[c].rt[s] = r /\ \A t \in Service \ {s} : orc'[c].rt[t] = orc[c].rt[t]
      /\ orc'[c].host = orc[c].host /\ orc'[c].docker = orc[c].docker
  BY <1>1, <1>3 DEF TypeOK, OrchType
<1> HIDE DEF k, r
<1>6. call'[c] = k
  BY <1>1, <1>4, CallMoves
<1>7. \A t \in Services[p] \ call[c].todo : Up(c, t)'
  <2>1. SUFFICES ASSUME NEW t \in Services[p] \ call[c].todo PROVE Up(c, t)'
    OBVIOUS
  <2>2. Up(c, t) /\ t # s /\ t \in Service
    BY <1>2, LoopFacts, SeqFacts
  <2> QED
    BY <1>1, <1>5, <2>2, UpKept
<1>8. ~Cyclic(p)'
  BY <1>2, LoopFacts DEF Cyclic, Deps
<1>9. \A j \in ContainerId : j[2] = k.cur /\ ctr'[j].status \in Present => j[1] = c
  BY <1>1, <1>4 DEF Starting, Only
<1>10. ~Exits => ctr'[<<c, k.cur>>].status = "running"
  BY <1>1, <1>4 DEF Starting
<1>11. Starting(c)'
  BY <1>1, <1>2, <1>3, <1>4, <1>5, <1>6, <1>7, <1>8, <1>9, <1>10, LoopFacts
     DEF Starting, Only, Cfg, Loop, StartLabels
<1>12. HomeInv(p)'
  BY <1>1, <1>8 DEF HomeInv, Home
<1> QED
  BY <1>1, <1>2, <1>4, <1>11, <1>12, LoopFrame DEF Loop

\* The service is up: the last step of its turn.
LEMMA CollectSeq ==
  ASSUME NEW p, NEW c \in Call, Serves(p, c), StartCollector(c) PROVE SequentialInv(p)'
<1> DEFINE s == call[c].cur
           k == [call[c] EXCEPT !.pc = "pick", !.cur = Nil, !.todo = @ \ {s}]
<1>1. /\ TypeOK /\ call[c] \in CallType /\ Starting(c) /\ HomeInv(p) /\ orc[c] \in OrchType
      /\ call[c].pc = "collect" /\ UNCHANGED <<srv, ctr>>
      /\ orc' = [orc EXCEPT ![c].collectors = @ \cup {s}] /\ Becomes(c, k)
  BY SeqFacts DEF StartCollector
<1>2. call[c].pc \in Loop /\ call[c].pc \in AtService
  BY <1>1 DEF Loop, AtService
<1>3. s \in Service
  BY <1>2, LoopFacts, SeqFacts
<1>4. /\ k \in CallType /\ k.pc = "pick" /\ k.kind = call[c].kind /\ k.result = call[c].result
      /\ k.cancelled = call[c].cancelled /\ k.proj = call[c].proj /\ k.todo = call[c].todo \ {s}
  BY <1>1, <1>3 DEF CallType, Labels, StartLabels
<1>5. orc'[c].rt = orc[c].rt /\ orc'[c].host = orc[c].host /\ orc'[c].docker = orc[c].docker
  BY <1>1, <1>3 DEF TypeOK, OrchType
<1> HIDE DEF k
<1>6. call'[c] = k
  BY <1>1, <1>4, CallMoves
<1>7. Up(c, s)
  BY <1>1 DEF Starting, Up
<1>8. \A t \in Services[p] \ k.todo : Up(c, t)'
  <2>1. SUFFICES ASSUME NEW t \in Services[p] \ k.todo PROVE Up(c, t)'
    BY <1>4, <1>6
  <2>2. Up(c, t) /\ t \in Service
    BY <1>2, <1>4, <1>7, LoopFacts, SeqFacts
  <2> QED
    BY <1>1, <1>5, <2>2, UpKept
<1>9. ~Cyclic(p)'
  BY <1>2, LoopFacts DEF Cyclic, Deps
<1>10. Starting(c)'
  BY <1>1, <1>2, <1>4, <1>5, <1>6, <1>8, <1>9, LoopFacts DEF Starting, Cfg, Loop, StartLabels
<1>11. HomeInv(p)'
  BY <1>1, <1>9 DEF HomeInv, Home
<1> QED
  BY <1>1, <1>2, <1>4, <1>10, <1>11, LoopFrame DEF Loop

\* The Start has an entry for each container that runs.
LEMMA StartDoneSeq ==
  ASSUME NEW p, NEW c \in Call, Serves(p, c), StartDone(c) PROVE SequentialInv(p)'
<1> DEFINE k == [call[c] EXCEPT !.pc = "done", !.ids = {}, !.result = Return(c, "ok")]
<1>1. /\ TypeOK /\ call[c] \in CallType /\ Waits(c) /\ Starting(c) /\ HomeInv(p)
      /\ call[c].pc = "pick" /\ call[c].todo = {} /\ Becomes(c, k) /\ UNCHANGED <<srv, orc, ctr>>
  BY SeqFacts DEF StartDone
<1>2. call[c].pc \in Loop
  BY <1>1 DEF Loop
<1>3. /\ k \in CallType /\ k.pc = "done" /\ k.kind = call[c].kind /\ k.result = "ok"
      /\ k.cancelled = call[c].cancelled
  BY <1>1, LabelsTyped DEF CallType, Return, Waits
<1> HIDE DEF k
<1>4. call'[c] = k /\ call' \in [Call -> CallType] /\ \A d \in Call \ {c} : call'[d] = call[d]
  BY <1>1, <1>3, CallMoves
<1>5. Waits(c)' /\ Starting(c)' /\ Stopping(c)' /\ call'[c].pc \notin CleanupLabels
  BY <1>1, <1>3, <1>4 DEF Waits, Starting, Stopping, Loop, StartLabels, StopLabels, CleanupLabels
<1>6. ASSUME NEW s \in Service PROVE Settled(s)'
  <2>1. SUFFICES ASSUME NEW i \in ContainerId, i[2] = s, ctr[i].status = "running"
                 PROVE  i[1] = srv.orch /\ orc[srv.orch].rt[s] # Nil
    BY <1>1 DEF Settled
  <2>2. s \in Services[p]
    BY <1>1, <2>1 DEF HomeInv
  <2>3. Up(c, s) /\ srv.orch = c
    BY <1>1, <1>2, <2>2, LoopFacts
  <2> QED
    BY <2>1, <2>3 DEF Up, Only, Present
<1>7. HomeInv(p)'
  BY <1>1, SameHome
<1>8. SeqKept(p, c)
  BY <1>4, <1>5, <1>6, <1>7 DEF SeqKept
<1> QED
  BY <1>1, <1>8, SeqFrame, OthersRest DEF Busy

\* Without faults nothing in the loop fails, no call is cleaned up after, no client
\* leaves and the daemon lives.
LEMMA NothingFails ==
  ASSUME NEW p, NEW c \in Call, Serves(p, c)
  PROVE  /\ ~PrepareFails(c) /\ ~CreateFails(c) /\ ~StartFails(c) /\ ~CleanupStep(c)
         /\ ~Disconnect(c) /\ ~Crash /\ \A q : ~ResetCall(c, q)
<1>1. /\ TypeOK /\ Starting(c) /\ HomeInv(p) /\ \A r : Reachable(c, r)
      /\ call[c].pc \notin CleanupLabels
  BY SeqFacts
<1>2. ~Faults /\ ~Disconnects /\ MaxCrashes = 0 /\ Kinds \subseteq {"Start", "Stop"}
  BY DEF Serves, OneAtATime
<1>3. ~PrepareFails(c)
  BY <1>1, <1>2 DEF PrepareFails
<1>4. ~CreateFails(c)
  <2>1. SUFFICES ASSUME call[c].pc = "replace", call[c].found = {},
                        Listed(Docker, call[c].cur) # {}
                 PROVE  FALSE
    BY <1>1, <1>2 DEF CreateFails
  <2> QED
    BY <1>1, <2>1 DEF Listed, Starting
<1>5. ~StartFails(c)
  BY <1>1, <1>2 DEF StartFails, Starting
<1>6. ~CleanupStep(c)
  BY <1>1 DEF CleanupStep, CleanupLookup, CleanupStop, CleanupRemove, CleanupDone, CleanupLabels
<1>7. ~Crash
  <2>1. crashes \in Nat /\ ~(crashes < MaxCrashes)
    BY <1>1, <1>2 DEF TypeOK
  <2> QED
    BY <2>1 DEF Crash
<1> QED
  BY <1>2, <1>3, <1>4, <1>5, <1>6, <1>7 DEF Disconnect, ResetCall, Issue

\* Containers only end; nothing else about them changes.
Ended(i) ==
  /\ \A j \in ContainerId :
       /\ ctr'[j].rt = ctr[j].rt
       /\ ctr'[j].status \in Present <=> ctr[j].status \in Present
       /\ ctr'[j].status = "none" <=> ctr[j].status = "none"
       /\ ctr'[j].status = "running" => ctr[j].status = "running"
       /\ ctr'[j].status = "lost" => ctr[j].status = "lost"
       /\ ctr[j].status = "created" => ctr'[j].status = "created"
  /\ ctr'[i].status # "running"

\* Stopping, or a service that ends.
LEMMA EndsOne ==
  ASSUME TypeOK, NEW i \in ContainerId, ctr[i].status = "running",
         NEW end \in Ends(ctr[i].rt), ctr' = [ctr EXCEPT ![i].status = end]
  PROVE  Ended(i)
<1>1. end \in {"exited", "killed"}
  BY DEF Ends
<1>2. /\ \A j \in ContainerId \ {i} : ctr'[j] = ctr[j]
      /\ ctr'[i].rt = ctr[i].rt /\ ctr'[i].status = end
  BY DEF TypeOK, ContainerType
<1> QED
  BY <1>1, <1>2 DEF Ended, Present

\* The end of a container unsettles nothing.
LEMMA EndedHome ==
  ASSUME NEW p, NEW i, Ended(i), UNCHANGED <<srv, orc>>
  PROVE  /\ HomeInv(p) => HomeInv(p)'
         /\ \A s \in Service : Settled(s) => Settled(s)'
<1>1. HomeInv(p) => HomeInv(p)'
  BY DEF HomeInv, Home, Ended, Cyclic, Deps
<1>2. \A s \in Service : Settled(s) => Settled(s)'
  BY DEF Settled, Ended
<1> QED
  BY <1>1, <1>2

\* What a step of a Stop has to show.
LEMMA StopFrame ==
  ASSUME NEW p, NEW c \in Call, Serves(p, c), call[c].pc \in StopLabels,
         NEW k \in CallType, Becomes(c, k), k.pc \in StopLabels \cup {"done"},
         k.kind = "Stop", k.cancelled = call[c].cancelled,
         k.result = IF k.pc = "done" THEN "ok" ELSE call[c].result,
         Stopping(c)', HomeInv(p)', \A s \in Service : Settled(s)'
  PROVE  SequentialInv(p)'
<1>1. TypeOK /\ Waits(c) /\ Busy(c) /\ call[c].pc # "done"
  BY SeqFacts DEF Busy, StopLabels
<1>2. call'[c] = k /\ call' \in [Call -> CallType] /\ \A d \in Call \ {c} : call'[d] = call[d]
  BY <1>1, CallMoves
<1>3. Waits(c)' /\ Starting(c)' /\ call'[c].pc \notin CleanupLabels
  BY <1>1, <1>2 DEF Waits, Starting, StopLabels, StartLabels, CleanupLabels, Loop
<1>4. SeqKept(p, c)
  BY <1>2, <1>3 DEF SeqKept
<1> QED
  BY <1>1, <1>4, SeqFrame, OthersRest

\* What a Stop at work knows.
LEMMA StopFacts ==
  ASSUME NEW p, NEW c \in Call, Serves(p, c), call[c].pc \in StopLabels
  PROVE  /\ call[c].kind = "Stop" /\ call[c].orch = srv.orch /\ srv.orch \in Call
         /\ call[c].proj = p
         /\ \A s \in Service : Settled(s)
         /\ \A i \in ContainerId : ctr[i].status = "running" => i[2] \in call[c].todo
<1>1. CallInv(c) /\ Stopping(c) /\ Busy(c) /\ call[c].pc \notin Loop \cup {"network"}
      /\ call[c].proj = p
  BY SeqFacts DEF Busy, StopLabels, Loop
<1>2. \A s \in Service : Settled(s)
  BY <1>1, RestSettled, OthersRest
<1> QED
  BY <1>1, <1>2 DEF Stopping, CallInv, IdentityInv

\* The runtime that Stop asks is that of what runs.
LEMMA LookupSeq ==
  ASSUME NEW p, NEW c \in Call, Serves(p, c), StopLookup(c) PROVE SequentialInv(p)'
<1>1. /\ TypeOK /\ call[c] \in CallType /\ HomeInv(p) /\ RoutingSound
      /\ call[c].pc = "stopnext" /\ UNCHANGED <<srv, orc, ctr>>
  BY SeqFacts DEF StopLookup, Serves, IInv
<1>2. PICK s \in StopReady(c) :
        Becomes(c, [call[c] EXCEPT !.pc = "stoplist", !.cur = s,
                                   !.target = LookupRuntime(call[c].orch, s)])
  BY DEF StopLookup
<1> DEFINE o == srv.orch
           r == LookupRuntime(o, s)
           k == [call[c] EXCEPT !.pc = "stoplist", !.cur = s, !.target = r]
<1>3. call[c].pc \in StopLabels
  BY <1>1 DEF StopLabels
<1>4. call[c].orch = o /\ o \in Call /\ call[c].kind = "Stop" /\ s \in Service /\ call[c].proj = p
  BY <1>1, <1>3, StopFacts DEF StopReady, CallType
<1>5. r \in Runtime \cup {Nil}
  BY <1>1, <1>4 DEF LookupRuntime, TypeOK, OrchType, Runtime
<1>6. /\ k \in CallType /\ k.pc = "stoplist" /\ k.kind = call[c].kind /\ k.result = call[c].result
      /\ k.cancelled = call[c].cancelled /\ k.proj = call[c].proj /\ k.todo = call[c].todo
      /\ k.orch = o /\ k.cur = s /\ k.target = r /\ Becomes(c, k)
  BY <1>1, <1>2, <1>4, <1>5 DEF CallType, Labels, StopLabels
<1>7. ASSUME NEW i \in ContainerId, i[2] = s, ctr[i].status = "running"
      PROVE  ctr[i].rt = r
  <2>1. i[1] = o /\ orc[o].rt[s] # Nil
    BY <1>3, <1>4, <1>7, StopFacts DEF Settled
  <2>2. i = <<o, s>>
    BY <1>7, <2>1 DEF ContainerId
  <2> QED
    BY <1>1, <1>4, <1>7, <2>1, <2>2 DEF RoutingSound, LookupRuntime, Present
<1> HIDE DEF k, r
<1>8. call'[c] = k
  BY <1>1, <1>6, CallMoves
<1>9. s \in StopReady(c)'
  BY <1>1, <1>2, <1>6, <1>8 DEF StopReady, Deps
<1>10. Stopping(c)'
  BY <1>1, <1>3, <1>4, <1>6, <1>7, <1>8, <1>9, StopFacts DEF Stopping
<1> QED
  BY <1>1, <1>3, <1>4, <1>6, <1>10, SameHome, StopFacts, StopFrame DEF StopLabels

\* The list has everything of the service that runs.
LEMMA StopListSeq ==
  ASSUME NEW p, NEW c \in Call, Serves(p, c), StopList(c) PROVE SequentialInv(p)'
<1> DEFINE f == Listed(call[c].target, call[c].cur)
           k == [call[c] EXCEPT !.pc = "stopone", !.found = f]
<1>1. /\ TypeOK /\ call[c] \in CallType /\ HomeInv(p) /\ Stopping(c) /\ Becomes(c, k)
      /\ call[c].pc = "stoplist" /\ UNCHANGED <<srv, orc, ctr>>
  BY SeqFacts DEF StopList
<1>2. call[c].pc \in StopLabels
  BY <1>1 DEF StopLabels
<1>3. /\ k \in CallType /\ k.pc = "stopone" /\ k.kind = call[c].kind /\ k.result = call[c].result
      /\ k.cancelled = call[c].cancelled /\ k.proj = call[c].proj /\ k.todo = call[c].todo
      /\ k.orch = call[c].orch /\ k.cur = call[c].cur /\ k.found = f
  BY <1>1 DEF CallType, Labels, StopLabels, Listed
<1>4. \A i \in ContainerId : i[2] = call[c].cur /\ ctr[i].status = "running" => i \in f
  BY <1>1 DEF Stopping, Listed, Present
<1> HIDE DEF k, f
<1>5. call'[c] = k
  BY <1>1, <1>3, CallMoves
<1>6. call'[c].cur \in StopReady(c)'
  BY <1>1, <1>3, <1>5 DEF Stopping, StopReady, Deps
<1>7. Stopping(c)'
  BY <1>1, <1>2, <1>3, <1>4, <1>5, <1>6, StopFacts DEF Stopping
<1> QED
  BY <1>1, <1>2, <1>3, <1>7, SameHome, StopFacts, StopFrame DEF StopLabels

\* One less of the list runs.
LEMMA StopOneSeq ==
  ASSUME NEW p, NEW c \in Call, Serves(p, c), StopOne(c) PROVE SequentialInv(p)'
<1>1. /\ TypeOK /\ call[c] \in CallType /\ HomeInv(p) /\ Stopping(c) /\ \A r : Reachable(c, r)
      /\ call[c].pc = "stopone" /\ UNCHANGED <<srv, orc>>
  BY SeqFacts DEF StopOne
<1>2. PICK i \in call[c].found :
        /\ IF ctr[i].status = "running" /\ Reachable(c, call[c].target)
           THEN \E end \in Ends(ctr[i].rt) : ctr' = [ctr EXCEPT ![i].status = end]
           ELSE UNCHANGED ctr
        /\ Becomes(c, [call[c] EXCEPT !.found = @ \ {i}])
  BY DEF StopOne
<1> DEFINE k == [call[c] EXCEPT !.found = @ \ {i}]
<1>3. call[c].pc \in StopLabels /\ i \in ContainerId
  BY <1>1 DEF StopLabels, CallType
<1>4. /\ k \in CallType /\ k.pc = "stopone" /\ k.kind = call[c].kind /\ k.result = call[c].result
      /\ k.cancelled = call[c].cancelled /\ k.proj = call[c].proj /\ k.todo = call[c].todo
      /\ k.orch = call[c].orch /\ k.cur = call[c].cur /\ k.found = call[c].found \ {i}
      /\ Becomes(c, k)
  BY <1>1, <1>2 DEF CallType
<1>5. Ended(i)
  <2>1. CASE ctr[i].status = "running"
    <3>1. PICK end \in Ends(ctr[i].rt) : ctr' = [ctr EXCEPT ![i].status = end]
      BY <1>1, <1>2, <2>1
    <3> QED
      BY <1>1, <1>3, <2>1, <3>1, EndsOne
  <2>2. CASE ctr[i].status # "running"
    BY <1>2, <2>2 DEF Ended
  <2> QED
    BY <2>1, <2>2
<1> HIDE DEF k
<1>6. call'[c] = k
  BY <1>1, <1>4, CallMoves
<1>7. call'[c].cur \in StopReady(c)'
  BY <1>1, <1>4, <1>6 DEF Stopping, StopReady, Deps
<1>8. \A j \in ContainerId : ctr'[j].status = "running" => j[2] \in k.todo /\ (j[2] = k.cur => j \in k.found)
  BY <1>1, <1>3, <1>4, <1>5 DEF Stopping, Ended, StopLabels
<1>9. Stopping(c)'
  BY <1>1, <1>3, <1>4, <1>6, <1>7, <1>8, StopFacts DEF Stopping
<1> QED
  BY <1>1, <1>3, <1>4, <1>5, <1>9, EndedHome, StopFacts, StopFrame DEF StopLabels

\* The list is empty: nothing of the service runs.
LEMMA ServiceStoppedSeq ==
  ASSUME NEW p, NEW c \in Call, Serves(p, c), ServiceStopped(c) PROVE SequentialInv(p)'
<1> DEFINE s == call[c].cur
           k == [call[c] EXCEPT !.pc = "stopnext", !.cur = Nil, !.target = Nil, !.todo = @ \ {s}]
<1>1. /\ TypeOK /\ call[c] \in CallType /\ HomeInv(p) /\ Stopping(c) /\ Becomes(c, k)
      /\ call[c].pc = "stopone" /\ call[c].found = {} /\ UNCHANGED <<srv, ctr>>
      /\ orc' = [orc EXCEPT ![call[c].orch].collectors = @ \ {s}]
  BY SeqFacts DEF ServiceStopped
<1>2. call[c].pc \in StopLabels
  BY <1>1 DEF StopLabels
<1>3. /\ k \in CallType /\ k.pc = "stopnext" /\ k.kind = call[c].kind /\ k.result = call[c].result
      /\ k.cancelled = call[c].cancelled /\ k.todo = call[c].todo \ {s}
      /\ k.orch = call[c].orch
  BY <1>1 DEF CallType, Labels, StopLabels
<1>4. \A o \in Call : orc'[o].rt = orc[o].rt
  BY <1>1, <1>2, StopFacts DEF TypeOK, OrchType
<1> HIDE DEF k
<1>5. call'[c] = k
  BY <1>1, <1>3, CallMoves
<1>6. \A i \in ContainerId : ctr'[i].status = "running" => i[2] \in k.todo
  BY <1>1, <1>2, <1>3 DEF Stopping
<1>7. Stopping(c)'
  BY <1>1, <1>2, <1>3, <1>5, <1>6, StopFacts DEF Stopping
<1>8. \A t \in Service : Settled(t)'
  BY <1>1, <1>2, <1>4, StopFacts DEF Settled
<1>9. HomeInv(p)'
  BY <1>1 DEF HomeInv, Home, Cyclic, Deps
<1> QED
  BY <1>1, <1>2, <1>3, <1>7, <1>8, <1>9, StopFacts, StopFrame DEF StopLabels

\* containerRT is emptied when nothing runs that it could be asked for.
LEMMA StopDoneSeq ==
  ASSUME NEW p, NEW c \in Call, Serves(p, c), StopDone(c) PROVE SequentialInv(p)'
<1> DEFINE k == [call[c] EXCEPT !.pc = "done", !.result = Return(c, "ok")]
<1>1. /\ TypeOK /\ call[c] \in CallType /\ HomeInv(p) /\ Stopping(c) /\ Waits(c)
      /\ call[c].pc = "stopnext" /\ call[c].todo = {} /\ UNCHANGED <<srv, ctr>>
  BY SeqFacts DEF StopDone
<1>2. call[c].pc \in StopLabels
  BY <1>1 DEF StopLabels
<1>3. call[c].kind = "Stop"
  BY <1>2, StopFacts
<1>4. Becomes(c, k)
  BY <1>3 DEF StopDone
<1>5. /\ k \in CallType /\ k.pc = "done" /\ k.kind = "Stop" /\ k.result = "ok"
      /\ k.cancelled = call[c].cancelled
  BY <1>1, <1>3, LabelsTyped DEF CallType, Return, Waits
<1> HIDE DEF k
<1>6. call'[c] = k
  BY <1>1, <1>4, <1>5, CallMoves
<1>7. Stopping(c)'
  BY <1>5, <1>6 DEF Stopping, StopLabels
<1>8. \A i \in ContainerId : ctr'[i].status # "running"
  BY <1>1, <1>2, StopFacts
<1>9. \A t \in Service : Settled(t)'
  BY <1>8 DEF Settled
<1>10. HomeInv(p)'
  BY <1>1 DEF HomeInv, Home, Cyclic, Deps
<1> QED
  BY <1>2, <1>4, <1>5, <1>7, <1>9, <1>10, StopFrame

\* A service is picked when its container is started.
LEMMA AtStartService ==
  ASSUME IInv, NEW c \in Call, call[c].pc \in {"start", "fork"} PROVE <<c, call[c].cur>> \in ContainerId
<1>1. call[c] \in CallType /\ call[c].cur \in call[c].todo
  BY CallTyped DEF IInv, CallInv, LoopInv, AtService, Loop, StartReady
<1> QED
  BY <1>1 DEF CallType, ContainerId

\* A service that ends by itself is still there to be replaced, and one less to stop.
LEMMA ExitSeq ==
  ASSUME NEW p, OneAtATime, IInv, SequentialInv(p), NEW i \in ContainerId, ServiceExit(i)
  PROVE  SequentialInv(p)'
<1>1. /\ Exits /\ ctr[i].status = "running" /\ UNCHANGED <<srv, orc, call>>
  BY DEF ServiceExit, SequentialInv, HomeInv
<1>2. Ended(i)
  <2>1. PICK end \in Ends(ctr[i].rt) : ctr' = [ctr EXCEPT ![i].status = end]
    BY <1>1 DEF ServiceExit
  <2> QED
    BY <1>1, <2>1, EndsOne DEF IInv
<1>3. \A c, s : Only(c, s) => Only(c, s)'
  BY <1>2 DEF Only, Ended
<1>4. \A c, s : Up(c, s) => Up(c, s)'
  BY <1>1, <1>3 DEF Up
<1>5. ASSUME NEW c \in Call PROVE Starting(c)'
  <2>1. Starting(c)
    BY DEF SequentialInv
  <2>2. call[c].pc = "replace" =>
          \A j \in ContainerId : j[2] = call[c].cur /\ ctr'[j].status \in Present => j \in call[c].found
    BY <1>2, <2>1 DEF Starting, Ended
  <2>3. call[c].pc \in {"start", "fork"} => ctr'[<<c, call[c].cur>>].status = "created"
    <3>1. SUFFICES ASSUME call[c].pc \in {"start", "fork"} PROVE ctr'[<<c, call[c].cur>>].status = "created"
      OBVIOUS
    <3>2. <<c, call[c].cur>> \in ContainerId /\ ctr[<<c, call[c].cur>>].status = "created"
      BY <2>1, <3>1, AtStartService DEF Starting
    <3> QED
      BY <1>2, <3>2 DEF Ended
  <2> QED
    BY <1>1, <1>3, <1>4, <2>1, <2>2, <2>3 DEF Starting, Cfg, Cyclic, Deps
<1>6. ASSUME NEW c \in Call PROVE Stopping(c)' /\ Waits(c)' /\ call'[c].pc \notin CleanupLabels
  <2>1. Stopping(c) /\ Waits(c) /\ call[c].pc \notin CleanupLabels
    BY DEF SequentialInv
  <2>2. StopReady(c)' = StopReady(c)
    BY <1>1 DEF StopReady, Deps
  <2>3. Stopping(c)'
    BY <1>1, <1>2, <2>1, <2>2 DEF Stopping, Ended
  <2> QED
    BY <1>1, <2>1, <2>3 DEF Waits
<1>7. HomeInv(p)' /\ \A s \in Service : Settled(s) => Settled(s)'
  BY <1>1, <1>2, EndedHome DEF SequentialInv
<1> QED
  BY <1>1, <1>5, <1>6, <1>7 DEF SequentialInv, Busy

\* At the beginning nothing runs and nobody calls.
LEMMA SeqInit == ASSUME NEW p, Init PROVE SequentialInv(p)
<1>1. \A c \in Call : call[c] = NoCall
  BY DEF Init
<1>2. \A c \in Call : Waits(c) /\ Starting(c) /\ Stopping(c) /\ call[c].pc \notin CleanupLabels /\ ~Busy(c)
  BY <1>1 DEF NoCall, Waits, Starting, Stopping, CleanupLabels, StartLabels, StopLabels, Loop, Busy
<1>3. HomeInv(p)
  BY NamesAssumption DEF Init, NoServer, NoContainer, HomeInv
<1>4. \A s \in Service : Settled(s)
  BY DEF Init, NoContainer, Settled
<1> QED
  BY <1>2, <1>3, <1>4 DEF SequentialInv

\* Every step of a sequential instance, the ones it cannot take included.
LEMMA SeqStep ==
  ASSUME NEW p, OneAtATime, Project = {p}, IInv, SequentialInv(p), [Next]_vars
  PROVE  SequentialInv(p)'
<1>1. ASSUME NEW c \in Call PROVE Serves(p, c)
  BY DEF Serves
<1>2. ASSUME NEW c \in Call, NEW q \in Project, Client(c, q) PROVE SequentialInv(p)'
  BY <1>1, <1>2, StartCallSeq, StopCallSeq, NothingFails DEF Client
<1>3. ASSUME NEW c \in Call, Handler(c) PROVE SequentialInv(p)'
  <2>1. CASE ConnectRuntimes(c) \/ ConnectFails(c) \/ ReadDockerRuntime(c)
             \/ SetupOrchestrator(c) \/ SetupFails(c) \/ EnsureNetwork(c) \/ NetworkFails(c)
    BY <1>1, <2>1, ConnectSeq, FailSeq, ReadSeq, SetupSeq, NetworkSeq
  <2>2. CASE PickService(c) \/ PrepareFails(c) \/ ListExisting(c) \/ RemoveExisting(c)
             \/ CreateContainer(c) \/ CreateFails(c)
    BY <1>1, <2>2, PickSeq, ListSeq, RemoveSeq, CreateSeq, NothingFails
  <2>3. CASE StartContainer(c) \/ LookupProcess(c) \/ ForkProcess(c) \/ StartFails(c)
             \/ Register(c) \/ StartCollector(c) \/ StartDone(c)
    BY <1>1, <2>3, LookupProcessSeq, StartSeq, RegisterSeq, CollectSeq, StartDoneSeq, NothingFails
  <2>4. CASE CleanupStep(c)
    BY <1>1, <2>4, NothingFails
  <2>5. CASE StopStep(c)
    BY <1>1, <2>5, LookupSeq, StopListSeq, StopOneSeq, ServiceStoppedSeq, StopDoneSeq DEF StopStep
  <2> QED
    BY <1>3, <2>1, <2>2, <2>3, <2>4, <2>5 DEF Handler, StartStep
<1>4. ASSUME NEW c \in Call, Disconnect(c) PROVE SequentialInv(p)'
  BY <1>1, <1>4, NothingFails
<1>5. ASSUME NEW i \in ContainerId, ServiceExit(i) PROVE SequentialInv(p)'
  BY <1>5, ExitSeq
<1>6. ~Crash
  <2>1. crashes \in Nat /\ ~(crashes < MaxCrashes)
    BY DEF IInv, TypeOK, OneAtATime
  <2> QED
    BY <2>1 DEF Crash
<1>7. CASE UNCHANGED vars
  <2>1. HomeInv(p)' /\ \A s \in Service : Settled(s) => Settled(s)'
    BY <1>7, SameHome DEF vars, SequentialInv
  <2>2. \A c \in Call : Waits(c)' /\ Starting(c)' /\ Stopping(c)' /\ call'[c].pc \notin CleanupLabels
    <3>1. SUFFICES ASSUME NEW c \in Call PROVE Waits(c)' /\ Starting(c)' /\ Stopping(c)' /\ call'[c].pc \notin CleanupLabels
      OBVIOUS
    <3>2. Starting(c)'
      BY <1>7 DEF vars, SequentialInv, Starting, Up, Only, Cfg, Cyclic, Deps
    <3>3. Waits(c)' /\ Stopping(c)' /\ call'[c].pc \notin CleanupLabels
      BY <1>7 DEF vars, SequentialInv, Waits, Stopping, StopReady, Deps
    <3> QED
      BY <3>2, <3>3
  <2> QED
    BY <1>7, <2>1, <2>2 DEF vars, SequentialInv, Busy
<1> QED
  BY <1>2, <1>3, <1>4, <1>5, <1>6, <1>7 DEF Next

\* While one project is served one call at a time and nothing fails, each call knows what
\* runs: a Start that its own containers have replaced the earlier ones, a Stop that the
\* map tells it where they are.
THEOREM SequentialInvariance ==
  ASSUME NEW p, OneAtATime, Project = {p}
  PROVE  Spec => []SequentialInv(p)
<1>1. Init => SequentialInv(p)
  BY SeqInit
<1>2. IInv /\ SequentialInv(p) /\ [Next]_vars => SequentialInv(p)'
  BY SeqStep
<1> QED
  BY <1>1, <1>2, Invariance, PTL DEF Spec

\* A Stop stops the services in reverse dependency order (orchestrator.go:299).
THEOREM StopsInOrder ==
  ASSUME NEW p, OneAtATime, Project = {p}
  PROVE  Spec => []StopOrder
<1>1. IInv /\ SequentialInv(p) => StopOrder
  <2>1. SUFFICES ASSUME IInv, SequentialInv(p), NEW c \in Call, call[c].pc = "stopone",
                        NEW i \in Running({t \in Cfg(c) : call[c].cur \in Deps(call[c].proj, t)})
                 PROVE  FALSE
    BY DEF StopOrder
  <2>2. Stopping(c) /\ i \in ContainerId /\ ctr[i].status = "running" /\ call[c].cur \in Deps(call[c].proj, i[2])
    BY <2>1 DEF SequentialInv, HomeInv, Running, Runs
  <2> QED
    BY <2>1, <2>2 DEF Stopping, StopLabels, StopReady
<1> QED
  BY <1>1, Invariance, SequentialInvariance, PTL

\* An answer "ok" is given by the last step of the handler alone.
LEMMA AnswersLast ==
  ASSUME TypeOK, Next, NEW c \in Call, NEW K, Answers(c, K)
  PROVE  StartDone(c) \/ (StopDone(c) /\ Becomes(c, [call[c] EXCEPT !.pc = "done", !.result = Return(c, "ok")]))
<1>1. call[c] \in CallType /\ call[c].result = "none" /\ call'[c].result = "ok"
  BY CallTyped DEF Answers
<1>2. ASSUME NEW d \in Call, NEW k, Becomes(d, k), d = c => k.result # "ok"
      PROVE  FALSE
  BY <1>1, <1>2, OneMoves
<1>3. \A d \in Call : call[d] \in CallType /\ (Return(d, "error") = "ok" => d # c)
  BY <1>1, CallTyped DEF Return
<1>4. ASSUME NEW d \in Call, NEW p \in Project PROVE ~Client(d, p)
  BY <1>1, <1>2, <1>3 DEF Client, StartCall, StopCall, ResetCall, CallType
<1>5. ASSUME NEW d \in Call, StartStep(d) PROVE d = c /\ StartDone(d)
  <2>1. ~(ConnectRuntimes(d) \/ ConnectFails(d) \/ ReadDockerRuntime(d) \/ SetupOrchestrator(d)
          \/ SetupFails(d) \/ EnsureNetwork(d) \/ NetworkFails(d) \/ PrepareFails(d))
    BY <1>1, <1>2, <1>3 DEF ConnectRuntimes, ConnectFails, ReadDockerRuntime, SetupOrchestrator,
       SetupFails, EnsureNetwork, NetworkFails, PrepareFails, CallType
  <2>2. ~(CreateContainer(d) \/ CreateFails(d) \/ StartContainer(d) \/ LookupProcess(d)
          \/ ForkProcess(d) \/ StartFails(d) \/ Register(d) \/ StartCollector(d))
    BY <1>1, <1>2, <1>3 DEF CreateContainer, CreateFails, StartContainer, LookupProcess, ForkProcess,
       StartFails, Register, StartCollector, CallType
  <2>3. ~(PickService(d) \/ ListExisting(d) \/ RemoveExisting(d))
    BY <1>1, <1>2, <1>3 DEF PickService, ListExisting, RemoveExisting, CallType
  <2>4. StartDone(d)
    BY <1>5, <2>1, <2>2, <2>3 DEF StartStep
  <2> QED
    BY <1>1, <2>4, OneMoves DEF StartDone
<1>6. ASSUME NEW d \in Call PROVE ~CleanupStep(d)
  BY <1>1, <1>2, <1>3 DEF CleanupStep, CleanupLookup, CleanupStop, CleanupRemove, CleanupDone, CallType
<1>7. ASSUME NEW d \in Call, StopStep(d)
      PROVE  d = c /\ StopDone(d) /\ Becomes(d, [call[d] EXCEPT !.pc = "done", !.result = Return(d, "ok")])
  <2>1. ~(StopLookup(d) \/ StopList(d) \/ StopOne(d) \/ ServiceStopped(d))
    BY <1>1, <1>2, <1>3 DEF StopLookup, StopList, StopOne, ServiceStopped, CallType
  <2>2. StopDone(d)
    BY <1>7, <2>1 DEF StopStep
  <2>3. Becomes(d, [call[d] EXCEPT !.pc = "done", !.result = Return(d, "ok")])
    BY <1>1, <1>2, <1>3, <2>2 DEF StopDone, CallType
  <2> QED
    BY <1>1, <2>2, <2>3, OneMoves
<1>8. ASSUME NEW d \in Call PROVE ~Disconnect(d)
  BY <1>1, <1>2, <1>3 DEF Disconnect, CallType
<1>9. \A i \in ContainerId : ~ServiceExit(i)
  BY <1>1 DEF ServiceExit
<1>10. ~Crash
  <2>1. SUFFICES ASSUME Crash PROVE FALSE
    OBVIOUS
  <2>2. call'[c].result \in {"none", Return(c, "crashed")}
    BY <2>1 DEF Crash, NoCall
  <2> QED
    BY <1>1, <2>2 DEF Return
<1> QED
  BY <1>4, <1>5, <1>6, <1>7, <1>8, <1>9, <1>10 DEF Next, Handler

\* In a sequential instance a Start answers at the end of its loop, a Stop at the end of its own.
LEMMA AnswersKind ==
  ASSUME NEW p, OneAtATime, Project = {p}, IInv, SequentialInv(p), Next, NEW c \in Call
  PROVE  /\ Answers(c, "Start") => StartDone(c)
         /\ Answers(c, "Stop") => StopDone(c)
<1>1. Starting(c) /\ Stopping(c)
  BY DEF SequentialInv
<1>2. call[c].pc = "pick" => call[c].kind = "Start"
  BY <1>1 DEF Starting, StartLabels
<1>3. call[c].pc = "stopnext" => call[c].kind = "Stop"
  BY <1>1 DEF Stopping, StopLabels
<1>4. StartDone(c) => call[c].pc = "pick"
  BY DEF StartDone
<1>5. StopDone(c) => call[c].pc = "stopnext"
  BY DEF StopDone
<1>6. \A K : Answers(c, K) => call[c].kind = K
  BY DEF Answers
<1>7. \A K : Answers(c, K) => StartDone(c) \/ StopDone(c)
  BY AnswersLast DEF IInv
<1> QED
  BY <1>2, <1>3, <1>4, <1>5, <1>6, <1>7

\* When a Stop answers nothing of the project runs (orchestrator.go:335).
THEOREM StopLeavesNothing ==
  ASSUME NEW p, OneAtATime, Project = {p}
  PROVE  Spec => StopStops
<1>1. IInv /\ SequentialInv(p) /\ [Next]_vars =>
        [\A c \in Call : Answers(c, "Stop") => Running(Cfg(c)) = {}]_vars
  <2>1. SUFFICES ASSUME IInv, SequentialInv(p), Next, NEW c \in Call, Answers(c, "Stop")
                 PROVE  Running(Cfg(c)) = {}
    OBVIOUS
  <2>2. StopDone(c)
    BY <2>1, AnswersKind
  <2>3. call[c].todo = {} /\ call[c].pc = "stopnext" /\ Stopping(c) /\ HomeInv(p)
    BY <2>1, <2>2 DEF StopDone, SequentialInv
  <2> QED
    BY <2>3 DEF Running, Runs, HomeInv, Stopping, StopLabels
<1> QED
  BY <1>1, Invariance, SequentialInvariance, PTL DEF Spec, StopStops

\* What is there when a Start answers, services that end by themselves left aside.
LEMMA StartedAll ==
  ASSUME NEW p, OneAtATime, Project = {p}, ~Exits, IInv, SequentialInv(p), Next,
         NEW c \in Call, Answers(c, "Start")
  PROVE  /\ Cfg(c) = Services[p] /\ call[c].proj = p /\ Services[p] \subseteq Service
         /\ srv.orch = c /\ srv.host # Nil /\ UNCHANGED <<srv, orc, ctr>>
         /\ \A s \in Services[p] :
              /\ ctr[<<c, s>>].status = "running" /\ <<c, s>> \in ContainerId
              /\ LookupRuntime(c, s) = ctr[<<c, s>>].rt
         /\ \A i \in ContainerId :
              i[2] \in Services[p] /\ ctr[i].status \in Present => i = <<c, i[2]>>
<1>1. Serves(p, c) /\ StartDone(c)
  BY AnswersKind DEF Serves
<1>2. call[c].pc \in Loop /\ call[c].todo = {} /\ UNCHANGED <<srv, orc, ctr>>
  BY <1>1 DEF StartDone, Loop
<1>3. /\ Cfg(c) = Services[p] /\ call[c].proj = p /\ srv.orch = c /\ srv.host # Nil
      /\ \A s \in Services[p] : Up(c, s)
  BY <1>1, <1>2, LoopFacts
<1>4. Services[p] \subseteq Service
  BY <1>1, SeqFacts
<1>5. ASSUME NEW s \in Services[p]
      PROVE  /\ ctr[<<c, s>>].status = "running" /\ <<c, s>> \in ContainerId
             /\ LookupRuntime(c, s) = ctr[<<c, s>>].rt
  <2>1. ctr[<<c, s>>].status = "running" /\ orc[c].rt[s] # Nil /\ s \in Service
    BY <1>3, <1>4 DEF Up
  <2>2. ctr[<<c, s>>].rt = orc[c].rt[s]
    BY <2>1 DEF IInv, RoutingSound
  <2> QED
    BY <2>1, <2>2 DEF LookupRuntime, Present, ContainerId
<1>6. ASSUME NEW i \in ContainerId, i[2] \in Services[p], ctr[i].status \in Present
      PROVE  i = <<c, i[2]>>
  <2>1. i[1] = c
    BY <1>3, <1>6 DEF Up, Only
  <2> QED
    BY <2>1 DEF ContainerId
<1> QED
  BY <1>2, <1>3, <1>4, <1>5, <1>6

\* When a Start answers each service runs exactly once, as its own container, and the
\* published orchestrator finds it (lifecycle.go:139).
THEOREM StartReplacesAll ==
  ASSUME NEW p, OneAtATime, Project = {p}, ~Exits
  PROVE  Spec => StartReplaces
<1> DEFINE A == \A c \in Call : Answers(c, "Start") =>
                  /\ Running(Cfg(c)) = {<<c, s>> : s \in Cfg(c)}
                  /\ \A s \in Cfg(c) : LookupRuntime(srv.orch, s) = ctr[<<c, s>>].rt
<1>1. IInv /\ SequentialInv(p) /\ [Next]_vars => [A]_vars
  <2>1. SUFFICES ASSUME IInv, SequentialInv(p), Next, NEW c \in Call, Answers(c, "Start")
                 PROVE  /\ Running(Cfg(c)) = {<<c, s>> : s \in Cfg(c)}
                        /\ \A s \in Cfg(c) : LookupRuntime(srv.orch, s) = ctr[<<c, s>>].rt
    OBVIOUS
  <2>2. Running(Cfg(c)) \subseteq {<<c, s>> : s \in Cfg(c)}
    <3>1. HomeInv(p)
      BY <2>1 DEF SequentialInv
    <3> QED
      BY <2>1, <3>1, StartedAll DEF Running, Runs, HomeInv, Present
  <2>3. \A s \in Cfg(c) : <<c, s>> \in Running(Cfg(c))
    BY <2>1, StartedAll DEF Running, Runs
  <2>4. \A s \in Cfg(c) : LookupRuntime(srv.orch, s) = ctr[<<c, s>>].rt
    BY <2>1, StartedAll
  <2> QED
    BY <2>2, <2>3, <2>4
<1> QED
  BY <1>1, Invariance, SequentialInvariance, PTL DEF Spec, StartReplaces

\* A Status right after a Start that answered says "running", if there is a service to count.
THEOREM StatusTrue ==
  ASSUME NEW p, OneAtATime, Project = {p}, ~Exits,
         Services[p] # {}, IsFiniteSet(Services[p])
  PROVE  Spec => StatusAfterStart
<1> DEFINE A == \A c \in Call : Answers(c, "Start") => Status(call[c].proj)' = "running"
<1>1. IInv /\ SequentialInv(p) /\ [Next]_vars => [A]_vars
  <2>1. SUFFICES ASSUME IInv, SequentialInv(p), Next, NEW c \in Call, Answers(c, "Start")
                 PROVE  Status(call[c].proj)' = "running"
    OBVIOUS
  <2>2. call'[c].proj = p /\ UNCHANGED <<srv, orc, ctr>> /\ srv.host # Nil /\ srv.orch = c
    <3>1. StartDone(c) /\ call[c] \in CallType /\ call[c].proj = p
      BY <2>1, AnswersKind, CallTyped, StartedAll DEF IInv
    <3> DEFINE k == [call[c] EXCEPT !.pc = "done", !.ids = {}, !.result = Return(c, "ok")]
    <3>2. Becomes(c, k) /\ k.proj = call[c].proj
      BY <3>1 DEF StartDone, CallType
    <3> HIDE DEF k
    <3>3. call'[c] = k
      BY <2>1, <3>2, OneMoves DEF IInv
    <3> QED
      BY <2>1, <3>1, <3>2, <3>3, StartedAll
  <2> DEFINE R == ReportedRunning(p)
             f == [s \in Services[p] |-> <<c, s>>]
  <2>3. ReportedRunning(p)' = R
    BY <2>2 DEF ReportedRunning, LookupRuntime
  <2>4. R \subseteq {<<c, s>> : s \in Services[p]}
    BY <2>1, StartedAll DEF ReportedRunning, Present
  <2>5. \A s \in Services[p] : <<c, s>> \in R
    BY <2>1, <2>2, StartedAll DEF ReportedRunning
  <2> HIDE DEF R
  <2>6. f \in Bijection(Services[p], R)
    <3>1. f \in [Services[p] -> R]
      BY <2>5
    <3>2. \A s, t \in Services[p] : f[s] = f[t] => s = t
      OBVIOUS
    <3>3. \A i \in R : \E s \in Services[p] : f[s] = i
      BY <2>4
    <3> QED
      BY <3>1, <3>2, <3>3, Fun_IsBij
  <2>7. Cardinality(R) = Cardinality(Services[p]) /\ R # {}
    BY <2>5, <2>6, FS_Bijection, Fun_ExistsBij
  <2>8. Status(p)' = "running"
    BY <2>2, <2>3, <2>7, NamesAssumption DEF Status
  <2> QED
    BY <2>2, <2>8
<1> QED
  BY <1>1, Invariance, SequentialInvariance, PTL DEF Spec, StatusAfterStart
===============================================================================
