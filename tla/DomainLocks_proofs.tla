-------------------------- MODULE DomainLocks_proofs --------------------------
(***************************************************************************)
(* What the lock protocol of DomainLocks guarantees for any number of      *)
(* callers, tenants, contexts and scenes.                                  *)
(***************************************************************************)
EXTENDS DomainLocks, TLAPS

\* The call of a process that is under way names a domain, a tenant's when it
\* registers one.
CallInv ==
  \A p \in Procs :
    /\ pc[p] # "idle" => Dom(p) \in Domains
    /\ pc[p] \in {"register", "assign"} => Dom(p) \in Tenants

\* A process holds a context from contextFor to its return, and the context's
\* lock once it passed Lock.
LockInv ==
  \A p \in Procs :
    /\ my[p] # None <=> pc[p] \in {"lock", "locked", "run"}
    /\ pc[p] \in {"locked", "run"} => mu[my[p]] = p

\* The table is one to one and holds no reclaimed context.
TableInv ==
  /\ \A d, e \in Domains : agents[d] = agents[e] /\ agents[d] # None => d = e
  /\ \A d \in Domains : agents[d] \notin reclaimed

\* A fetched context is its domain's, or was reclaimed before the process ran.
CtxInv ==
  \A p \in Procs : my[p] # None =>
    \/ agents[Dom(p)] = my[p]
    \/ my[p] \in reclaimed /\ Dom(p) # Pool /\ pc[p] # "run"

\* Where Close stands: past the barrier no context is being built and every
\* running operation's context is still waited for.
CloseInv ==
  /\ ~engine => closed
  /\ \A p \in Procs : pc[p] \in {"collect", "barrier"} => closed
  /\ \A p \in Procs : pc[p] = "build" => agentsMu = p
  /\ \A p, q \in Procs : pc[p] = "barrier" =>
       pc[q] # "build" /\ (pc[q] = "run" => my[q] \in acs)

\* A Dream under way is marked on the context it was scheduled from, which is
\* still its domain's.
DreamSteps == {"idle", "fetch", "build", "lock", "locked", "run", "unmark"}

DreamInv ==
  \A g \in Dreams :
    /\ pc[g] \in DreamSteps
    /\ pc[g] # "idle" => g[2] \in inFlight[g[1]] /\ agents[Dom(g)] = g[1]

IInv ==
  TypeOK /\ CallInv /\ LockInv /\ TableInv /\ CtxInv /\ CloseInv /\ DreamInv
    /\ RunsOnOpenEngine /\ DreamKeepsItsContext
-----------------------------------------------------------------------------
\* The value of call between calls is a call.
LEMMA NoCallIsCall == NoCall \in Calls
  BY DEF NoCall, Calls

\* CheckSession (and the pool redirect of lockSharedPool) keeps the invariant.
LEMMA CheckSessionKeeps ==
  ASSUME IInv, NEW p \in Procs, CheckSession(p)
  PROVE  IInv'
<1> USE ConstantsOK DEF IInv, CheckSession, Return, Goto, HasAgent, registry, ctxs, Procs
<1>a. \A q \in Procs : q # p => call'[q] = call[q]
  BY DEF TypeOK
<1>b. call' \in [Procs -> Calls] /\ (pc'[p] # "idle" => call'[p].dom \in Domains)
  <2>1. CASE ~HasAgent(Dom(p))
    BY <2>1 DEF TypeOK, CallInv, Calls, NoCall, Dom, Domains
  <2>2. CASE HasAgent(Dom(p))
    <3> DEFINE d == IF call[p].kind = "pool" THEN Pool ELSE Dom(p)
    <3>1. call[p] \in Calls /\ d \in Domains
      BY DEF TypeOK, CallInv, Dom, Domains
    <3>2. call' = [call EXCEPT ![p] = [call[p] EXCEPT !.dom = d]]
      BY <2>2
    <3>3. [call[p] EXCEPT !.dom = d] \in Calls /\ [call[p] EXCEPT !.dom = d].dom = d
      BY <3>1 DEF Calls
    <3>4. QED  BY <3>1, <3>2, <3>3 DEF TypeOK
  <2>3. QED  BY <2>1, <2>2
<1>1. TypeOK'
  BY <1>b DEF TypeOK, PCs
<1>2. (CallInv /\ LockInv /\ TableInv /\ CtxInv)'
  BY <1>a, <1>b DEF TypeOK, CallInv, LockInv, TableInv, CtxInv, Dom, Domains
<1>3. (CloseInv /\ RunsOnOpenEngine)'
  BY DEF TypeOK, CallInv, LockInv, CtxInv, CloseInv, RunsOnOpenEngine, Dom
<1>4. (DreamInv /\ DreamKeepsItsContext)'
  BY DEF TypeOK, DreamInv, DreamSteps, DreamKeepsItsContext, Dom
<1>5. QED  BY <1>1, <1>2, <1>3, <1>4

\* Registering a tenant (ensureRegistered) keeps the invariant.
LEMMA EnsureRegisteredKeeps ==
  ASSUME IInv, NEW p \in Procs, EnsureRegistered(p)
  PROVE  IInv'
<1> USE ConstantsOK DEF IInv, EnsureRegistered, Return, Goto, ctxs, Procs
<1>1. TypeOK'
  BY DEF TypeOK, Calls, PCs, NoCall, CallInv, Dom, Domains
<1>2. (CallInv /\ LockInv /\ TableInv /\ CtxInv)'
  BY DEF TypeOK, CallInv, LockInv, TableInv, CtxInv, Dom, Domains
<1>3. (CloseInv /\ RunsOnOpenEngine)'
  BY DEF TypeOK, CallInv, LockInv, CtxInv, CloseInv, RunsOnOpenEngine, Dom
<1>4. (DreamInv /\ DreamKeepsItsContext)'
  BY DEF TypeOK, DreamInv, DreamSteps, DreamKeepsItsContext, Dom
<1>5. QED  BY <1>1, <1>2, <1>3, <1>4

\* Recording an endpoint (setDomainLLM) keeps the invariant.
LEMMA SetDomainLLMKeeps ==
  ASSUME IInv, NEW p \in Procs, SetDomainLLM(p)
  PROVE  IInv'
<1> USE ConstantsOK DEF IInv, SetDomainLLM, Goto, ctxs, Procs
<1>1. TypeOK'
  BY DEF TypeOK, Calls, PCs, NoCall, CallInv, Dom, Domains
<1>2. (CallInv /\ LockInv /\ TableInv /\ CtxInv)'
  BY DEF TypeOK, CallInv, LockInv, TableInv, CtxInv, Dom, Domains
<1>3. (CloseInv /\ RunsOnOpenEngine)'
  BY DEF TypeOK, CallInv, LockInv, CtxInv, CloseInv, RunsOnOpenEngine, Dom
<1>4. (DreamInv /\ DreamKeepsItsContext)'
  BY DEF TypeOK, DreamInv, DreamSteps, DreamKeepsItsContext, Dom
<1>5. QED  BY <1>1, <1>2, <1>3, <1>4

\* NewSession keeps the invariant.
LEMMA NewSessionKeeps ==
  ASSUME IInv, NEW p \in Procs, NewSession(p)
  PROVE  IInv'
<1> USE ConstantsOK DEF IInv, NewSession, Return, Goto, registry, ctxs, Procs
<1>1. TypeOK'
  BY DEF TypeOK, Calls, PCs, NoCall, CallInv, Dom, Domains
<1>2. (CallInv /\ LockInv /\ TableInv /\ CtxInv)'
  BY DEF TypeOK, CallInv, LockInv, TableInv, CtxInv, Dom, Domains
<1>3. (CloseInv /\ RunsOnOpenEngine)'
  BY DEF TypeOK, CallInv, LockInv, CtxInv, CloseInv, RunsOnOpenEngine, Dom
<1>4. (DreamInv /\ DreamKeepsItsContext)'
  BY DEF TypeOK, DreamInv, DreamSteps, DreamKeepsItsContext, Dom
<1>5. QED  BY <1>1, <1>2, <1>3, <1>4

\* Entering contextFor keeps the invariant: the closed flag read under agentsMu
\* is what keeps a context from being built behind the barrier of Close.
LEMMA EnterContextForKeeps ==
  ASSUME IInv, NEW p \in Procs, EnterContextFor(p)
  PROVE  IInv'
<1> USE ConstantsOK DEF IInv, EnterContextFor, Return, Goto, HasAgent, registry, ctxs, Procs
<1>1. TypeOK'
  BY DEF TypeOK, Calls, PCs, NoCall, CallInv, Dom, Domains
<1>2. (CallInv /\ LockInv /\ TableInv /\ CtxInv)'
  BY DEF TypeOK, CallInv, LockInv, TableInv, CtxInv, Dom, Domains
<1>3. (CloseInv /\ RunsOnOpenEngine)'
  BY DEF TypeOK, CallInv, LockInv, CtxInv, CloseInv, RunsOnOpenEngine, Dom
<1>4. (DreamInv /\ DreamKeepsItsContext)'
  BY DEF TypeOK, DreamInv, DreamSteps, DreamKeepsItsContext, Dom
<1>5. QED  BY <1>1, <1>2, <1>3, <1>4

\* Taking a domain lock keeps the invariant.
LEMMA LockDomainKeeps ==
  ASSUME IInv, NEW p \in Procs, LockDomain(p)
  PROVE  IInv'
<1> USE ConstantsOK DEF IInv, LockDomain, Goto, registry, Procs
<1>1. TypeOK'
  BY DEF TypeOK, Calls, PCs, NoCall, CallInv, Dom, Domains
<1>2. (CallInv /\ LockInv /\ TableInv /\ CtxInv)'
  BY DEF TypeOK, CallInv, LockInv, TableInv, CtxInv, Dom, Domains
<1>3. (CloseInv /\ RunsOnOpenEngine)'
  BY DEF TypeOK, CallInv, LockInv, CtxInv, CloseInv, RunsOnOpenEngine, Dom
<1>4. (DreamInv /\ DreamKeepsItsContext)'
  BY DEF TypeOK, DreamInv, DreamSteps, DreamKeepsItsContext, Dom
<1>5. QED  BY <1>1, <1>2, <1>3, <1>4

\* The checks under the lock keep the invariant: the closed flag and the reclaim
\* mark are what an operation needs to run.
LEMMA CheckLockedKeeps ==
  ASSUME IInv, NEW p \in Procs, CheckLocked(p)
  PROVE  IInv'
<1> USE ConstantsOK DEF IInv, CheckLocked, Return, Goto, Unlock, registry, Procs
<1>1. TypeOK'
  BY SMTT(20) DEF TypeOK, Calls, PCs, NoCall, CallInv, Dom, Domains
<1>2. (CallInv /\ LockInv /\ TableInv /\ CtxInv)'
  BY DEF TypeOK, CallInv, LockInv, TableInv, CtxInv, Dom, Domains
<1>3. (CloseInv /\ RunsOnOpenEngine)'
  BY DEF TypeOK, CallInv, LockInv, CtxInv, CloseInv, RunsOnOpenEngine, Dom
<1>4. (DreamInv /\ DreamKeepsItsContext)'
  BY DEF TypeOK, DreamInv, DreamSteps, DreamKeepsItsContext, Dom
<1>5. QED  BY <1>1, <1>2, <1>3, <1>4

\* The end of an operation keeps the invariant.
LEMMA FinishKeeps ==
  ASSUME IInv, NEW p \in Procs, Finish(p)
  PROVE  IInv'
<1> USE ConstantsOK DEF IInv, Finish, Return, Goto, Unlock, registry, Procs
<1>a. llm' \in [Ctx -> LLMs \cup {None}]
  BY DEF TypeOK, Calls, LockInv
<1>b. pc' \in [Procs -> PCs] /\ my' \in [Procs -> Ctx \cup {None}]
  BY DEF TypeOK, PCs
<1>c. mu' \in [Ctx -> Procs \cup {None}]
  BY DEF TypeOK
<1>d. call' \in [Procs -> Calls]
  BY NoCallIsCall DEF TypeOK
<1>1. TypeOK'
  BY <1>a, <1>b, <1>c, <1>d DEF TypeOK
<1>2. (CallInv /\ LockInv /\ TableInv /\ CtxInv)'
  BY DEF TypeOK, CallInv, LockInv, TableInv, CtxInv, Dom, Domains
<1>3. (CloseInv /\ RunsOnOpenEngine)'
  BY DEF TypeOK, CallInv, LockInv, CtxInv, CloseInv, RunsOnOpenEngine, Dom
<1>4. (DreamInv /\ DreamKeepsItsContext)'
  BY DEF TypeOK, DreamInv, DreamSteps, DreamKeepsItsContext, Dom
<1>5. QED  BY <1>1, <1>2, <1>3, <1>4

\* The closed check a call makes before any lock keeps the invariant.
LEMMA CheckOpenKeeps ==
  ASSUME IInv, NEW p \in Procs, CheckOpen(p)
  PROVE  IInv'
<1> USE ConstantsOK DEF IInv, CheckOpen, Return, Goto, registry, ctxs, Procs
<1>1. TypeOK'
  BY DEF TypeOK, Calls, PCs, NoCall, CallInv, Dom, Domains
<1>2. (CallInv /\ LockInv /\ TableInv /\ CtxInv)'
  BY DEF TypeOK, CallInv, LockInv, TableInv, CtxInv, Dom, Domains
<1>3. (CloseInv /\ RunsOnOpenEngine)'
  BY DEF TypeOK, CallInv, LockInv, CtxInv, CloseInv, RunsOnOpenEngine, Dom
<1>4. (DreamInv /\ DreamKeepsItsContext)'
  BY DEF TypeOK, DreamInv, DreamSteps, DreamKeepsItsContext, Dom
<1>5. QED  BY <1>1, <1>2, <1>3, <1>4

\* Their engine call keeps the invariant.
LEMMA CallEngineKeeps ==
  ASSUME IInv, NEW p \in Procs, CallEngine(p)
  PROVE  IInv'
<1> USE ConstantsOK DEF IInv, CallEngine, Return, Goto, registry, ctxs, Procs
<1>1. TypeOK'
  BY DEF TypeOK, Calls, PCs, NoCall, CallInv, Dom, Domains
<1>2. (CallInv /\ LockInv /\ TableInv /\ CtxInv)'
  BY DEF TypeOK, CallInv, LockInv, TableInv, CtxInv, Dom, Domains
<1>3. (CloseInv /\ RunsOnOpenEngine)'
  BY DEF TypeOK, CallInv, LockInv, CtxInv, CloseInv, RunsOnOpenEngine, Dom
<1>4. (DreamInv /\ DreamKeepsItsContext)'
  BY DEF TypeOK, DreamInv, DreamSteps, DreamKeepsItsContext, Dom
<1>5. QED  BY <1>1, <1>2, <1>3, <1>4

\* The first half of Close keeps the invariant.
LEMMA SetClosedKeeps ==
  ASSUME IInv, NEW p \in Procs, SetClosed(p)
  PROVE  IInv'
<1> USE ConstantsOK DEF IInv, SetClosed, Return, Goto, registry, ctxs, Procs
<1>a. closed' \in BOOLEAN /\ engine' \in BOOLEAN /\ dbMu' \in Procs \cup {None}
  BY DEF TypeOK
<1>b. pc' \in [Procs -> PCs] /\ call' \in [Procs -> Calls] /\ my' \in [Procs -> Ctx \cup {None}]
  BY DEF TypeOK, Calls, PCs, NoCall
<1>1. TypeOK'
  BY <1>a, <1>b DEF TypeOK
<1>2. (CallInv /\ LockInv /\ TableInv /\ CtxInv)'
  BY DEF TypeOK, CallInv, LockInv, TableInv, CtxInv, Dom, Domains
<1>3. (CloseInv /\ RunsOnOpenEngine)'
  BY DEF TypeOK, CallInv, LockInv, CtxInv, CloseInv, RunsOnOpenEngine, Dom
<1>4. (DreamInv /\ DreamKeepsItsContext)'
  BY DEF TypeOK, DreamInv, DreamSteps, DreamKeepsItsContext, Dom
<1>5. QED  BY <1>1, <1>2, <1>3, <1>4

\* Collecting the contexts establishes the barrier: every running operation's
\* context is among them.
LEMMA CollectContextsKeeps ==
  ASSUME IInv, NEW p \in Procs, CollectContexts(p)
  PROVE  IInv'
<1> USE ConstantsOK DEF IInv, CollectContexts, Goto, registry, ctxs, Procs
<1>1. TypeOK'
  BY DEF TypeOK, Calls, PCs, NoCall, CallInv, Dom, Domains
<1>2. (CallInv /\ LockInv /\ TableInv /\ CtxInv)'
  BY DEF TypeOK, CallInv, LockInv, TableInv, CtxInv, Dom, Domains
<1>3. (CloseInv /\ RunsOnOpenEngine)'
  BY DEF TypeOK, CallInv, LockInv, CtxInv, CloseInv, RunsOnOpenEngine, Dom
<1>4. (DreamInv /\ DreamKeepsItsContext)'
  BY DEF TypeOK, DreamInv, DreamSteps, DreamKeepsItsContext, Dom
<1>5. QED  BY <1>1, <1>2, <1>3, <1>4

\* Waiting for one context keeps the invariant.
LEMMA AwaitContextKeeps ==
  ASSUME IInv, NEW p \in Procs, NEW c \in Ctx, AwaitContext(p, c)
  PROVE  IInv'
<1> USE ConstantsOK DEF IInv, AwaitContext, registry, ctxs, Procs
<1>1. TypeOK'
  BY DEF TypeOK, Calls, PCs, NoCall, CallInv, Dom, Domains
<1>2. (CallInv /\ LockInv /\ TableInv /\ CtxInv)'
  BY DEF TypeOK, CallInv, LockInv, TableInv, CtxInv, Dom, Domains
<1>3. (CloseInv /\ RunsOnOpenEngine)'
  BY DEF TypeOK, CallInv, LockInv, CtxInv, CloseInv, RunsOnOpenEngine, Dom
<1>4. (DreamInv /\ DreamKeepsItsContext)'
  BY DEF TypeOK, DreamInv, DreamSteps, DreamKeepsItsContext, Dom
<1>5. QED  BY <1>1, <1>2, <1>3, <1>4

\* Shutting the engine keeps the invariant.
LEMMA CloseEngineKeeps ==
  ASSUME IInv, NEW p \in Procs, CloseEngine(p)
  PROVE  IInv'
<1> USE ConstantsOK DEF IInv, CloseEngine, Return, Goto, registry, ctxs, Procs
<1>a. closed' \in BOOLEAN /\ engine' \in BOOLEAN /\ dbMu' \in Procs \cup {None}
  BY DEF TypeOK
<1>b. pc' \in [Procs -> PCs] /\ call' \in [Procs -> Calls] /\ my' \in [Procs -> Ctx \cup {None}]
  BY DEF TypeOK, Calls, PCs, NoCall
<1>1. TypeOK'
  BY <1>a, <1>b DEF TypeOK
<1>2. (CallInv /\ LockInv /\ TableInv /\ CtxInv)'
  BY DEF TypeOK, CallInv, LockInv, TableInv, CtxInv, Dom, Domains
<1>3. (CloseInv /\ RunsOnOpenEngine)'
  BY DEF TypeOK, CallInv, LockInv, CtxInv, CloseInv, RunsOnOpenEngine, Dom
<1>4. (DreamInv /\ DreamKeepsItsContext)'
  BY DEF TypeOK, DreamInv, DreamSteps, DreamKeepsItsContext, Dom
<1>5. QED  BY <1>1, <1>2, <1>3, <1>4

\* The start of a call keeps the invariant.
LEMMA StartKeeps ==
  ASSUME IInv, NEW p \in Callers,
         NEW kind \in Kinds, NEW d \in Sessions, NEW l \in LLMs \cup {None}, Start(p, kind, d, l)
  PROVE  IInv'
<1> USE ConstantsOK DEF IInv, Start, Goto, registry, ctxs, Procs
<1>a. d \in Domains /\ (kind = "subagent" => d \in Tenants)
  BY DEF Domains
<1>b. FirstStep(kind) \in PCs \ {"lock", "locked", "run", "build", "collect", "barrier"}
         /\ (FirstStep(kind) \in {"register", "assign"} => kind = "subagent")
  BY DEF FirstStep, AllKinds, PCs
<1>1. TypeOK'
  BY <1>a, <1>b DEF TypeOK, Calls
<1>2. (CallInv /\ LockInv /\ TableInv /\ CtxInv)'
  BY <1>a, <1>b DEF TypeOK, CallInv, LockInv, TableInv, CtxInv, Dom
<1>3. (CloseInv /\ RunsOnOpenEngine)'
  BY <1>b DEF TypeOK, LockInv, CloseInv, RunsOnOpenEngine
<1>4. (DreamInv /\ DreamKeepsItsContext)'
  BY DEF TypeOK, DreamInv, DreamSteps, DreamKeepsItsContext, Dom
<1>5. QED  BY <1>1, <1>2, <1>3, <1>4

\* The deferred unmark of a Dream keeps the invariant.
LEMMA UnmarkDreamKeeps ==
  ASSUME IInv, NEW p \in Dreams, UnmarkDream(p)
  PROVE  IInv'
<1> USE ConstantsOK DEF IInv, UnmarkDream, Goto, registry, Procs
<1>1. TypeOK'
  BY DEF TypeOK, Calls, PCs, NoCall, Dreams
<1>2. (CallInv /\ LockInv /\ TableInv /\ CtxInv)'
  BY DEF TypeOK, CallInv, LockInv, TableInv, CtxInv, Dom, Domains
<1>3. (CloseInv /\ RunsOnOpenEngine)'
  BY DEF TypeOK, CallInv, LockInv, CtxInv, CloseInv, RunsOnOpenEngine, Dom
<1>4. (DreamInv /\ DreamKeepsItsContext)'
  BY DEF TypeOK, DreamInv, DreamSteps, DreamKeepsItsContext, Dom, Dreams
<1>5. QED  BY <1>1, <1>2, <1>3, <1>4

\* Scheduling a Dream (triggerSceneDream) keeps the invariant: it is marked on the
\* context of its domain, under that context's lock.
LEMMA TriggerSceneDreamKeeps ==
  ASSUME IInv, NEW p \in Callers, NEW s \in Scenes, TriggerSceneDream(p, s)
  PROVE  IInv'
<1> USE ConstantsOK DEF IInv
<1> DEFINE c == my[p]
           g == <<c, s>>
<1>1. /\ pc[p] = "run" /\ s \notin inFlight[c]
      /\ inFlight' = [inFlight EXCEPT ![c] = @ \cup {s}]
      /\ mu' = [mu EXCEPT ![c] = None]
      /\ my' = [my EXCEPT ![p] = None]
      /\ pc' = [pc EXCEPT ![p] = "idle", ![g] = "fetch"]
      /\ call' = [call EXCEPT ![p] = NoCall, ![g] = [kind |-> "dream", dom |-> Dom(p), llm |-> None]]
      /\ UNCHANGED <<closed, engine, dbMu, agentsMu, registered, agents, llmByAgent,
                     reclaimed, idle, llm, acs, ticks>>
  BY DEF TriggerSceneDream, Unlock, registry
<1>2. /\ p \in Procs /\ p \notin Dreams /\ c \in Ctx /\ mu[c] = p
      /\ Dom(p) \in Domains /\ agents[Dom(p)] = c /\ c \notin reclaimed
  BY <1>1 DEF TypeOK, LockInv, CallInv, CtxInv, TableInv, Procs
<1>3. g \in Dreams /\ g \in Procs /\ g # p /\ g[1] = c /\ g[2] = s
  BY <1>2 DEF Dreams, Procs
<1>4. pc[g] = "idle" /\ my[g] = None
  BY <1>1, <1>3 DEF DreamInv, LockInv
<1> HIDE DEF g, c
<1>5. \A q \in Procs : /\ q = p => pc'[q] = "idle" /\ my'[q] = None
                       /\ q = g => pc'[q] = "fetch" /\ my'[q] = None /\ call'[q].dom = Dom(p)
                       /\ q \notin {p, g} => pc'[q] = pc[q] /\ my'[q] = my[q] /\ call'[q] = call[q]
  BY <1>1, <1>2, <1>3, <1>4 DEF TypeOK
<1>6. TypeOK'
  <2>1. pc' \in [Procs -> PCs] /\ my' \in [Procs -> Ctx \cup {None}]
    BY <1>1 DEF TypeOK, PCs
  <2>2. call' \in [Procs -> Calls]
    BY <1>1, <1>2 DEF TypeOK, Calls, NoCall
  <2>3. mu' \in [Ctx -> Procs \cup {None}] /\ inFlight' \in [Ctx -> SUBSET Scenes]
    BY <1>1 DEF TypeOK
  <2>4. QED  BY <1>1, <2>1, <2>2, <2>3 DEF TypeOK
<1>7. CallInv'
  BY <1>2, <1>5 DEF CallInv, Dom
<1>8. LockInv'
  BY <1>1, <1>2, <1>5 DEF LockInv, TypeOK
<1>9. (TableInv /\ CtxInv)'
  <2>1. TableInv'
    BY <1>1 DEF TableInv
  <2>2. ASSUME NEW q \in Procs, my'[q] # None
        PROVE  my'[q] = my[q] /\ pc'[q] = pc[q] /\ call'[q] = call[q]
    BY <2>2, <1>5
  <2>3. ASSUME NEW q \in Procs, my'[q] # None
        PROVE  \/ agents'[call'[q].dom] = my'[q]
               \/ my'[q] \in reclaimed' /\ call'[q].dom # Pool /\ pc'[q] # "run"
    <3>1. agents' = agents /\ reclaimed' = reclaimed
      BY <1>1
    <3>2. QED  BY <2>2, <2>3, <3>1 DEF CtxInv, Dom
  <2>4. CtxInv'
    BY <2>3 DEF CtxInv, Dom
  <2>5. QED  BY <2>1, <2>4
<1>10. (CloseInv /\ RunsOnOpenEngine)'
  <2>1. ASSUME NEW q \in Procs, pc'[q] \notin {"idle", "fetch"}
        PROVE  pc'[q] = pc[q] /\ my'[q] = my[q]
    BY <2>1, <1>5
  <2>2. UNCHANGED <<closed, engine, agentsMu, acs>>
    BY <1>1
  <2>3. RunsOnOpenEngine'
    BY <2>1, <2>2 DEF RunsOnOpenEngine
  <2>4. ASSUME NEW q \in Procs, NEW r \in Procs, pc'[q] = "barrier"
        PROVE  pc'[r] # "build" /\ (pc'[r] = "run" => my'[r] \in acs')
    BY <2>1, <2>2, <2>4 DEF CloseInv
  <2>5. CloseInv'
    BY <2>1, <2>2, <2>4 DEF CloseInv
  <2>6. QED  BY <2>3, <2>5
<1>11. DreamInv'
  <2> SUFFICES ASSUME NEW h \in Dreams
               PROVE  /\ pc'[h] \in DreamSteps
                      /\ pc'[h] # "idle" => h[2] \in inFlight'[h[1]] /\ agents[call'[h].dom] = h[1]
    BY <1>1 DEF DreamInv, Dom
  <2>1. h[1] \in Ctx /\ h \in Procs /\ h # p
    BY <1>2 DEF Dreams, Procs
  <2>2. CASE h = g
    BY <2>1, <2>2, <1>1, <1>2, <1>3, <1>5 DEF DreamSteps, TypeOK
  <2>3. CASE h # g
    BY <2>1, <2>3, <1>1, <1>5 DEF DreamInv, Dom, TypeOK
  <2>4. QED  BY <2>2, <2>3
<1>12. DreamKeepsItsContext'
  BY <1>1, <1>2 DEF DreamKeepsItsContext, TypeOK
<1>13. QED  BY <1>6, <1>7, <1>8, <1>9, <1>10, <1>11, <1>12

\* The passing of the idle TTL keeps the invariant.
LEMMA IdleTTLElapsesKeeps ==
  ASSUME IInv, NEW c \in Ctx, IdleTTLElapses(c)
  PROVE  IInv'
<1> USE ConstantsOK DEF IInv, IdleTTLElapses, registry, Procs
<1>1. TypeOK'
  BY DEF TypeOK, Calls, PCs, NoCall, CallInv, Dom, Domains
<1>2. (CallInv /\ LockInv /\ TableInv /\ CtxInv)'
  BY DEF TypeOK, CallInv, LockInv, TableInv, CtxInv, Dom, Domains
<1>3. (CloseInv /\ RunsOnOpenEngine)'
  BY DEF TypeOK, CallInv, LockInv, CtxInv, CloseInv, RunsOnOpenEngine, Dom
<1>4. (DreamInv /\ DreamKeepsItsContext)'
  BY DEF TypeOK, DreamInv, DreamSteps, DreamKeepsItsContext, Dom
<1>5. QED  BY <1>1, <1>2, <1>3, <1>4

\* contextFor's body keeps the invariant: the sweep takes no context with a holder
\* or a scheduled Dream, and the context a domain gets is fresh or its own.
LEMMA BuildContextKeeps ==
  ASSUME IInv, NEW p \in Procs, BuildContext(p)
  PROVE  IInv'
<1> USE ConstantsOK DEF IInv
<1> DEFINE d == Dom(p)
           fresh == SweptAgents[d] = None
           c == IF fresh THEN CHOOSE x \in FreeCtx : TRUE ELSE agents[d]
<1>1. /\ pc[p] = "build" /\ agentsMu = p
      /\ agents' = [SweptAgents EXCEPT ![d] = c]
      /\ reclaimed' = (reclaimed \cup Swept) \ (IF fresh THEN {c} ELSE {})
      /\ idle' = idle \ (Swept \cup {c})
      /\ llm' = IF fresh THEN [llm EXCEPT ![c] = llmByAgent[d]] ELSE llm
      /\ my' = [my EXCEPT ![p] = c]
      /\ agentsMu' = None
      /\ pc' = [pc EXCEPT ![p] = "lock"]
      /\ UNCHANGED <<closed, engine, dbMu, registered, llmByAgent, mu, inFlight, call, acs, ticks>>
  BY DEF BuildContext, Goto
<1>2. d \in Domains /\ my[p] = None
  BY <1>1 DEF CallInv, LockInv
<1>3. /\ SweptAgents \in [Domains -> Ctx \cup {None}]
      /\ \A e \in Domains : SweptAgents[e] = IF agents[e] \in Swept THEN None ELSE agents[e]
  BY DEF SweptAgents, TypeOK
<1>4. fresh => c \in FreeCtx
  BY DEF BuildContext
<1>5. \A x \in FreeCtx : /\ x \in Ctx /\ inFlight[x] = {}
                         /\ \A e \in Domains : agents[e] # x
                         /\ \A q \in Procs : my[q] # x
  BY DEF FreeCtx
<1>6. \A x \in Swept : /\ x \in Ctx /\ mu[x] = None /\ inFlight[x] = {}
                       /\ \E t \in Tenants : agents[t] = x
  BY DEF Swept, TypeOK
<1>7. /\ c \in Ctx
      /\ ~fresh => c = agents[d] /\ c \notin Swept
      /\ fresh => c \notin Swept
  BY <1>2, <1>3, <1>4, <1>5, <1>6 DEF TypeOK, Domains
<1>8. /\ agents' \in [Domains -> Ctx \cup {None}] /\ agents'[d] = c
      /\ \A e \in Domains \ {d} : agents'[e] = SweptAgents[e]
  BY <1>1, <1>2, <1>3, <1>7
<1> HIDE DEF fresh, c, d
<1>9. TypeOK'
  <2>1. llm' \in [Ctx -> LLMs \cup {None}] /\ reclaimed' \subseteq Ctx /\ idle' \subseteq Ctx
    BY <1>1, <1>2, <1>6, <1>7 DEF TypeOK
  <2>2. pc' \in [Procs -> PCs] /\ my' \in [Procs -> Ctx \cup {None}]
    BY <1>1, <1>7 DEF TypeOK, PCs
  <2>3. QED  BY <1>1, <1>8, <2>1, <2>2 DEF TypeOK
<1>10. (CallInv /\ LockInv)'
  BY <1>1, <1>2, <1>7 DEF TypeOK, CallInv, LockInv, Dom
<1>11. TableInv'
  <2>1. \A e \in Domains \ {d} : agents'[e] # None => agents'[e] = agents[e] /\ agents[e] \notin Swept
    BY <1>3, <1>8
  <2>2. ASSUME NEW e \in Domains \ {d}, agents'[e] # None  PROVE agents'[e] # c
    BY <2>1, <2>2, <1>2, <1>4, <1>5, <1>7 DEF TableInv
  <2>3. \A e \in Domains : agents'[e] \notin reclaimed'
    <3>1. ASSUME NEW e \in Domains \ {d}  PROVE agents'[e] \notin reclaimed'
      BY <2>1, <1>1, <1>6 DEF TableInv, TypeOK
    <3>2. c \notin reclaimed'
      BY <1>1, <1>2, <1>7 DEF TableInv
    <3>3. QED  BY <3>1, <3>2, <1>8
  <2>4. QED  BY <2>1, <2>2, <2>3, <1>8 DEF TableInv
<1>12. CtxInv'
  <2> SUFFICES ASSUME NEW q \in Procs, my'[q] # None
               PROVE  \/ agents'[Dom(q)] = my'[q]
                      \/ my'[q] \in reclaimed' /\ Dom(q) # Pool /\ pc'[q] # "run"
    BY <1>1 DEF CtxInv, Dom
  <2>1. CASE q = p
    BY <2>1, <1>1, <1>8 DEF TypeOK, d
  <2>2. CASE q # p
    <3>1. /\ my'[q] = my[q] /\ pc'[q] = pc[q] /\ my[q] \in Ctx /\ Dom(q) \in Domains
          /\ fresh => my[q] # c
          /\ pc[q] = "run" => mu[my[q]] = q
      BY <2>2, <1>1, <1>4, <1>5 DEF TypeOK, LockInv, CallInv
    <3>2. CASE agents[Dom(q)] = my[q] /\ my[q] \in Swept
      <4>1. Dom(q) \in Tenants
        BY <3>1, <3>2, <1>6 DEF TableInv, Domains
      <4>2. my'[q] \in reclaimed' /\ pc'[q] # "run"
        BY <3>1, <3>2, <1>1, <1>6
      <4>3. QED  BY <4>1, <4>2
    <3>3. CASE agents[Dom(q)] = my[q] /\ my[q] \notin Swept
      <4>1. SweptAgents[Dom(q)] = my[q]
        BY <3>1, <3>3, <1>3
      <4>2. Dom(q) = d => c = my[q]
        BY <3>1, <3>3, <4>1, <1>7 DEF fresh
      <4>3. QED  BY <3>1, <4>1, <4>2, <1>8
    <3>4. CASE my[q] \in reclaimed /\ Dom(q) # Pool /\ pc[q] # "run"
      BY <3>1, <3>4, <1>1
    <3>5. QED  BY <3>1, <3>2, <3>3, <3>4, <2>2 DEF CtxInv
  <2>3. QED  BY <2>1, <2>2
<1>13. (CloseInv /\ RunsOnOpenEngine)'
  BY <1>1, <1>2 DEF TypeOK, CloseInv, RunsOnOpenEngine
<1>14. ASSUME NEW x \in Ctx, inFlight[x] # {}
       PROVE  /\ fresh => x # c
              /\ \A e \in Domains : agents[e] = x => agents'[e] = x
  <2>1. x \notin Swept /\ (fresh => x # c)
    BY <1>14, <1>4, <1>5, <1>6
  <2>2. ASSUME NEW e \in Domains, agents[e] = x  PROVE agents'[e] = x
    <3>1. SweptAgents[e] = x
      BY <2>1, <2>2, <1>3
    <3>2. e = d => c = x
      BY <2>2, <3>1, <1>7 DEF fresh
    <3>3. QED  BY <3>1, <3>2, <1>8
  <2>3. QED  BY <2>1, <2>2
<1>15. DreamInv'
  <2> SUFFICES ASSUME NEW g \in Dreams
               PROVE  /\ pc'[g] \in DreamSteps
                      /\ pc'[g] # "idle" => g[2] \in inFlight[g[1]] /\ agents'[Dom(g)] = g[1]
    BY <1>1 DEF DreamInv, Dom
  <2>1. pc'[g] \in DreamSteps /\ (pc'[g] # "idle" => pc[g] # "idle")
    BY <1>1 DEF DreamInv, DreamSteps, TypeOK, Procs
  <2>2. ASSUME pc[g] # "idle"
        PROVE  g[2] \in inFlight[g[1]] /\ agents[Dom(g)] = g[1] /\ g[1] \in Ctx /\ Dom(g) \in Domains
    BY <2>2 DEF DreamInv, CallInv, Dreams, Procs
  <2>3. QED  BY <2>1, <2>2, <1>14
<1>16. DreamKeepsItsContext'
  <2> SUFFICES ASSUME NEW x \in Ctx, inFlight[x] # {}
               PROVE  x \notin reclaimed' /\ \E e \in Domains : agents'[e] = x
    BY <1>1 DEF DreamKeepsItsContext
  <2>1. x \notin reclaimed /\ x \notin Swept
    BY <1>6 DEF DreamKeepsItsContext
  <2>2. PICK e \in Domains : agents[e] = x
    BY DEF DreamKeepsItsContext
  <2>3. QED  BY <2>1, <2>2, <1>1, <1>14
<1>17. QED  BY <1>9, <1>10, <1>11, <1>12, <1>13, <1>15, <1>16

\* A freshly opened database satisfies the invariant.
LEMMA InitEstablishes == Init => IInv
<1> SUFFICES ASSUME Init PROVE IInv
  OBVIOUS
<1> USE ConstantsOK DEF Init
<1>1. TypeOK
  BY NoCallIsCall DEF TypeOK, PCs
<1>2. CallInv /\ LockInv /\ TableInv /\ CtxInv
  BY DEF CallInv, LockInv, TableInv, CtxInv
<1>3. CloseInv /\ RunsOnOpenEngine
  BY DEF CloseInv, RunsOnOpenEngine
<1>4. DreamInv /\ DreamKeepsItsContext
  BY DEF DreamInv, DreamSteps, DreamKeepsItsContext, Procs
<1>5. QED  BY <1>1, <1>2, <1>3, <1>4 DEF IInv

\* Every step of the system, or none, keeps the invariant.
LEMMA StepKeeps == IInv /\ [Next]_vars => IInv'
<1> SUFFICES ASSUME IInv, [Next]_vars PROVE IInv'
  OBVIOUS
<1>1. ASSUME NEW p \in Callers, NEW kind \in Kinds, NEW d \in Sessions, NEW l \in LLMs \cup {None},
             Start(p, kind, d, l)
      PROVE  IInv'
  BY <1>1, StartKeeps
<1>2. ASSUME NEW p \in Procs, LockStep(p)
      PROVE  IInv'
  <2>1. CASE CheckSession(p)      BY <2>1, CheckSessionKeeps
  <2>2. CASE EnsureRegistered(p)  BY <2>2, EnsureRegisteredKeeps
  <2>3. CASE SetDomainLLM(p)      BY <2>3, SetDomainLLMKeeps
  <2>4. CASE NewSession(p)        BY <2>4, NewSessionKeeps
  <2>5. CASE EnterContextFor(p)   BY <2>5, EnterContextForKeeps
  <2>6. CASE LockDomain(p)        BY <2>6, LockDomainKeeps
  <2>7. CASE p \in Dreams /\ UnmarkDream(p)
    BY <2>7, UnmarkDreamKeeps
  <2>8. CASE SetClosed(p)         BY <2>8, SetClosedKeeps
  <2>9. CASE CollectContexts(p)   BY <2>9, CollectContextsKeeps
  <2>10. CASE \E c \in Ctx : AwaitContext(p, c)
    BY <2>10, AwaitContextKeeps
  <2>11. QED
    BY <1>2, <2>1, <2>2, <2>3, <2>4, <2>5, <2>6, <2>7, <2>8, <2>9, <2>10 DEF LockStep
<1>3. ASSUME NEW p \in Procs, FreeStep(p)
      PROVE  IInv'
  <2>1. CASE BuildContext(p)  BY <2>1, BuildContextKeeps
  <2>2. CASE CheckLocked(p)   BY <2>2, CheckLockedKeeps
  <2>3. CASE Finish(p)        BY <2>3, FinishKeeps
  <2>4. CASE CheckOpen(p)     BY <2>4, CheckOpenKeeps
  <2>5. CASE CallEngine(p)    BY <2>5, CallEngineKeeps
  <2>6. CASE CloseEngine(p)   BY <2>6, CloseEngineKeeps
  <2>7. QED  BY <1>3, <2>1, <2>2, <2>3, <2>4, <2>5, <2>6 DEF FreeStep
<1>4. ASSUME NEW p \in Callers, NEW s \in Scenes, TriggerSceneDream(p, s)
      PROVE  IInv'
  BY <1>4, TriggerSceneDreamKeeps
<1>5. ASSUME NEW c \in Ctx, IdleTTLElapses(c)
      PROVE  IInv'
  BY <1>5, IdleTTLElapsesKeeps
<1>6. CASE UNCHANGED vars
  BY <1>6 DEF IInv, vars, registry, ctxs, TypeOK, CallInv, LockInv, TableInv, CtxInv, CloseInv,
              DreamInv, RunsOnOpenEngine, DreamKeepsItsContext, Dom
<1>7. QED  BY <1>1, <1>2, <1>3, <1>4, <1>5, <1>6 DEF Next

\* The inductive invariant of the lock protocol.
THEOREM Invariance == Spec => []IInv
  BY InitEstablishes, StepKeeps, PTL DEF Spec

\* Every variable keeps its type, for any number of callers, tenants, contexts
\* and scenes.
THEOREM TypeCorrectness == Spec => []TypeOK
<1>1. IInv => TypeOK
  BY DEF IInv
<1>2. QED  BY Invariance, <1>1, PTL

\* Two operations never run in one domain at once, though the idle sweep may
\* replace the context one of them is queued on: what both hold is the context
\* the table has for the domain, and its lock has one holder.
THEOREM MutualExclusion == Spec => []OneOperationPerDomain
<1>1. IInv => OneOperationPerDomain
  <2> SUFFICES ASSUME IInv, NEW p \in Procs, NEW q \in Procs,
                      pc[p] = "run", pc[q] = "run", Dom(p) = Dom(q)
               PROVE  p = q
    BY DEF OneOperationPerDomain
  <2>1. mu[my[p]] = p /\ mu[my[q]] = q /\ my[p] # None /\ my[q] # None
    BY DEF IInv, LockInv
  <2>2. agents[Dom(p)] = my[p] /\ agents[Dom(q)] = my[q]
    BY <2>1 DEF IInv, CtxInv
  <2>3. QED  BY <2>1, <2>2
<1>2. QED  BY Invariance, <1>1, PTL

\* Close shuts the engine only when no operation runs and no context is being
\* built, and none starts afterwards.
THEOREM CloseBarrier == Spec => []RunsOnOpenEngine
<1>1. IInv => RunsOnOpenEngine
  BY DEF IInv
<1>2. QED  BY Invariance, <1>1, PTL

\* The context a scheduled Dream is marked on stays in the table until the Dream
\* has cleared its mark: the idle sweep never takes it.
THEOREM DreamContextStays == Spec => []DreamKeepsItsContext
<1>1. IInv => DreamKeepsItsContext
  BY DEF IInv
<1>2. QED  BY Invariance, <1>1, PTL

\* A scene has at most one Dream scheduled or running.
THEOREM SingleDream == Spec => []OneDreamPerScene
<1>1. IInv => OneDreamPerScene
  <2> SUFFICES ASSUME IInv, NEW g \in Dreams, NEW h \in Dreams,
                      pc[g] # "idle", pc[h] # "idle", g[2] = h[2], Dom(g) = Dom(h)
               PROVE  g = h
    BY DEF OneDreamPerScene
  <2>1. g[1] = h[1]
    BY DEF IInv, DreamInv
  <2>2. g = <<g[1], g[2]>> /\ h = <<h[1], h[2]>>
    BY DEF Dreams
  <2>3. QED  BY <2>1, <2>2
<1>2. QED  BY Invariance, <1>1, PTL
=============================================================================
