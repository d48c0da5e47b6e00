----------------------------- MODULE DomainLocks -----------------------------
(***************************************************************************)
(* The composition root of internal/: the registry of domain contexts, the *)
(* lock protocol every call goes through, the idle sweep that reclaims a   *)
(* context, background Dreams, per-domain LLM endpoints, and Close.        *)
(*                                                                         *)
(* A process is a host goroutine (Callers) or the goroutine of a Dream,    *)
(* named by the context and scene it was scheduled for.  agentsMu, db.mu   *)
(* and the domain locks are explicit; a section under agentsMu that reads  *)
(* or builds state is one action, except contextFor, which re-checks the   *)
(* closed flag after taking the lock and is cut there.  What an operation  *)
(* does to its records is not modelled here: "run" is the span in which it *)
(* holds the domain lock and uses the engine.                              *)
(***************************************************************************)
EXTENDS Naturals, FiniteSets

CONSTANTS
  Callers,   \* host goroutines
  Tenants,   \* sub-agent domains that may be registered
  Default,   \* core.DefaultAgentID: the primary's domain
  Pool,      \* core.SharedPoolAgentID: the file-wide L3 domain
  Ctx,       \* identities of context objects (bound: contexts alive at once)
  Scenes,    \* scenes a Dream may be scheduled for
  LLMs,      \* endpoint configurations a host may name
  None,
  Sessions,  \* the domains hosts address
  Kinds,     \* the calls they make
  MaxTick    \* bound: times the idle TTL elapses

Dreams  == Ctx \X Scenes
Procs   == Callers \cup Dreams
Domains == Tenants \cup {Default, Pool}
AllKinds == {"use", "pool", "agent", "subagent", "compact", "stats", "checkpoint", "close"}

ASSUME ConstantsOK ==
  /\ None \notin Procs \cup Domains \cup Ctx \cup LLMs
  /\ Default # Pool /\ {Default, Pool} \cap Tenants = {}
  /\ Callers \cap Dreams = {}
  /\ Kinds \subseteq AllKinds /\ Sessions \subseteq Tenants \cup {Default}
  /\ MaxTick \in Nat

VARIABLES
  closed,    \* db.closed
  engine,    \* the storage engine is open
  dbMu,      \* holder of db.mu
  agentsMu,  \* holder of db.agentsMu
  registered,\* idToName: the tenants the registry holds
  agents,    \* db.agents: domain -> its context, None when it has none
  llmByAgent,\* domain -> its own endpoint, None for the library-wide one
  mu,        \* context -> holder of its lock
  reclaimed, \* contexts taken out of the table by the sweep
  idle,      \* contexts in the table not accessed within the TTL
  inFlight,  \* context -> scenes with a scheduled Dream
  llm,       \* context -> the transport it uses
  pc,        \* process -> where it is
  call,      \* process -> the call it makes
  my,        \* process -> the context it fetched
  acs,       \* the contexts Close still has to wait for
  ticks

registry == <<registered, agents, llmByAgent>>
ctxs     == <<mu, reclaimed, idle, inFlight, llm>>
vars     == <<closed, engine, dbMu, agentsMu, registry, ctxs, pc, call, my, acs, ticks>>

NoCall == [kind |-> "none", dom |-> None, llm |-> None]
Calls  == [kind : AllKinds \cup {"dream", "none"}, dom : Domains \cup {None}, llm : LLMs \cup {None}]

Init ==    \* assemble
  /\ closed = FALSE /\ engine = TRUE
  /\ dbMu = None /\ agentsMu = None
  /\ registered \in SUBSET Tenants      \* loadTenantRegistry
  /\ agents = [d \in Domains |-> None]
  /\ llmByAgent = [d \in Domains |-> None]
  /\ mu = [c \in Ctx |-> None]
  /\ reclaimed = {} /\ idle = {}
  /\ inFlight = [c \in Ctx |-> {}]
  /\ llm = [c \in Ctx |-> None]
  /\ pc = [p \in Procs |-> "idle"]
  /\ call = [p \in Procs |-> NoCall]
  /\ my = [p \in Procs |-> None]
  /\ acs = {}
  /\ ticks = 0
-----------------------------------------------------------------------------
(* Steps every call is made of *)

Goto(p, l) == pc' = [pc EXCEPT ![p] = l]

\* The call returns, with an answer or an error; a Dream goroutine goes on to
\* clear its mark.
Return(p) ==
  /\ my' = [my EXCEPT ![p] = None]
  /\ IF p \in Callers THEN Goto(p, "idle") /\ call' = [call EXCEPT ![p] = NoCall]
                      ELSE Goto(p, "unmark") /\ UNCHANGED call

Dom(p)      == call[p].dom
HasAgent(d) == d = Default \/ d \in registered

\* The entry step of each call.
FirstStep(kind) ==
  CASE kind = "use" -> "fetch"
    [] kind = "pool" -> "session"
    [] kind = "agent" -> "session"
    [] kind = "subagent" -> "register"
    [] kind = "close" -> "close"
    [] OTHER -> "gate"

\* Mutant: a reserved domain may be handed out as a sub-agent.
Start_AnyDomain(p, kind, d, l) ==
  /\ pc[p] = "idle"
  /\ l = None <=> kind \notin {"agent", "subagent"}
  /\ \E e \in {d, Pool} : call' = [call EXCEPT ![p] = [kind |-> kind, dom |-> e, llm |-> l]]
  /\ Goto(p, FirstStep(kind))
  /\ UNCHANGED <<closed, engine, dbMu, agentsMu, registry, ctxs, my, acs, ticks>>

\* A host makes a call.  A session is bound to the default domain or a
\* registered tenant; SubAgent may name one that is not registered yet.
Start(p, kind, d, l) ==
  /\ pc[p] = "idle"
  /\ kind = "subagent" => d # Default
  /\ l = None <=> kind \notin {"agent", "subagent"}
  /\ call' = [call EXCEPT ![p] = [kind |-> kind, dom |-> d, llm |-> l]]
  /\ Goto(p, FirstStep(kind))
  /\ UNCHANGED <<closed, engine, dbMu, agentsMu, registry, ctxs, my, acs, ticks>>

\* The closed flag is read before any lock: by CheckSession (from lockSharedPool,
\* Agent and NewSession), by ensureRegistered, and by Checkpoint, Stats and
\* CompactTo.  It may be stale by the time the next step is taken.
CheckOpen(p) ==
  /\ pc[p] \in {"session", "register", "admit", "gate"}
  /\ IF closed THEN Return(p)
     ELSE /\ Goto(p, CASE pc[p] = "session" -> "member"
                       [] pc[p] = "register" -> "assign"
                       [] pc[p] = "admit" -> "enrol"
                       [] pc[p] = "gate" -> "engine")
          /\ UNCHANGED <<call, my>>
  /\ UNCHANGED <<closed, engine, dbMu, agentsMu, registry, ctxs, acs, ticks>>

\* HasAgent takes agentsMu for any domain but the default one.
CanRead(d) == d = Default \/ agentsMu = None

\* The rest of CheckSession; lockSharedPool goes on in the shared pool's domain.
CheckSession(p) ==
  /\ pc[p] = "member" /\ CanRead(Dom(p))
  /\ IF ~HasAgent(Dom(p)) THEN Return(p)
     ELSE /\ Goto(p, IF call[p].kind = "agent" THEN "setllm" ELSE "fetch")
          /\ call' = [call EXCEPT ![p] = [@ EXCEPT !.dom = IF call[p].kind = "pool" THEN Pool ELSE Dom(p)]]
          /\ UNCHANGED my
  /\ UNCHANGED <<closed, engine, dbMu, agentsMu, registry, ctxs, acs, ticks>>

\* The rest of ensureRegistered: a known name is answered from the table; a new
\* one gets its record under agentsMu, unless the registry holds a key that will
\* not resolve or the write fails, which it does on a shut engine.
EnsureRegistered(p) ==
  /\ pc[p] = "assign" /\ agentsMu = None
  /\ \/ /\ Dom(p) \in registered \/ engine
        /\ registered' = registered \cup {Dom(p)}
        /\ Goto(p, "setllm")
        /\ UNCHANGED <<call, my>>
     \/ /\ Dom(p) \notin registered
        /\ Return(p)
        /\ UNCHANGED registered
  /\ UNCHANGED <<closed, engine, dbMu, agentsMu, agents, llmByAgent, ctxs, acs, ticks>>

\* setDomainLLM
SetDomainLLM(p) ==
  /\ pc[p] = "setllm" /\ agentsMu = None
  /\ llmByAgent' = [llmByAgent EXCEPT ![Dom(p)] = call[p].llm]
  /\ Goto(p, "admit")
  /\ UNCHANGED <<closed, engine, dbMu, agentsMu, registered, agents, ctxs, call, my, acs, ticks>>

\* NewSession, past its closed check.
NewSession(p) ==
  /\ pc[p] = "enrol" /\ CanRead(Dom(p))
  /\ IF ~HasAgent(Dom(p)) THEN Return(p)
     ELSE Goto(p, "fetch") /\ UNCHANGED <<call, my>>
  /\ UNCHANGED <<closed, engine, dbMu, agentsMu, registry, ctxs, acs, ticks>>
-----------------------------------------------------------------------------
(* contextFor, lockOpen, lockAgent *)

\* Mutant: contextFor checks the flag only before it takes agentsMu (the check is
\* the entry step's, and may be stale here).
EnterContextFor_NoRecheck(p) ==
  /\ pc[p] = "fetch" /\ agentsMu = None
  /\ IF ~HasAgent(Dom(p)) /\ Dom(p) # Pool THEN Return(p) /\ UNCHANGED agentsMu
     ELSE Goto(p, "build") /\ agentsMu' = p /\ UNCHANGED <<call, my>>
  /\ UNCHANGED <<closed, engine, dbMu, registry, ctxs, acs, ticks>>

\* contextFor takes agentsMu and re-checks the flag under it.
EnterContextFor(p) ==
  /\ pc[p] = "fetch" /\ agentsMu = None
  /\ IF closed THEN Return(p) /\ UNCHANGED agentsMu
     ELSE IF ~HasAgent(Dom(p)) /\ Dom(p) # Pool THEN Return(p) /\ UNCHANGED agentsMu
     ELSE Goto(p, "build") /\ agentsMu' = p /\ UNCHANGED <<call, my>>
  /\ UNCHANGED <<closed, engine, dbMu, registry, ctxs, acs, ticks>>

\* Mutant: the sweep does not ask for scheduled Dreams.
Swept_IgnoresDreams ==
  {c \in idle : mu[c] = None /\ \E d \in Tenants : agents[d] = c}

\* sweepIdleLocked: the contexts it takes out of the table.
Swept ==
  {c \in idle : /\ \E d \in Tenants : agents[d] = c
                /\ mu[c] = None
                /\ inFlight[c] = {}}

\* The table after the sweep.
SweptAgents == [d \in Domains |-> IF agents[d] \in Swept THEN None ELSE agents[d]]

\* Context objects nothing refers to.
FreeCtx ==
  {c \in Ctx : /\ \A d \in Domains : agents[d] # c
               /\ \A p \in Procs : my[p] # c
               /\ inFlight[c] = {}}

\* contextFor's body: sweep, look the domain up or build its context, stamp it.
BuildContext(p) ==
  LET d == Dom(p)
      fresh == SweptAgents[d] = None
      c == IF fresh THEN CHOOSE x \in FreeCtx : TRUE ELSE agents[d]
  IN
  /\ pc[p] = "build" /\ agentsMu = p
  /\ fresh => FreeCtx # {}
  /\ agents' = [SweptAgents EXCEPT ![d] = c]
  /\ reclaimed' = (reclaimed \cup Swept) \ (IF fresh THEN {c} ELSE {})
  /\ idle' = idle \ (Swept \cup {c})
  /\ llm' = IF fresh THEN [llm EXCEPT ![c] = llmByAgent[d]] ELSE llm
  /\ my' = [my EXCEPT ![p] = c]
  /\ agentsMu' = None
  /\ Goto(p, "lock")
  /\ UNCHANGED <<closed, engine, dbMu, registered, llmByAgent, mu, inFlight, call, acs, ticks>>

\* lockOpen: ac.Mu.Lock()
LockDomain(p) ==
  /\ pc[p] = "lock" /\ mu[my[p]] = None
  /\ mu' = [mu EXCEPT ![my[p]] = p]
  /\ Goto(p, "locked")
  /\ UNCHANGED <<closed, engine, dbMu, agentsMu, registry, reclaimed, idle, inFlight, llm,
                 call, my, acs, ticks>>

Unlock(p) == mu' = [mu EXCEPT ![my[p]] = None]

\* Mutant: lockAgent does not re-check the reclaim mark.
CheckLocked_NoReclaimCheck(p) ==
  /\ pc[p] = "locked"
  /\ IF closed THEN Unlock(p) /\ Return(p)
     ELSE Goto(p, "run") /\ UNCHANGED <<mu, call, my>>
  /\ UNCHANGED <<closed, engine, dbMu, agentsMu, registry, reclaimed, idle, inFlight, llm, acs, ticks>>

\* Mutant: the refusal of a closed database returns with the lock held.
CheckLocked_LeaksLock(p) ==
  /\ pc[p] = "locked"
  /\ IF closed THEN Return(p) /\ UNCHANGED mu
     ELSE IF my[p] \in reclaimed /\ Dom(p) # Pool
     THEN /\ Unlock(p)
          /\ Goto(p, "fetch")
          /\ my' = [my EXCEPT ![p] = None]
          /\ UNCHANGED call
     ELSE Goto(p, "run") /\ UNCHANGED <<mu, call, my>>
  /\ UNCHANGED <<closed, engine, dbMu, agentsMu, registry, reclaimed, idle, inFlight, llm, acs, ticks>>

\* lockOpen's refusal of a closed database, then lockAgent's of a reclaimed
\* context, which sends it back for the live one (lockSharedPool has no such
\* check).
CheckLocked(p) ==
  /\ pc[p] = "locked"
  /\ IF closed THEN Unlock(p) /\ Return(p)
     ELSE IF my[p] \in reclaimed /\ Dom(p) # Pool
     THEN /\ Unlock(p)
          /\ Goto(p, "fetch")
          /\ my' = [my EXCEPT ![p] = None]
          /\ UNCHANGED call
     ELSE Goto(p, "run") /\ UNCHANGED <<mu, call, my>>
  /\ UNCHANGED <<closed, engine, dbMu, agentsMu, registry, reclaimed, idle, inFlight, llm, acs, ticks>>

\* The operation ends: SubAgent and Agent re-point the live context first.
Finish(p) ==
  /\ pc[p] = "run"
  /\ llm' = IF call[p].llm # None THEN [llm EXCEPT ![my[p]] = call[p].llm] ELSE llm
  /\ Unlock(p)
  /\ Return(p)
  /\ UNCHANGED <<closed, engine, dbMu, agentsMu, registry, reclaimed, idle, inFlight, acs, ticks>>
-----------------------------------------------------------------------------
(* Background Dreams *)

\* triggerSceneDream, from a call that closes a turn: mark the scene and start
\* its goroutine, unless one is on its way already.
TriggerSceneDream(p, s) ==
  LET g == <<my[p], s>> IN
  /\ pc[p] = "run" /\ call[p].kind = "use"
  /\ s \notin inFlight[my[p]]
  /\ inFlight' = [inFlight EXCEPT ![my[p]] = @ \cup {s}]
  /\ Unlock(p)
  /\ my' = [my EXCEPT ![p] = None]
  /\ pc' = [pc EXCEPT ![p] = "idle", ![g] = "fetch"]
  /\ call' = [call EXCEPT ![p] = NoCall, ![g] = [kind |-> "dream", dom |-> Dom(p), llm |-> None]]
  /\ UNCHANGED <<closed, engine, dbMu, agentsMu, registry, reclaimed, idle, llm, acs, ticks>>

\* The goroutine's deferred unmark, under the lock of the context it was
\* scheduled from.
UnmarkDream(g) ==
  /\ pc[g] = "unmark" /\ mu[g[1]] = None
  /\ inFlight' = [inFlight EXCEPT ![g[1]] = @ \ {g[2]}]
  /\ Goto(g, "idle")
  /\ call' = [call EXCEPT ![g] = NoCall]
  /\ UNCHANGED <<closed, engine, dbMu, agentsMu, registry, mu, reclaimed, idle, llm, my, acs, ticks>>
-----------------------------------------------------------------------------
(* Checkpoint, Stats and CompactTo take no domain lock *)

\* The engine's answer, under its own mutex: a shut engine refuses a
\* Checkpoint, reports zeros as Stats, and copies from a dropped mapping.
EngineAnswer(kind) ==
  IF engine THEN "ok"
  ELSE CASE kind = "checkpoint" -> "closed"
         [] kind = "stats" -> "zeros"
         [] OTHER -> "corruption"

CallEngine(p) ==
  /\ pc[p] = "engine"
  /\ Return(p)
  /\ UNCHANGED <<closed, engine, dbMu, agentsMu, registry, ctxs, acs, ticks>>
-----------------------------------------------------------------------------
(* Close *)

\* Close: db.mu, the flag, the cancellation of every context's work.
SetClosed(p) ==
  /\ pc[p] = "close" /\ dbMu = None
  /\ IF closed THEN Return(p) /\ UNCHANGED <<dbMu, closed>>
     ELSE closed' = TRUE /\ dbMu' = p /\ Goto(p, "collect") /\ UNCHANGED <<call, my>>
  /\ UNCHANGED <<engine, agentsMu, registry, ctxs, acs, ticks>>

CollectContexts(p) ==
  /\ pc[p] = "collect" /\ agentsMu = None
  /\ acs' = {c \in Ctx : \E d \in Domains : agents[d] = c}
  /\ Goto(p, "barrier")
  /\ UNCHANGED <<closed, engine, dbMu, agentsMu, registry, ctxs, call, my, ticks>>

\* Lock and unlock one context after the other.
AwaitContext(p, c) ==
  /\ pc[p] = "barrier" /\ c \in acs /\ mu[c] = None
  /\ acs' = acs \ {c}
  /\ UNCHANGED <<closed, engine, dbMu, agentsMu, registry, ctxs, pc, call, my, ticks>>

CloseEngine(p) ==
  /\ pc[p] = "barrier" /\ acs = {}
  /\ engine' = FALSE
  /\ dbMu' = None
  /\ Return(p)
  /\ UNCHANGED <<closed, agentsMu, registry, ctxs, acs, ticks>>
-----------------------------------------------------------------------------
\* More than AgentIdleTTLMs pass since c was last accessed.
IdleTTLElapses(c) ==
  /\ ticks < MaxTick /\ ticks' = ticks + 1
  /\ c \notin idle /\ \E d \in Domains : agents[d] = c
  /\ idle' = idle \cup {c}
  /\ UNCHANGED <<closed, engine, dbMu, agentsMu, registry, mu, reclaimed, inFlight, llm,
                 pc, call, my, acs>>

\* The steps that wait for a lock, and the ones that only need the processor.
LockStep(p) ==
  \/ CheckSession(p) \/ EnsureRegistered(p) \/ SetDomainLLM(p) \/ NewSession(p)
  \/ EnterContextFor(p) \/ LockDomain(p)
  \/ (p \in Dreams /\ UnmarkDream(p))
  \/ SetClosed(p) \/ CollectContexts(p) \/ \E c \in Ctx : AwaitContext(p, c)

FreeStep(p) ==
  \/ BuildContext(p) \/ CheckLocked(p) \/ Finish(p)
  \/ CheckOpen(p) \/ CallEngine(p) \/ CloseEngine(p)

Next ==
  \/ \E p \in Callers, kind \in Kinds, d \in Sessions, l \in LLMs \cup {None} : Start(p, kind, d, l)
  \/ \E p \in Procs : LockStep(p) \/ FreeStep(p)
  \/ \E p \in Callers, s \in Scenes : TriggerSceneDream(p, s)
  \/ \E c \in Ctx : IdleTTLElapses(c)

Spec == Init /\ [][Next]_vars

\* An operation under a lock ends (its LLM calls time out or are cancelled), so
\* a process that can run does; a Go mutex hands itself to a waiter that has
\* starved, so a lock that is free again and again is eventually taken.
Fairness == \A p \in Procs : WF_vars(FreeStep(p)) /\ SF_vars(LockStep(p))

FairSpec == Spec /\ Fairness
-----------------------------------------------------------------------------
(* Properties *)

PCs == {"idle", "session", "member", "register", "assign", "setllm", "admit", "enrol", "fetch",
        "build", "lock", "locked", "run", "unmark", "gate", "engine", "close", "collect", "barrier"}

\* Type invariant.
TypeOK ==
  /\ closed \in BOOLEAN /\ engine \in BOOLEAN
  /\ dbMu \in Procs \cup {None} /\ agentsMu \in Procs \cup {None}
  /\ registered \subseteq Tenants
  /\ agents \in [Domains -> Ctx \cup {None}]
  /\ llmByAgent \in [Domains -> LLMs \cup {None}]
  /\ mu \in [Ctx -> Procs \cup {None}]
  /\ reclaimed \subseteq Ctx /\ idle \subseteq Ctx
  /\ inFlight \in [Ctx -> SUBSET Scenes]
  /\ llm \in [Ctx -> LLMs \cup {None}]
  /\ pc \in [Procs -> PCs]
  /\ call \in [Procs -> Calls]
  /\ my \in [Procs -> Ctx \cup {None}]
  /\ acs \subseteq Ctx
  /\ ticks \in Nat

\* No two operations ever run in one domain at once, whichever contexts they
\* hold: the idle sweep may replace a domain's context under a caller that is
\* queued on the old one's lock, and lockAgent has to notice.
OneOperationPerDomain ==
  \A p, q \in Procs : pc[p] = "run" /\ pc[q] = "run" /\ Dom(p) = Dom(q) => p = q

\* An operation that got past the lock protocol runs on an open engine, and a
\* domain's caches are never restored from a shut one: the barrier of Close lets
\* no operation through, not one that fetched its context before Close began and
\* not one that builds a context while Close is collecting them.
RunsOnOpenEngine == \A p \in Procs : pc[p] \in {"build", "run"} => engine

\* A scheduled Dream finds the context it marks in the table for as long as it
\* is in flight, so the set that prevents a second Dream for its scene is the
\* set every later trigger consults.
DreamKeepsItsContext ==
  \A c \in Ctx : inFlight[c] # {} => c \notin reclaimed /\ \E d \in Domains : agents[d] = c

\* At most one Dream per scene of a domain is on its way or running.
OneDreamPerScene ==
  \A g, h \in Dreams :
    pc[g] # "idle" /\ pc[h] # "idle" /\ g[2] = h[2] /\ Dom(g) = Dom(h) => g = h

\* A call that passed the database's closed check and then lost the race to
\* Close answers what it was asked for or that the database is closed (db.go:57:
\* "errDBClosed is what every call on a closed database answers").  The code
\* refutes it: Compact and Stats do not look at the engine's closed flag, only
\* Checkpoint does.
RacedCallAnswersClosed ==
  \A p \in Callers : pc[p] = "engine" => EngineAnswer(call[p].kind) \in {"ok", "closed"}

\* With no call under way, a live context uses the endpoint the table records
\* for its domain, so reclaiming and rebuilding it changes nothing
\* (agents.go: "the lock is what makes that write and every read of it agree").
LiveContextUsesRecordedLLM ==
  (\A p \in Procs : pc[p] = "idle") =>
    \A d \in Domains : agents[d] # None => llm[agents[d]] = llmByAgent[d]

\* Every call returns, Close among them, however calls, sweeps and Dreams
\* interleave: no order of db.mu, agentsMu and the domain locks makes a circle.
EveryCallReturns == \A p \in Callers : pc[p] # "idle" ~> pc[p] = "idle"

\* Every scheduled Dream ends and clears its mark (triggerSceneDream's deferred
\* unmark), refused or not, so a later turn of the scene can schedule one again.
EveryDreamEnds   == \A g \in Dreams : pc[g] # "idle" ~> pc[g] = "idle"
=============================================================================
