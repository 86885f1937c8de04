---------------------------- MODULE MCComponentsProofs ---------------------------
(***************************************************************************)
(* What TLAPS proves of the components of MCComponents, for every value of   *)
(* their constants.  A section per component states its invariant, which     *)
(* holds of its variables whichever component is active, and shows that it   *)
(* implies the component's part of a property; the theorems at the end put    *)
(* the parts together.                                                      *)
(***************************************************************************)
EXTENDS MCComponents, FiniteSetTheorems, FunctionTheorems, SequenceTheorems, TLAPS

(* A step of this module is, for each component, one of its steps or none. *)
LEMMA ComponentSteps ==
  ASSUME [AllNext]_everything
  PROVE  /\ active' = active
         /\ Next \/ UNCHANGED vars
         /\ Pool!Step \/ UNCHANGED pool
         /\ Loop!Step \/ UNCHANGED evaluator
         /\ Fetcher!Step \/ UNCHANGED fetcher
         /\ Limit!Step \/ UNCHANGED limit
         /\ Cache!Step \/ UNCHANGED cache
  BY DEF AllNext, Only, LoginStep, PoolStep, LoopStep, FetchStep, BodyStep, CacheStep, everything

-----------------------------------------------------------------------------
(* EvaluatorLoop: what is called next tells how many evaluations were made    *)
(* and which candidate is the last one.                                     *)

LoopInv ==
  /\ iteration \in 0..MaxIterations /\ candidate \in Nat /\ evaluated \in Nat /\ value \in Nat
  /\ accepted \in BOOLEAN
  /\ loop \in {"generate", "evaluate", "refine", "again", "accept", "returned", "raised"}
  /\ candidate <= MaxIterations /\ evaluated <= candidate /\ value <= candidate
  /\ loop = "generate" => iteration = 0 /\ candidate = 0
  /\ loop = "evaluate" => iteration < MaxIterations /\ candidate = iteration + 1
  /\ loop = "refine" => iteration < MaxIterations /\ candidate = iteration
  /\ loop = "again" => IF iteration < MaxIterations THEN candidate = iteration + 1 ELSE evaluated = candidate
  /\ loop = "accept" => evaluated = candidate
  /\ loop = "returned" => evaluated = candidate /\ value = candidate

LEMMA LoopConstant == MaxIterations \in Nat /\ MaxIterations >= 1
  <1>1. MaxIterations \in 1..10
    BY ComponentsAssumption, Zenon
  <1> QED
    BY <1>1

LEMMA LoopInit == Loop!Init => LoopInv
  <1> SUFFICES ASSUME Loop!Init PROVE LoopInv
    OBVIOUS
  <1>1. loop = "generate" /\ iteration = 0 /\ candidate = 0 /\ evaluated = 0 /\ value = 0
    BY DEF Loop!Init
  <1>2. accepted \in BOOLEAN
    BY Zenon DEF Loop!Init
  <1> QED
    BY <1>1, <1>2, LoopConstant DEF LoopInv

LEMMA LoopStepInv ==
  ASSUME LoopInv, Loop!Step
  PROVE  LoopInv'
  <1> USE LoopConstant
  <1>1. CASE Loop!Raise
    BY <1>1 DEF LoopInv, Loop!Raise
  <1>2. CASE Loop!Generate
    <2>1. /\ iteration' = 0 /\ candidate' = 1 /\ loop' = "evaluate"
          /\ evaluated' = 0 /\ value' = 0
      BY <1>2 DEF LoopInv, Loop!Generate
    <2>2. accepted' \in BOOLEAN
      BY <1>2 DEF LoopInv, Loop!Generate
    <2> QED
      BY <2>1, <2>2 DEF LoopInv
  <1>3. CASE Loop!Evaluate
    <2>1. PICK verdict \in BOOLEAN :
            /\ accepted' = verdict
            /\ loop' = CASE verdict -> "accept"
                         [] ~verdict /\ Loop!MoreRounds(iteration + 1) -> "refine"
                         [] OTHER -> "again"
      BY <1>3 DEF Loop!Evaluate
    <2>2. \/ loop' = "accept"
          \/ loop' = "refine" /\ iteration + 1 < MaxIterations
          \/ loop' = "again" /\ ~(iteration + 1 < MaxIterations)
      BY <2>1 DEF Loop!MoreRounds
    <2> QED
      BY <1>3, <2>1, <2>2 DEF LoopInv, Loop!Evaluate
  <1>4. CASE Loop!Refine
    BY <1>4 DEF LoopInv, Loop!Refine
  <1>5. CASE Loop!Again
    BY <1>5 DEF LoopInv, Loop!Again
  <1>6. CASE Loop!Return
    BY <1>6 DEF LoopInv, Loop!Return
  <1> QED
    BY <1>1, <1>2, <1>3, <1>4, <1>5, <1>6 DEF Loop!Step

LEMMA LoopJudgesItsValue == LoopInv => Loop!TypeOK /\ Loop!VerdictOnValue
  BY LoopConstant DEF LoopInv, Loop!TypeOK, Loop!VerdictOnValue

-----------------------------------------------------------------------------
(* ResearchFetch: the addresses of the hop are those its own resolution gave,  *)
(* and each of the hops so far had at most MaxAttempts requests.               *)

FetchTyped ==
  /\ fetch \in {"start", "connect", "response", "return", "raise", "returned", "raised"}
  /\ host \in Hosts /\ (fetch \in {"connect", "response"} => host \in Allowed)
  /\ addresses \subseteq Public /\ tried \subseteq addresses
  /\ peer \in Fetcher!Addresses \union {Nowhere}
  /\ peer # Nowhere <=> fetch = "response"
  /\ open \in Nat /\ requests \in Nat /\ received \in Nat
  /\ dns \in [Hosts -> SUBSET Fetcher!Addresses]

FetchInv ==
  /\ FetchTyped
  /\ redirects \in 0..MaxRedirects
  /\ fetch = "start" => requests = 0 /\ redirects = 0 /\ tried = {} /\ addresses = {}
  /\ fetch \in {"connect", "response"} =>
       /\ addresses = dns[host] /\ Cardinality(addresses) <= MaxAttempts
       /\ requests <= MaxAttempts * redirects + Cardinality(tried)
  /\ fetch = "response" => peer \in addresses
  /\ requests <= MaxAttempts * redirects + MaxAttempts
  /\ fetch \notin {"raise", "raised"} => received <= MaxResponse
  /\ received <= MaxResponse + 1
  /\ Fetcher!ClosedUnlessUnwritable

LEMMA FetchConstants ==
  /\ MaxAttempts \in Nat \ {0} /\ MaxRedirects \in Nat /\ MaxResponse \in Nat
  /\ Allowed \subseteq Hosts /\ IsFiniteSet(Fetcher!Addresses)
  /\ Public \subseteq Fetcher!Addresses /\ Nowhere \notin Fetcher!Addresses
  <1>1. MaxAttempts \in Nat \ {0} /\ IsFiniteSet(Public \union Private) /\ Nowhere \notin Public \union Private
    BY ComponentsAssumption, Zenon
  <1>2. Fetcher!PolicyIsValid
    BY ComponentsAssumption, Zenon
  <1>3. MaxRedirects \in 0..10 /\ Allowed \subseteq Hosts
    BY <1>2, ZenonT(60) DEF Fetcher!PolicyIsValid
  <1>4. MaxRedirects \in Nat /\ MaxResponse \in Nat
    <2> DEFINE most == 10 * 1024 * 1024
    <2>1. MaxResponse \in 1..most
      BY <1>2, ZenonT(60) DEF Fetcher!PolicyIsValid
    <2>2. most \in Int
      OBVIOUS
    <2> HIDE DEF most
    <2> QED
      BY <1>3, <2>1, <2>2
  <1>5. IsFiniteSet(Fetcher!Addresses) /\ Nowhere \notin Fetcher!Addresses /\ Public \subseteq Fetcher!Addresses
    BY <1>1 DEF Fetcher!Addresses
  <1> QED
    BY <1>1, <1>3, <1>4, <1>5

LEMMA TriedIsFinite ==
  ASSUME FetchTyped
  PROVE  /\ IsFiniteSet(addresses) /\ IsFiniteSet(tried)
         /\ Cardinality(tried) \in Nat /\ Cardinality(tried) <= Cardinality(addresses)
  <1>1. IsFiniteSet(addresses) /\ IsFiniteSet(tried)
    BY FetchConstants, FS_Subset DEF FetchTyped
  <1> QED
    BY <1>1, FS_Subset, FS_CardinalityType DEF FetchTyped

LEMMA Products ==
  ASSUME NEW a \in Nat, NEW r \in Nat
  PROVE  a * r \in Nat /\ a * (r + 1) = a * r + a
  OBVIOUS

LEMMA FetchInit == Fetcher!Init => FetchInv
  <1> SUFFICES ASSUME Fetcher!Init PROVE FetchInv
    OBVIOUS
  <1>1. FetchTyped
    BY FetchConstants DEF Fetcher!Init, FetchTyped
  <1>2. MaxAttempts * 0 = 0
    BY FetchConstants
  <1> QED
    BY <1>1, <1>2, FetchConstants DEF Fetcher!Init, FetchInv, Fetcher!ClosedUnlessUnwritable

(* A hop that is entered connects to what the name service has just said. *)
LEMMA Entered ==
  ASSUME FetchTyped, NEW h \in Hosts, Fetcher!Enter(h)
  PROVE  /\ dns' \in [Hosts -> SUBSET Fetcher!Addresses]
         /\ \/ /\ fetch' = "connect" /\ host' = h /\ h \in Allowed
               /\ addresses' \subseteq Public /\ tried' = {}
               /\ addresses' = dns'[h] /\ Cardinality(addresses') <= MaxAttempts
            \/ /\ fetch' = "raise" /\ host' \in Hosts
               /\ addresses' \subseteq Public /\ tried' \subseteq addresses'
  <1>1. PICK answer \in SUBSET Fetcher!Addresses :
          /\ dns' = IF h \in Allowed THEN [dns EXCEPT ![h] = answer] ELSE dns
          /\ IF h \in Allowed /\ answer # {} /\ answer \subseteq Public
             THEN /\ fetch' = IF Fetcher!Cardinality(answer) > MaxAttempts THEN "raise" ELSE "connect"
                  /\ host' = h /\ addresses' = Fetcher!Resolved(answer) /\ tried' = {}
             ELSE fetch' = "raise" /\ UNCHANGED <<host, addresses, tried>>
    BY DEF Fetcher!Enter
  <1>2. dns' \in [Hosts -> SUBSET Fetcher!Addresses]
    BY <1>1 DEF FetchTyped
  <1>3. CASE h \in Allowed /\ answer # {} /\ answer \subseteq Public
    <2>1. addresses' = answer /\ dns'[h] = answer /\ host' = h /\ tried' = {}
      BY <1>1, <1>3 DEF Fetcher!Resolved, FetchTyped
    <2>2. Cardinality(answer) \in Nat
      BY FS_Subset, FS_CardinalityType, FetchConstants
    <2>3. fetch' = IF Cardinality(answer) > MaxAttempts THEN "raise" ELSE "connect"
      BY <1>1, <1>3 DEF Fetcher!Cardinality, Cardinality
    <2> QED
      BY <1>2, <1>3, <2>1, <2>2, <2>3, FetchConstants
  <1>4. CASE ~(h \in Allowed /\ answer # {} /\ answer \subseteq Public)
    BY <1>1, <1>2, <1>4 DEF FetchTyped
  <1> QED
    BY <1>3, <1>4

LEMMA FetchStepInv ==
  ASSUME FetchInv, Fetcher!Step
  PROVE  FetchInv'
  <1> USE FetchConstants
  <1>0. /\ MaxAttempts * redirects \in Nat /\ MaxAttempts * 0 = 0
        /\ MaxAttempts * (redirects + 1) = MaxAttempts * redirects + MaxAttempts
    BY Products DEF FetchInv, Fetcher!ClosedUnlessUnwritable
  <1>1. CASE Fetcher!Preflight
    <2>1. CASE Fetcher!Enter(host)
      <3>1. /\ fetch = "start" /\ UNCHANGED <<peer, redirects, received, open, requests>>
        BY <1>1 DEF Fetcher!Preflight, Fetcher!net
      <3>2. FetchTyped'
        BY <2>1, <3>1, Entered DEF FetchInv, FetchTyped, Fetcher!ClosedUnlessUnwritable
      <3>3. CASE fetch' = "connect"
        <4>1. tried' = {} /\ addresses' = dns'[host'] /\ Cardinality(addresses') <= MaxAttempts
          BY <2>1, <3>3, Entered DEF FetchInv, FetchTyped, Fetcher!ClosedUnlessUnwritable
        <4>2. Cardinality(tried') = 0
          BY <4>1, FS_EmptySet
        <4> QED
          BY <1>0, <3>1, <3>2, <3>3, <4>1, <4>2 DEF FetchInv, Fetcher!ClosedUnlessUnwritable
      <3>4. CASE fetch' = "raise"
        BY <1>0, <3>1, <3>2, <3>4 DEF FetchInv, Fetcher!ClosedUnlessUnwritable
      <3> QED
        BY <2>1, <3>3, <3>4, Entered DEF FetchInv, FetchTyped, Fetcher!ClosedUnlessUnwritable
    <2>2. CASE fetch' = "raise" /\ UNCHANGED <<host, addresses, tried, dns>>
      BY <1>1, <2>2 DEF Fetcher!Preflight, Fetcher!net, FetchInv, FetchTyped, Fetcher!ClosedUnlessUnwritable
    <2> QED
      BY <1>1, <2>1, <2>2 DEF Fetcher!Preflight
  <1>2. CASE Fetcher!Attempt
    <2>1. PICK a \in addresses \ tried :
             tried' = tried \union {a}
      BY <1>2 DEF Fetcher!Attempt
    <2>2. /\ fetch = "connect" /\ open = 0
          /\ UNCHANGED <<host, addresses, redirects, received, dns>>
      BY <1>2 DEF Fetcher!Attempt, FetchInv, Fetcher!ClosedUnlessUnwritable
    <2>3. /\ requests' \in {requests, requests + 1}
          /\ \/ fetch' \in {fetch, "raise"} /\ peer' = peer /\ open' = open
             \/ fetch' = "raise" /\ host \in Unwritable /\ peer' = peer /\ open' = open + 1
             \/ fetch' = "response" /\ peer' \in addresses /\ open' = open + 1
      BY <1>2 DEF Fetcher!Attempt, Fetcher!NextAddress, Fetcher!NotConnected, Fetcher!Abandon,
                  Fetcher!Exchange, Fetcher!Vetted
    <2>4. /\ tried' \subseteq addresses /\ Cardinality(tried') = Cardinality(tried) + 1
          /\ Cardinality(tried) \in Nat /\ Cardinality(addresses) \in Nat
          /\ Cardinality(tried') <= Cardinality(addresses)
      <3>1. IsFiniteSet(tried) /\ IsFiniteSet(addresses) /\ Cardinality(tried) \in Nat
        BY TriedIsFinite DEF FetchInv, Fetcher!ClosedUnlessUnwritable
      <3>2. tried' \subseteq addresses
        BY <2>1 DEF FetchInv, FetchTyped, Fetcher!ClosedUnlessUnwritable
      <3> QED
        BY <2>1, <3>1, <3>2, FS_AddElement, FS_Subset, FS_CardinalityType
    <2>5. requests' <= MaxAttempts * redirects + Cardinality(tried')
      BY <1>0, <2>2, <2>3, <2>4 DEF FetchInv, FetchTyped, Fetcher!ClosedUnlessUnwritable
    <2>6. FetchTyped'
      BY <2>2, <2>3, <2>4 DEF FetchInv, FetchTyped, Fetcher!ClosedUnlessUnwritable
    <2> QED
      BY <1>0, <2>2, <2>3, <2>4, <2>5, <2>6 DEF FetchInv, FetchTyped, Fetcher!ClosedUnlessUnwritable
  <1>3. CASE Fetcher!NoneLeft
    BY <1>3 DEF Fetcher!NoneLeft, Fetcher!net, FetchInv, FetchTyped, Fetcher!ClosedUnlessUnwritable
  <1>4. CASE Fetcher!Redirect
    <2>1. PICK h \in Hosts \ Unwritable : Fetcher!Enter(h)
      BY <1>4 DEF Fetcher!Redirect
    <2>2. /\ fetch = "response" /\ redirects < MaxRedirects
          /\ redirects' = IF fetch' = "connect" THEN redirects + 1 ELSE redirects
          /\ open' = 0 /\ peer' = Nowhere /\ UNCHANGED <<received, requests>>
      BY <1>4 DEF Fetcher!Redirect, Fetcher!Followed, Fetcher!Close, FetchInv, Fetcher!ClosedUnlessUnwritable
    <2>3. FetchTyped'
      BY <2>1, <2>2, Entered DEF FetchInv, FetchTyped, Fetcher!ClosedUnlessUnwritable
    <2>4. CASE fetch' = "connect"
      <3>1. /\ tried' = {} /\ addresses' = dns'[host'] /\ Cardinality(addresses') <= MaxAttempts
        BY <2>1, <2>4, Entered DEF FetchInv, Fetcher!ClosedUnlessUnwritable
      <3>2. Cardinality(tried') = 0
        BY <3>1, FS_EmptySet
      <3>3. redirects' = redirects + 1 /\ MaxAttempts * redirects' = MaxAttempts * redirects + MaxAttempts
        BY <1>0, <2>2, <2>4
      <3> QED
        BY <1>0, <2>2, <2>3, <2>4, <3>1, <3>2, <3>3 DEF FetchInv, FetchTyped, Fetcher!ClosedUnlessUnwritable
    <2>5. CASE fetch' = "raise"
      BY <2>2, <2>3, <2>5 DEF FetchInv, FetchTyped, Fetcher!ClosedUnlessUnwritable
    <2> QED
      BY <2>1, <2>4, <2>5, Entered DEF FetchInv, Fetcher!ClosedUnlessUnwritable
  <1>5. CASE Fetcher!Refuse
    BY <1>5 DEF Fetcher!Refuse, Fetcher!Close, FetchInv, FetchTyped, Fetcher!ClosedUnlessUnwritable
  <1>6. CASE Fetcher!Judge
    <2>1. PICK r \in Fetcher!Responses :
             IF Fetcher!WellFramed(r) /\ Fetcher!Readable(r) /\ Fetcher!DeclaredFits(r)
             THEN /\ received' = Fetcher!BytesRead(r)
                  /\ fetch' = IF Fetcher!BytesRead(r) > MaxResponse THEN "raise" ELSE "return"
             ELSE fetch' = "raise" /\ UNCHANGED received
      BY <1>6 DEF Fetcher!Judge
    <2>2. /\ fetch = "response" /\ open' = 0 /\ peer' = Nowhere
          /\ UNCHANGED <<host, addresses, tried, redirects, dns, requests>>
      BY <1>6 DEF Fetcher!Judge, Fetcher!Close, FetchInv, Fetcher!ClosedUnlessUnwritable
    <2>3. Fetcher!DeclaredFits(r) => Fetcher!BytesRead(r) \in 0..(MaxResponse + 1)
      BY DEF Fetcher!Responses, Fetcher!DeclaredFits, Fetcher!BytesRead
    <2>4. /\ received' \in Nat /\ received' <= MaxResponse + 1
          /\ fetch' = "raise" \/ (fetch' = "return" /\ received' <= MaxResponse)
      BY <2>1, <2>2, <2>3 DEF FetchInv, FetchTyped, Fetcher!ClosedUnlessUnwritable
    <2> QED
      BY <2>2, <2>4 DEF FetchInv, FetchTyped, Fetcher!ClosedUnlessUnwritable
  <1>7. CASE Fetcher!Emit
    BY <1>7 DEF Fetcher!Emit, Fetcher!net, FetchInv, FetchTyped, Fetcher!ClosedUnlessUnwritable
  <1> QED
    BY <1>1, <1>2, <1>3, <1>4, <1>5, <1>6, <1>7 DEF Fetcher!Step

LEMMA FetchKeeps ==
  ASSUME FetchInv
  PROVE  Fetcher!TypeOK /\ Fetcher!Bounded /\ Fetcher!PeerOfThisHop
         /\ Fetcher!ClosedUnlessUnwritable
  <1>1. Fetcher!TypeOK
    BY FetchConstants DEF FetchInv, FetchTyped, Fetcher!TypeOK
  <1>2. Fetcher!Bounded
    BY FetchConstants, Products DEF FetchInv, FetchTyped, Fetcher!Bounded
  <1>3. Fetcher!PeerOfThisHop
    BY DEF FetchInv, FetchTyped, Fetcher!PeerOfThisHop
  <1>4. Fetcher!ClosedUnlessUnwritable
    BY DEF FetchInv
  <1> QED
    BY <1>1, <1>2, <1>3, <1>4

-----------------------------------------------------------------------------
(* WorkerPool: what is queued is the end of the plan, and every worker before  *)
(* it runs or has its result; the caller has the outputs of the first workers. *)

Begun == Len(plan) - Len(queue)

PoolTyped ==
  /\ caller \in {"plan", "await", "shutdown", "aggregate", "returned", "raised"}
  /\ plan \in Seq(Registered) /\ queue \in Seq(Registered) /\ completed \in Seq(Registered)
  /\ \A i, j \in 1..Len(plan) : plan[i] = plan[j] => i = j
  /\ result \in [Registered -> {"none", "output", "exception"}]
  /\ culprit \in Registered \union {Stranger}
  /\ IsFiniteSet(running) /\ Cardinality(running) <= MaxWorkers

QueueIsTheEnd ==
  /\ Len(queue) <= Len(plan)
  /\ \A i \in 1..Len(queue) : queue[i] = plan[Begun + i]

EveryoneRuns ==
  /\ \A w \in running : \E i \in 1..Begun : w = plan[i]
  /\ \A i \in 1..Begun : plan[i] \in running \/ result[plan[i]] # "none"

InOrder ==
  /\ Len(completed) <= Len(plan)
  /\ \A i \in 1..Len(completed) : completed[i] = plan[i]
  /\ culprit # Stranger =>
       /\ caller \in {"shutdown", "raised"}
       /\ Len(completed) < Len(plan) /\ culprit = plan[Len(completed) + 1]

PoolInv ==
  /\ PoolTyped /\ QueueIsTheEnd /\ EveryoneRuns /\ InOrder
  /\ caller = "plan" => plan = <<>> /\ completed = <<>> /\ culprit = Stranger
  /\ caller \in {"plan", "aggregate", "returned", "raised"} => queue = <<>> /\ running = {}

LEMMA PoolConstants == Stranger \notin Registered /\ MaxWorkers \in Nat
  <1>1. Stranger \notin Registered /\ MaxWorkers \in Nat \ {0}
    BY ComponentsAssumption, Zenon
  <1> QED
    BY <1>1

LEMMA PoolInit == Pool!Init => PoolInv
  <1> SUFFICES ASSUME Pool!Init PROVE PoolInv
    OBVIOUS
  <1>1. Len(plan) = 0 /\ Len(queue) = 0 /\ Len(completed) = 0 /\ Begun = 0
    BY DEF Pool!Init, Begun
  <1>2. IsFiniteSet(running) /\ Cardinality(running) = 0
    BY FS_EmptySet DEF Pool!Init
  <1>3. PoolTyped
    BY <1>1, <1>2, PoolConstants DEF Pool!Init, PoolTyped
  <1> QED
    BY <1>1, <1>3 DEF Pool!Init, PoolInv, QueueIsTheEnd, EveryoneRuns, InOrder

LEMMA PlannedOnce ==
  ASSUME NEW names, NEW s \in Pool!Unique(names)
  PROVE  s \in Seq(Registered) /\ \A i, j \in 1..Len(s) : s[i] = s[j] => i = j
  <1>1. s \in Pool!BoundedSeq(Registered, Len(names)) /\ Pool!IsInjective(s)
    BY DEF Pool!Unique
  <1>2. PICK m \in 0..Len(names) : s \in [1..m -> Registered]
    BY <1>1 DEF Pool!BoundedSeq, Pool!SeqOf
  <1>3. s \in Seq(Registered) /\ DOMAIN s = 1..Len(s)
    BY <1>2
  <1> QED
    BY <1>1, <1>3 DEF Pool!IsInjective

LEMMA PoolStepInv ==
  ASSUME PoolInv, Pool!Step
  PROVE  PoolInv'
  <1> USE PoolConstants
  <1>1. CASE Pool!Plan
    <2>1. /\ caller = "plan" /\ UNCHANGED <<running, result, completed, culprit>>
          /\ queue = <<>> /\ running = {} /\ plan = <<>> /\ completed = <<>> /\ culprit = Stranger
      BY <1>1 DEF Pool!Plan, PoolInv
    <2>2. CASE caller' = "raised" /\ UNCHANGED <<plan, queue>>
      BY <2>1, <2>2 DEF PoolInv, PoolTyped, QueueIsTheEnd, EveryoneRuns, InOrder, Begun
    <2>3. CASE \E names : caller' = "await" /\ plan' \in Pool!Unique(names) /\ queue' = plan'
      <3>1. plan' \in Seq(Registered) /\ \A i, j \in 1..Len(plan') : plan'[i] = plan'[j] => i = j
        BY <2>3, PlannedOnce
      <3>2. PoolTyped'
        BY <2>1, <2>3, <3>1 DEF PoolInv, PoolTyped
      <3>3. Begun' = 0 /\ Len(completed') = 0 /\ Len(plan') \in Nat
        BY <2>1, <2>3, <3>1 DEF Begun
      <3> QED
        BY <2>1, <2>3, <3>1, <3>2, <3>3 DEF PoolInv, QueueIsTheEnd, EveryoneRuns, InOrder
    <2>4. (caller' = "raised" /\ UNCHANGED <<plan, queue>>)
          \/ (\E names : caller' = "await" /\ plan' \in Pool!Unique(names) /\ queue' = plan')
      BY <1>1 DEF Pool!Plan
    <2> QED
      BY <2>2, <2>3, <2>4
  <1>2. CASE Pool!PlannerRaises
    BY <1>2 DEF Pool!PlannerRaises, Pool!pool, PoolInv, PoolTyped, QueueIsTheEnd, EveryoneRuns, InOrder, Begun
  <1>3. CASE Pool!WorkerBegins
    <2>1. /\ queue # <<>> /\ Pool!Cardinality(running) < Pool!Threads
          /\ running' = running \union {Head(queue)} /\ queue' = Tail(queue)
          /\ UNCHANGED <<caller, plan, result, completed, culprit>>
      BY <1>3 DEF Pool!WorkerBegins
    <2>2. Cardinality(running) < MaxWorkers
      <3>1. Pool!Cardinality(running) = Cardinality(running)
        BY DEF Pool!Cardinality, Cardinality
      <3>2. IsFiniteSet(running) /\ Cardinality(running) \in Nat /\ Len(plan) \in Nat
        BY FS_CardinalityType DEF PoolInv, PoolTyped
      <3> QED
        BY <2>1, <3>1, <3>2 DEF Pool!Threads
    <2>3. IsFiniteSet(running') /\ Cardinality(running') <= MaxWorkers
      <3>1. IsFiniteSet(running) /\ Cardinality(running) \in Nat
        BY FS_CardinalityType DEF PoolInv, PoolTyped
      <3>2. IsFiniteSet(running') /\ Cardinality(running') \in {Cardinality(running), Cardinality(running) + 1}
        BY <2>1, <3>1, FS_AddElement
      <3> QED
        BY <2>2, <3>1, <3>2
    <2>4. /\ queue' \in Seq(Registered) /\ Len(queue') = Len(queue) - 1 /\ Len(queue) \in Nat \ {0}
          /\ \A i \in 1..Len(queue') : queue'[i] = queue[i + 1]
          /\ Head(queue) = queue[1] /\ Len(plan) \in Nat
      BY <2>1 DEF PoolInv, PoolTyped
    <2>5. Begun' = Begun + 1 /\ Begun \in Nat /\ Head(queue) = plan[Begun + 1]
      BY <2>1, <2>4 DEF Begun, PoolInv, QueueIsTheEnd
    <2>6. PoolTyped'
      BY <2>1, <2>3, <2>4 DEF PoolInv, PoolTyped
    <2>7. QueueIsTheEnd'
      <3> SUFFICES ASSUME NEW i \in 1..Len(queue') PROVE queue'[i] = plan'[Begun' + i]
        BY <2>1, <2>4 DEF PoolInv, QueueIsTheEnd
      <3>1. i + 1 \in 1..Len(queue) /\ Begun + (i + 1) = Begun' + i
        BY <2>4, <2>5
      <3>2. queue[i + 1] = plan[Begun + (i + 1)]
        BY <3>1 DEF PoolInv, QueueIsTheEnd
      <3> QED
        BY <2>1, <2>4, <3>1, <3>2
    <2>8. EveryoneRuns'
      BY <2>1, <2>5 DEF PoolInv, EveryoneRuns
    <2>9. InOrder'
      BY <2>1 DEF PoolInv, InOrder
    <2> QED
      BY <2>1, <2>6, <2>7, <2>8, <2>9 DEF PoolInv
  <1>4. CASE Pool!Await
    <2>1. PICK w \in Pool!NextDone :
            IF result[w] = "output"
            THEN completed' = Append(completed, w) /\ UNCHANGED <<caller, culprit>>
            ELSE caller' = "shutdown" /\ culprit' = w /\ UNCHANGED completed
      BY <1>4 DEF Pool!Await
    <2>2. caller = "await" /\ UNCHANGED <<plan, queue, running, result>>
      BY <1>4 DEF Pool!Await, Pool!pool
    <2>3. w \in Registered /\ Len(completed) < Len(plan) /\ w = plan[Len(completed) + 1]
      BY DEF Pool!NextDone
    <2>4. CASE result[w] = "output"
      <3>1. /\ completed' \in Seq(Registered) /\ Len(completed') = Len(completed) + 1
            /\ completed'[Len(completed) + 1] = w
            /\ \A i \in 1..Len(completed) : completed'[i] = completed[i]
            /\ Len(completed) \in Nat
        <4>1. completed \in Seq(Registered) /\ completed' = Append(completed, w)
          BY <2>1, <2>4 DEF PoolInv, PoolTyped
        <4> QED
          BY <2>3, <4>1
      <3>2. PoolTyped'
        BY <2>1, <2>2, <2>4, <3>1 DEF PoolInv, PoolTyped
      <3>3. InOrder'
        <4>1. culprit' = culprit /\ caller' = caller /\ culprit = Stranger
          BY <2>1, <2>2, <2>4 DEF PoolInv, InOrder
        <4>2. Len(completed') <= Len(plan')
          BY <2>2, <2>3, <3>1 DEF PoolInv, PoolTyped
        <4>3. \A i \in 1..Len(completed') : completed'[i] = plan'[i]
          BY <2>2, <2>3, <3>1 DEF PoolInv, InOrder
        <4> QED
          BY <4>1, <4>2, <4>3 DEF InOrder
      <3> QED
        BY <2>1, <2>2, <2>4, <3>2, <3>3 DEF PoolInv, QueueIsTheEnd, EveryoneRuns, Begun
    <2>5. CASE result[w] # "output"
      BY <2>1, <2>2, <2>3, <2>5 DEF PoolInv, PoolTyped, QueueIsTheEnd, EveryoneRuns, InOrder, Begun
    <2> QED
      BY <2>4, <2>5
  <1>5. CASE Pool!AllAwaited
    BY <1>5 DEF Pool!AllAwaited, Pool!pool, PoolInv, PoolTyped, QueueIsTheEnd, EveryoneRuns, InOrder, Begun
  <1>6. CASE Pool!Shutdown
    BY <1>6 DEF Pool!Shutdown, Pool!PoolDrained, Pool!pool,
                PoolInv, PoolTyped, QueueIsTheEnd, EveryoneRuns, InOrder, Begun
  <1>7. CASE Pool!Aggregate
    BY <1>7 DEF Pool!Aggregate, Pool!pool, PoolInv, PoolTyped, QueueIsTheEnd, EveryoneRuns, InOrder, Begun
  <1>8. ASSUME NEW w \in Registered, Pool!WorkerEnds(w) PROVE PoolInv'
    <2>1. /\ w \in running /\ running' = running \ {w}
          /\ UNCHANGED <<caller, plan, queue, completed, culprit>>
      BY <1>8 DEF Pool!WorkerEnds
    <2>2. PICK r \in {"output", "exception"} : result' = [result EXCEPT ![w] = r]
      BY <1>8 DEF Pool!WorkerEnds
    <2>3. IsFiniteSet(running') /\ Cardinality(running') <= MaxWorkers
      <3>1. IsFiniteSet(running) /\ Cardinality(running) \in Nat
        BY FS_CardinalityType DEF PoolInv, PoolTyped
      <3>2. IsFiniteSet(running') /\ Cardinality(running') <= Cardinality(running) /\ Cardinality(running') \in Nat
        BY <2>1, <3>1, FS_Subset, FS_CardinalityType
      <3> QED
        BY <3>1, <3>2 DEF PoolInv, PoolTyped
    <2>4. PoolTyped'
      BY <2>1, <2>2, <2>3 DEF PoolInv, PoolTyped
    <2>5. EveryoneRuns'
      <3>1. \A i \in 1..Begun : plan[i] \in Registered
        BY DEF PoolInv, PoolTyped, QueueIsTheEnd, Begun
      <3>2. \A v \in Registered : result'[v] = IF v = w THEN r ELSE result[v]
        BY <2>2 DEF PoolInv, PoolTyped
      <3>3. Begun' = Begun
        BY <2>1 DEF Begun
      <3>4. ASSUME NEW i \in 1..Begun PROVE plan[i] \in running' \/ result'[plan[i]] # "none"
        BY <2>1, <2>2, <3>1, <3>2 DEF PoolInv, EveryoneRuns
      <3> QED
        BY <2>1, <3>3, <3>4 DEF PoolInv, EveryoneRuns
    <2> QED
      BY <2>1, <2>4, <2>5 DEF PoolInv, QueueIsTheEnd, InOrder, Begun
  <1> QED
    BY <1>1, <1>2, <1>3, <1>4, <1>5, <1>6, <1>7, <1>8 DEF Pool!Step

LEMMA PoolFollowsThePlan ==
  ASSUME PoolInv
  PROVE  Pool!TypeOK /\ Pool!OrderOfThePlan /\ Pool!NothingOutlivesTheCall
  <1> USE PoolConstants
  <1>1. /\ Len(plan) \in Nat /\ Len(queue) \in Nat /\ Len(completed) \in Nat /\ Begun \in Nat
        /\ DOMAIN plan = 1..Len(plan) /\ DOMAIN queue = 1..Len(queue)
    BY DEF PoolInv, PoolTyped, QueueIsTheEnd, Begun
  <1>2. Pool!TypeOK
    <2>1. Pool!IsInjective(plan)
      BY <1>1 DEF PoolInv, PoolTyped, Pool!IsInjective
    <2>2. Pool!IsSuffix(queue, plan)
      <3>1. /\ Pool!Reverse(queue) = [i \in 1..Len(queue) |-> queue[(Len(queue) - i) + 1]]
            /\ Pool!Reverse(plan) = [i \in 1..Len(plan) |-> plan[(Len(plan) - i) + 1]]
        BY DEF Pool!Reverse
      <3>2. Pool!Reverse(queue) \in Seq(Registered) /\ Len(Pool!Reverse(queue)) = Len(queue)
        BY <1>1, <3>1 DEF PoolInv, PoolTyped
      <3>3. Pool!Reverse(plan) \in Seq(Registered) /\ Len(Pool!Reverse(plan)) = Len(plan)
        BY <1>1, <3>1 DEF PoolInv, PoolTyped
      <3>4. ASSUME NEW i \in 1..Len(queue) PROVE Pool!Reverse(queue)[i] = Pool!Reverse(plan)[i]
        <4>1. Len(queue) - i + 1 \in 1..Len(queue) /\ Begun + (Len(queue) - i + 1) = Len(plan) - i + 1
          BY <1>1 DEF Begun
        <4>2. \A k \in 1..Len(queue) : queue[k] = plan[Begun + k]
          BY DEF PoolInv, QueueIsTheEnd
        <4>3. queue[Len(queue) - i + 1] = plan[Len(plan) - i + 1]
          BY <4>1, <4>2
        <4>4. i \in 1..Len(plan)
          BY <1>1 DEF PoolInv, QueueIsTheEnd
        <4> QED
          BY <3>1, <4>3, <4>4
      <3> DEFINE s == SubSeq(Pool!Reverse(queue), 1, Len(queue))
                 t == SubSeq(Pool!Reverse(plan), 1, Len(queue))
      <3>5. s \in Seq(Registered) /\ t \in Seq(Registered) /\ Len(s) = Len(queue) /\ Len(t) = Len(queue)
        BY <1>1, <3>2, <3>3 DEF PoolInv, QueueIsTheEnd
      <3>6. \A i \in 1..Len(queue) : s[i] = t[i]
        BY <1>1, <3>2, <3>3, <3>4 DEF PoolInv, QueueIsTheEnd
      <3>7. s = t
        BY <3>5, <3>6
      <3> QED
        BY <1>1, <3>2, <3>3, <3>7 DEF Pool!IsSuffix, Pool!IsPrefix, PoolInv, QueueIsTheEnd
    <2>3. running \subseteq Pool!Range(plan) \ Pool!Range(queue)
      <3> SUFFICES ASSUME NEW w \in running PROVE w \in Pool!Range(plan) \ Pool!Range(queue)
        OBVIOUS
      <3>1. PICK i \in 1..Begun : w = plan[i]
        BY DEF PoolInv, EveryoneRuns
      <3>2. i \in 1..Len(plan)
        BY <1>1 DEF Begun
      <3>3. ASSUME NEW j \in 1..Len(queue) PROVE queue[j] # w
        BY <1>1, <3>1, <3>2, <3>3 DEF Begun, PoolInv, PoolTyped, QueueIsTheEnd
      <3> QED
        BY <1>1, <3>1, <3>2, <3>3 DEF Pool!Range
    <2>4. Pool!Cardinality(running) <= MaxWorkers
      BY DEF Pool!Cardinality, Cardinality, PoolInv, PoolTyped
    <2> QED
      BY <2>1, <2>2, <2>3, <2>4 DEF PoolInv, PoolTyped, Pool!TypeOK
  <1>3. Pool!OrderOfThePlan
    <2> DEFINE s == SubSeq(completed, 1, Len(completed))
               t == SubSeq(plan, 1, Len(completed))
    <2>1. s \in Seq(Registered) /\ t \in Seq(Registered) /\ Len(s) = Len(completed) /\ Len(t) = Len(completed)
      BY <1>1 DEF PoolInv, PoolTyped, InOrder
    <2>2. \A i \in 1..Len(completed) : s[i] = t[i]
      BY <1>1 DEF PoolInv, PoolTyped, InOrder
    <2>3. s = t
      BY <2>1, <2>2
    <2>4. culprit # Stranger => \A i \in 1..Len(plan) : plan[i] = culprit => Len(completed) = i - 1
      BY <1>1 DEF PoolInv, PoolTyped, InOrder
    <2> QED
      BY <1>1, <2>3, <2>4 DEF Pool!OrderOfThePlan, Pool!IsPrefix, PoolInv, InOrder
  <1>4. Pool!NothingOutlivesTheCall
    <2> SUFFICES ASSUME caller \in {"aggregate", "returned", "raised"}
                 PROVE  running = {} /\ \A w \in Pool!Range(plan) : result[w] # "none"
      BY DEF Pool!NothingOutlivesTheCall, Pool!Ended
    <2>1. running = {} /\ Begun = Len(plan)
      <3>1. running = {} /\ queue = <<>>
        BY DEF PoolInv
      <3>2. Len(queue) = 0
        BY <3>1
      <3> QED
        BY <1>1, <3>1, <3>2 DEF Begun
    <2> QED
      BY <1>1, <2>1 DEF PoolInv, EveryoneRuns, Pool!Range
  <1> QED
    BY <1>2, <1>3, <1>4

-----------------------------------------------------------------------------
(* RequestBodyLimit: the total is the sum of what was received, and the        *)
(* application has the wire up to the index, or all of it once the buffer is   *)
(* used up.  Sums are stated by their partial sums.                          *)

Messages == Limit!Chunks \union {Limit!Disconnect}

Tallied(messages, sum, most) ==
  \E sums \in [0..Len(messages) -> 0..most] :
    /\ sums[0] = 0 /\ sums[Len(messages)] = sum
    /\ \A i \in 1..Len(messages) : sums[i] = sums[i - 1] + messages[i].size

Most == IF body = "refused" THEN MaxBytes + MaxChunk ELSE MaxBytes

LimitTyped ==
  /\ body \in {"headers", "buffer", "refused", "app", "answered"}
  /\ buffered \in Seq(Messages) /\ wire \in Seq(Messages) /\ delivered \in Seq(Messages)
  /\ index \in 0..Len(buffered)
  /\ total \in 0..Most

Delivering ==
  IF index < Len(buffered)
  THEN wire = buffered /\ Len(delivered) = index /\ \A i \in 1..index : delivered[i] = wire[i]
  ELSE delivered = wire

LimitInv ==
  /\ LimitTyped /\ Delivering
  /\ body \notin {"app", "answered"} => buffered = wire /\ index = 0 /\ delivered = <<>>
  /\ body = "headers" => wire = <<>>
  /\ body \in {"app", "answered"} =>
       wire # <<>> /\ ~(wire[Len(wire)].type = "http.request" /\ wire[Len(wire)].more)
  /\ Tallied(wire, total, Most) /\ Tallied(buffered, total, Most)

LEMMA LimitConstants == MaxBytes \in Nat /\ MaxChunk \in Nat
  <1>1. MaxBytes \in Nat \ {0} /\ MaxChunk \in Nat
    BY ComponentsAssumption, Zenon
  <1> QED
    BY <1>1

LEMMA MessageSizes ==
  ASSUME NEW m \in Messages
  PROVE  m.size \in 0..MaxChunk /\ (m = Limit!Disconnect => m.size = 0 /\ m.type = "http.disconnect")
  BY LimitConstants DEF Messages, Limit!Chunks, Limit!Disconnect

LEMMA TallyOneMore ==
  ASSUME NEW s \in Seq(Messages), NEW m \in Messages, NEW sum \in Nat, NEW most \in Nat, NEW more \in Nat,
         Tallied(s, sum, most), most <= more, sum + m.size <= more
  PROVE  Tallied(Append(s, m), sum + m.size, more)
  <1>1. PICK sums \in [0..Len(s) -> 0..most] :
          /\ sums[0] = 0 /\ sums[Len(s)] = sum
          /\ \A i \in 1..Len(s) : sums[i] = sums[i - 1] + s[i].size
    BY DEF Tallied
  <1> DEFINE t == Append(s, m)
             n == Len(s) + 1
             next == [i \in 0..n |-> IF i = n THEN sum + m.size ELSE sums[i]]
  <1>2. Len(s) \in Nat /\ Len(t) = n /\ t[n] = m /\ \A i \in 1..Len(s) : t[i] = s[i]
    OBVIOUS
  <1>3. m.size \in Nat
    BY MessageSizes, LimitConstants
  <1>4. next \in [0..n -> 0..more]
    BY <1>1, <1>2, <1>3
  <1>5. next[0] = 0 /\ next[n] = sum + m.size
    BY <1>1, <1>2
  <1>6. ASSUME NEW i \in 1..n PROVE next[i] = next[i - 1] + t[i].size
    <2>1. CASE i = n
      BY <1>1, <1>2, <2>1
    <2>2. CASE i # n
      <3>1. i \in 1..Len(s) /\ i - 1 \in 0..n /\ i - 1 # n /\ i \in 0..n
        BY <1>2, <2>2
      <3> QED
        BY <1>1, <1>2, <2>2, <3>1
    <2> QED
      BY <2>1, <2>2
  <1> HIDE DEF t, next
  <1>7. Tallied(t, sum + m.size, more)
    BY <1>2, <1>4, <1>5, <1>6 DEF Tallied
  <1> QED
    BY <1>7 DEF t

LEMMA TallyNothing ==
  ASSUME NEW most \in Nat
  PROVE  Tallied(<<>>, 0, most)
  <1> DEFINE sums == [i \in 0..Len(<<>>) |-> 0]
  <1>1. Len(<<>>) = 0
    OBVIOUS
  <1>2. sums \in [0..Len(<<>>) -> 0..most] /\ sums[0] = 0
    BY <1>1
  <1> HIDE DEF sums
  <1> QED
    BY <1>1, <1>2 DEF Tallied

LEMMA LimitInit == Limit!Init => LimitInv
  <1> SUFFICES ASSUME Limit!Init PROVE LimitInv
    OBVIOUS
  <1>1. /\ body = "headers" /\ buffered = <<>> /\ wire = <<>> /\ delivered = <<>>
        /\ total = 0 /\ index = 0
    BY DEF Limit!Init
  <1>2. Most = MaxBytes /\ Len(buffered) = 0
    BY <1>1 DEF Most
  <1> QED
    BY <1>1, <1>2, TallyNothing, LimitConstants DEF LimitInv, LimitTyped, Delivering

LEMMA ReceivedIsMessage ==
  ASSUME NEW m \in Limit!Incoming
  PROVE  m \in Messages
  BY DEF Limit!Incoming, Messages

LEMMA LimitStepInv ==
  ASSUME LimitInv, Limit!Step
  PROVE  LimitInv'
  <1> USE LimitConstants
  <1>1. CASE Limit!ReadHeaders
    <2>1. /\ body' \in {"buffer", "refused"} /\ body = "headers"
          /\ UNCHANGED <<buffered, total, index, wire, delivered>>
      BY <1>1 DEF Limit!ReadHeaders
    <2>2. wire = <<>> /\ buffered = <<>>
      BY <2>1 DEF LimitInv
    <2>3. total = 0
      BY <2>2 DEF LimitInv, Tallied
    <2>4. Most' \in Nat
      BY DEF Most
    <2>5. Tallied(wire, total, Most)' /\ Tallied(buffered, total, Most)'
      BY <2>1, <2>2, <2>3, <2>4, TallyNothing
    <2> QED
      BY <2>1, <2>2, <2>3, <2>4, <2>5 DEF LimitInv, LimitTyped, Delivering
  <1>2. CASE Limit!Buffer
    <2>1. PICK m \in Limit!Incoming :
            /\ wire' = Append(wire, m)
            /\ buffered' = Limit!Keep(m)
            /\ total' = total + m.size
            /\ body' = CASE m.type = "http.request" /\ Limit!TooLarge(m) -> "refused"
                         [] m.type = "http.request" /\ ~Limit!TooLarge(m) /\ m.more -> "buffer"
                         [] OTHER -> "app"
      BY <1>2 DEF Limit!Buffer
    <2>2. body = "buffer" /\ UNCHANGED <<index, delivered>>
      BY <1>2 DEF Limit!Buffer
    <2>3. m \in Messages /\ m.size \in 0..MaxChunk
      BY ReceivedIsMessage, MessageSizes
    <2>4. buffered = wire /\ index = 0 /\ delivered = <<>> /\ total \in 0..MaxBytes /\ Most = MaxBytes
      BY <2>2 DEF LimitInv, LimitTyped, Most
    <2>5. m.type # "http.request" => m.size = 0
      BY <2>3 DEF Messages, Limit!Chunks, Limit!Disconnect
    <2>6. \/ body' = "refused" /\ total' > MaxBytes
          \/ body' = "buffer" /\ total' <= MaxBytes
          \/ body' = "app" /\ total' <= MaxBytes /\ ~(m.type = "http.request" /\ m.more)
      BY <2>1, <2>3, <2>4, <2>5 DEF Limit!TooLarge
    <2>7. total' \in 0..Most' /\ Most' \in Nat /\ MaxBytes <= Most'
      BY <2>1, <2>3, <2>4, <2>6 DEF Most
    <2>8. /\ wire' = Append(wire, m) /\ buffered' = wire' /\ wire \in Seq(Messages)
          /\ wire' \in Seq(Messages) /\ Len(wire') = Len(wire) + 1 /\ wire'[Len(wire')] = m
          /\ Len(wire) \in Nat
      BY <2>1, <2>3, <2>4 DEF Limit!Keep, LimitInv, LimitTyped
    <2>9. Tallied(wire', total', Most')
      BY <2>1, <2>3, <2>4, <2>7, <2>8, TallyOneMore DEF LimitInv
    <2>10. LimitTyped' /\ Delivering'
      BY <2>2, <2>4, <2>6, <2>7, <2>8 DEF LimitInv, LimitTyped, Delivering
    <2>11. wire' # <<>>
      BY <2>8
    <2>12. Tallied(wire, total, Most)' /\ Tallied(buffered, total, Most)'
      BY <2>8, <2>9
    <2> QED
      BY <2>2, <2>4, <2>6, <2>8, <2>10, <2>11, <2>12 DEF LimitInv
  <1>3. CASE Limit!Replay
    <2>1. /\ body = "app" /\ index < Len(buffered) /\ index' = index + 1
          /\ delivered' = Append(delivered, buffered[index + 1])
          /\ UNCHANGED <<body, buffered, total, wire>>
      BY <1>3 DEF Limit!Replay
    <2>2. /\ wire = buffered /\ Len(delivered) = index /\ \A i \in 1..index : delivered[i] = wire[i]
          /\ wire \in Seq(Messages) /\ delivered \in Seq(Messages) /\ index \in Nat
      BY <2>1 DEF LimitInv, LimitTyped, Delivering
    <2>3. /\ delivered' \in Seq(Messages) /\ Len(delivered') = index'
          /\ \A i \in 1..index' : delivered'[i] = wire[i]
      BY <2>1, <2>2
    <2>4. index' = Len(buffered) => delivered' = wire
      BY <2>1, <2>2, <2>3
    <2>5. Delivering'
      BY <2>1, <2>2, <2>3, <2>4 DEF Delivering
    <2>6. LimitTyped' /\ Most' = Most
      BY <2>1, <2>2, <2>3 DEF LimitInv, LimitTyped, Most
    <2>7. Tallied(wire, total, Most)' /\ Tallied(buffered, total, Most)'
      BY <2>1, <2>6 DEF LimitInv, Tallied
    <2> QED
      BY <2>1, <2>5, <2>6, <2>7 DEF LimitInv
  <1>4. CASE Limit!PassThrough
    <2>1. PICK m \in Limit!Incoming : wire' = Append(wire, m) /\ delivered' = Append(delivered, m)
      BY <1>4 DEF Limit!PassThrough
    <2>2. /\ body = "app" /\ index >= Len(buffered)
          /\ UNCHANGED <<body, buffered, total, index>>
      BY <1>4 DEF Limit!PassThrough
    <2>3. m = Limit!Disconnect
      <3>1. wire # <<>> /\ ~(wire[Len(wire)].type = "http.request" /\ wire[Len(wire)].more)
        BY <2>2 DEF LimitInv
      <3> QED
        BY <3>1 DEF Limit!Incoming, Limit!Last
    <2>4. m \in Messages /\ m.size = 0 /\ m.type # "http.request"
      BY <2>3, MessageSizes, ReceivedIsMessage
    <2>5. delivered = wire /\ index = Len(buffered) /\ wire \in Seq(Messages) /\ Len(wire) \in Nat
      BY <2>2 DEF LimitInv, LimitTyped, Delivering
    <2>6. /\ wire' \in Seq(Messages) /\ delivered' = wire' /\ wire' # <<>>
          /\ Len(wire') = Len(wire) + 1 /\ wire'[Len(wire')] = m
      BY <2>1, <2>4, <2>5
    <2>7. Most' = Most /\ Most \in Nat /\ total \in Nat /\ total <= Most
      BY <2>2 DEF Most, LimitInv, LimitTyped
    <2>8. Tallied(wire', total + m.size, Most)
      BY <2>1, <2>4, <2>5, <2>7, TallyOneMore DEF LimitInv
    <2>9. Tallied(wire, total, Most)' /\ Tallied(buffered, total, Most)'
      <3>1. total + m.size = total
        BY <2>4, <2>7
      <3>2. Tallied(wire', total', Most') /\ Tallied(buffered', total', Most')
        BY <2>2, <2>7, <2>8, <3>1 DEF LimitInv
      <3> QED
        BY <3>2
    <2>10. LimitTyped' /\ Delivering'
      BY <2>2, <2>5, <2>6, <2>7 DEF LimitInv, LimitTyped, Delivering
    <2> QED
      BY <2>2, <2>4, <2>6, <2>9, <2>10 DEF LimitInv
  <1>5. CASE Limit!Answer
    <2>1. body = "app" /\ body' = "answered" /\ UNCHANGED <<buffered, total, index, wire, delivered>>
      BY <1>5 DEF Limit!Answer
    <2>2. Most' = Most
      BY <2>1 DEF Most
    <2>3. Tallied(wire, total, Most)' /\ Tallied(buffered, total, Most)'
      BY <2>1, <2>2 DEF LimitInv, Tallied
    <2> QED
      BY <2>1, <2>2, <2>3 DEF LimitInv, LimitTyped, Delivering
  <1> QED
    BY <1>1, <1>2, <1>3, <1>4, <1>5 DEF Limit!Step

LEMMA TalliedWithin ==
  ASSUME NEW s, NEW sum, NEW most \in Nat, NEW more \in Nat, Tallied(s, sum, most), most <= more
  PROVE  Limit!SizeWithin(s, more)
  <1>1. PICK sums \in [0..Len(s) -> 0..most] :
          /\ sums[0] = 0 /\ sums[Len(s)] = sum
          /\ \A i \in 1..Len(s) : sums[i] = sums[i - 1] + s[i].size
    BY DEF Tallied
  <1>2. sums \in [0..Len(s) -> 0..more]
    BY <1>1
  <1> QED
    BY <1>1, <1>2 DEF Limit!SizeWithin

LEMMA LimitReplays ==
  ASSUME LimitInv
  PROVE  Limit!TypeOK /\ Limit!WireInOrder /\ Limit!BodyWithinLimit
  <1> USE LimitConstants
  <1>1. Limit!TypeOK
    BY DEF LimitInv, LimitTyped, Most, Messages, Limit!TypeOK
  <1>2. Limit!WireInOrder
    <2>1. /\ delivered \in Seq(Messages) /\ wire \in Seq(Messages) /\ Len(delivered) \in Nat
          /\ Len(delivered) <= Len(wire) /\ \A i \in 1..Len(delivered) : delivered[i] = wire[i]
      BY DEF LimitInv, LimitTyped, Delivering
    <2> DEFINE s == SubSeq(delivered, 1, Len(delivered))
               t == SubSeq(wire, 1, Len(delivered))
    <2>2. s \in Seq(Messages) /\ t \in Seq(Messages) /\ Len(s) = Len(delivered) /\ Len(t) = Len(delivered)
      BY <2>1
    <2>3. \A i \in 1..Len(delivered) : s[i] = t[i]
      BY <2>1
    <2>4. s = t
      BY <2>2, <2>3
    <2> QED
      BY <2>1, <2>4 DEF Limit!WireInOrder, Limit!IsPrefix
  <1>3. Limit!BodyWithinLimit
    <2>1. Most \in Nat /\ Most <= MaxBytes + MaxChunk /\ (body # "refused" => Most = MaxBytes)
      BY DEF Most
    <2>2. Limit!SizeWithin(buffered, MaxBytes + MaxChunk)
      BY <2>1, TalliedWithin DEF LimitInv
    <2>3. body # "refused" => Limit!SizeWithin(wire, MaxBytes)
      BY <2>1, TalliedWithin DEF LimitInv
    <2> QED
      BY <2>2, <2>3 DEF Limit!BodyWithinLimit
  <1> QED
    BY <1>1, <1>2, <1>3

-----------------------------------------------------------------------------
(* RuntimeCache: what is neither doomed nor owed to the next trim fits. *)

CacheInv ==
  /\ keys \in Seq(Urls) /\ \A i, j \in 1..Len(keys) : keys[i] = keys[j] => i = j
  /\ at \in [Events -> {"new", "network", "trim", "delete", "done"}]
  /\ url \in [Events -> Urls] /\ mode \in [Events -> {"navigate", "asset"}]
  /\ doomed \in [Events -> SUBSET Urls]
  /\ \A e \in Events : doomed[e] # {} => at[e] = "delete"
  /\ answered \subseteq Events /\ debt \in Nat
  /\ Cardinality(Cache!Range(keys) \ Cache!Pending) <= MaxEntries + debt

LEMMA CacheConstants == MaxEntries \in Nat
  BY ComponentsAssumption, Zenon

LEMMA ImageIsSmaller ==
  ASSUME NEW S, IsFiniteSet(S), NEW f
  PROVE  IsFiniteSet({f[x] : x \in S}) /\ Cardinality({f[x] : x \in S}) <= Cardinality(S)
  <1> DEFINE T == {f[x] : x \in S}
             g == [x \in S |-> f[x]]
  <1>1. g \in [S -> T] /\ \A y \in T : \E x \in S : g[x] = y
    OBVIOUS
  <1> HIDE DEF T, g
  <1>2. g \in Surjection(S, T)
    BY <1>1, Fun_IsSurj
  <1>3. IsFiniteSet(T) /\ Cardinality(T) <= Cardinality(S)
    BY <1>2, FS_Surjection
  <1> QED
    BY <1>3 DEF T

LEMMA KeysAreFinite ==
  ASSUME NEW s \in Seq(Urls)
  PROVE  IsFiniteSet(Cache!Range(s))
  <1>1. Cache!Range(s) = {s[i] : i \in 1..Len(s)} /\ IsFiniteSet(1..Len(s))
    BY FS_Interval DEF Cache!Range
  <1> QED
    BY <1>1, ImageIsSmaller

(* A request is taken out of the keys. *)
LEMMA OneFewer ==
  ASSUME NEW s \in Seq(Urls), \A i, j \in 1..Len(s) : s[i] = s[j] => i = j, NEW k \in Urls
  PROVE  LET t == Cache!RemoveFirst(s, k) IN
         /\ t \in Seq(Urls) /\ \A i, j \in 1..Len(t) : t[i] = t[j] => i = j
         /\ Cache!Range(t) = Cache!Range(s) \ {k}
  <1> DEFINE t == Cache!RemoveFirst(s, k)
  <1>1. CASE \A i \in 1..Len(s) : s[i] # k
    <2>1. t = s
      BY <1>1 DEF Cache!RemoveFirst
    <2>2. k \notin Cache!Range(s)
      BY <1>1 DEF Cache!Range
    <2> HIDE DEF t
    <2>3. /\ t \in Seq(Urls) /\ \A i, j \in 1..Len(t) : t[i] = t[j] => i = j
          /\ Cache!Range(t) = Cache!Range(s) \ {k}
      BY <2>1, <2>2
    <2> QED
      BY <2>3 DEF t
  <1>2. CASE \E i \in 1..Len(s) : s[i] = k
    <2>1. PICK p \in 1..Len(s) : s[p] = k
      BY <1>2
    <2>2. Cache!SelectInSeq(s, LAMBDA v : v = k) = p
      <3>1. {i \in 1..Len(s) : s[i] = k} = {p}
        BY <2>1
      <3>2. Cache!Min({p}) = p
        BY DEF Cache!Min
      <3> QED
        BY <3>1, <3>2 DEF Cache!SelectInSeq
    <2>3. t = SubSeq(s, 1, p - 1) \o SubSeq(s, p + 1, Len(s))
      BY <1>2, <2>2 DEF Cache!RemoveFirst, Cache!RemoveAt
    <2> DEFINE a == SubSeq(s, 1, p - 1)
               b == SubSeq(s, p + 1, Len(s))
    <2>4. /\ a \in Seq(Urls) /\ Len(a) = p - 1 /\ \A i \in 1..(p - 1) : a[i] = s[i]
          /\ b \in Seq(Urls) /\ Len(b) = Len(s) - p /\ \A i \in 1..(Len(s) - p) : b[i] = s[p + i]
      OBVIOUS
    <2> HIDE DEF a, b, t
    <2>5. /\ t \in Seq(Urls) /\ Len(t) = Len(s) - 1 /\ Len(s) \in Nat
          /\ \A i \in 1..(p - 1) : t[i] = s[i]
          /\ \A i \in p..(Len(s) - 1) : t[i] = s[i + 1]
      <3>1. t = a \o b
        BY <2>3 DEF a, b
      <3>2. /\ t \in Seq(Urls) /\ Len(t) = Len(a) + Len(b) /\ Len(s) \in Nat
            /\ \A i \in 1..Len(t) : t[i] = IF i <= Len(a) THEN a[i] ELSE b[i - Len(a)]
        <4>1. a \in Seq(Urls) /\ b \in Seq(Urls) /\ Len(s) \in Nat
          BY <2>4
        <4>2. /\ a \o b \in Seq(Urls) /\ Len(a \o b) = Len(a) + Len(b)
              /\ \A i \in 1..(Len(a) + Len(b)) : (a \o b)[i] = IF i <= Len(a) THEN a[i] ELSE b[i - Len(a)]
          BY <4>1, ConcatProperties
        <4> QED
          BY <3>1, <4>1, <4>2
      <3>3. ASSUME NEW i \in 1..(p - 1) PROVE t[i] = s[i]
        <4>1. i \in 1..Len(t) /\ i <= Len(a)
          BY <2>1, <2>4, <3>2
        <4> QED
          BY <2>4, <3>2, <4>1
      <3>4. ASSUME NEW i \in p..(Len(s) - 1) PROVE t[i] = s[i + 1]
        <4>0. i \in 1..Len(t) /\ ~(i <= Len(a)) /\ Len(a) = p - 1
          BY <2>1, <2>4, <3>2
        <4>1. t[i] = b[i - (p - 1)] /\ i - (p - 1) \in 1..(Len(s) - p)
          BY <2>1, <3>2, <4>0
        <4>2. p + (i - (p - 1)) = i + 1
          BY <2>1
        <4> QED
          BY <2>4, <4>1, <4>2
      <3> QED
        BY <2>4, <3>2, <3>3, <3>4
    <2>6. ASSUME NEW i \in 1..Len(t), NEW j \in 1..Len(t), t[i] = t[j] PROVE i = j
      <3> DEFINE from(n) == IF n < p THEN n ELSE n + 1
      <3>1. \A n \in 1..Len(t) : from(n) \in 1..Len(s) /\ t[n] = s[from(n)]
        BY <2>1, <2>5
      <3>2. from(i) = from(j)
        <4> HIDE DEF from
        <4> QED
          BY <2>6, <3>1
      <3> QED
        BY <2>1, <3>2
    <2>7. \A i \in 1..Len(t) : t[i] \in Cache!Range(s) /\ t[i] # k
      BY <2>1, <2>5 DEF Cache!Range
    <2>8. \A i \in 1..Len(s) : s[i] # k => \E j \in 1..Len(t) : t[j] = s[i]
      <3> SUFFICES ASSUME NEW i \in 1..Len(s), s[i] # k PROVE \E j \in 1..Len(t) : t[j] = s[i]
        OBVIOUS
      <3>1. CASE i < p
        BY <2>1, <2>5, <3>1
      <3>2. CASE i > p
        <4>1. i - 1 \in p..(Len(s) - 1) /\ t[i - 1] = s[(i - 1) + 1] /\ (i - 1) + 1 = i
          BY <2>1, <2>5, <3>2
        <4> QED
          BY <2>5, <4>1
      <3> QED
        BY <2>1, <3>1, <3>2
    <2>9. Cache!Range(t) = Cache!Range(s) \ {k}
      <3>1. Cache!Range(t) = {t[i] : i \in 1..Len(t)}
        BY <2>5 DEF Cache!Range
      <3>2. Cache!Range(s) = {s[i] : i \in 1..Len(s)}
        BY DEF Cache!Range
      <3>3. Cache!Range(t) \subseteq Cache!Range(s) \ {k}
        BY <2>7, <3>1
      <3>4. ASSUME NEW x \in Cache!Range(s), x # k PROVE x \in Cache!Range(t)
        <4>1. PICK i \in 1..Len(s) : x = s[i]
          BY <3>2
        <4>2. PICK j \in 1..Len(t) : t[j] = s[i]
          BY <2>8, <3>4, <4>1
        <4> QED
          BY <3>1, <4>1, <4>2
      <3> QED
        BY <3>3, <3>4
    <2> QED
      BY <2>5, <2>6, <2>9 DEF t
  <1> QED
    BY <1>1, <1>2

LEMMA CacheInit == Cache!Init => CacheInv
  <1> SUFFICES ASSUME Cache!Init PROVE CacheInv
    OBVIOUS
  <1>1. keys = <<>> /\ Cache!Range(keys) = {} /\ Len(keys) = 0
    BY DEF Cache!Init, Cache!Range
  <1>2. Cardinality(Cache!Range(keys) \ Cache!Pending) = 0
    BY <1>1, FS_EmptySet
  <1> QED
    BY <1>1, <1>2, CacheConstants DEF Cache!Init, CacheInv

(* A smaller set of entries that neither wait for deletion nor are owed. *)
LEMMA FewerEntries ==
  ASSUME NEW S, NEW T, IsFiniteSet(T), S \subseteq T
  PROVE  IsFiniteSet(S) /\ Cardinality(S) \in Nat /\ Cardinality(T) \in Nat /\ Cardinality(S) <= Cardinality(T)
  BY FS_Subset, FS_CardinalityType

LEMMA CacheStepInv ==
  ASSUME CacheInv, Cache!Step
  PROVE  CacheInv'
  <1> USE CacheConstants
  <1> DEFINE Kept == Cache!Range(keys) \ Cache!Pending
  <1>0. /\ IsFiniteSet(Cache!Range(keys)) /\ IsFiniteSet(Kept) /\ Cardinality(Kept) \in Nat
        /\ Cardinality(Kept) <= MaxEntries + debt /\ debt \in Nat
    BY KeysAreFinite, FewerEntries DEF CacheInv
  <1>1. CASE Cache!Stop
    <2>1. /\ at' = [e \in Events |-> IF at[e] = "new" THEN "new" ELSE "done"]
          /\ doomed' = [e \in Events |-> {}]
          /\ debt' = debt + Cache!Cardinality(Cache!Pending)
          /\ UNCHANGED <<keys, url, mode, answered>>
      BY <1>1 DEF Cache!Stop
    <2>2. Cache!Pending \subseteq Cache!Range(keys)
      BY DEF Cache!Pending
    <2>3. IsFiniteSet(Cache!Pending) /\ Cardinality(Cache!Pending) \in Nat
      BY <1>0, <2>2, FewerEntries
    <2>4. Cache!Cardinality(Cache!Pending) = Cardinality(Cache!Pending)
      BY DEF Cache!Cardinality, Cardinality
    <2>5. Cache!Range(keys)' = Cache!Range(keys) /\ Cache!Pending' = {}
      BY <2>1 DEF Cache!Range, Cache!Pending
    <2>6. Cache!Range(keys) = Kept \union Cache!Pending /\ Kept \intersect Cache!Pending = {}
      BY <2>2
    <2>7. Cardinality(Cache!Range(keys)) = Cardinality(Kept) + Cardinality(Cache!Pending)
      <3> HIDE DEF Kept
      <3>1. Cardinality(Kept \intersect Cache!Pending) = 0
        BY <2>6, FS_EmptySet
      <3>2. Cardinality(Kept \union Cache!Pending)
              = Cardinality(Kept) + Cardinality(Cache!Pending) - Cardinality(Kept \intersect Cache!Pending)
        BY <1>0, <2>3, FS_Union
      <3> QED
        BY <1>0, <2>3, <2>6, <3>1, <3>2
    <2>8. Cardinality((Cache!Range(keys) \ Cache!Pending)') <= MaxEntries + debt'
      <3>1. (Cache!Range(keys) \ Cache!Pending)' = Cache!Range(keys)
        BY <2>5
      <3> HIDE DEF Kept
      <3>2. Cardinality(Cache!Range(keys)) <= MaxEntries + debt + Cardinality(Cache!Pending)
        BY <1>0, <2>3, <2>7
      <3>3. debt' = debt + Cardinality(Cache!Pending)
        BY <2>1, <2>4
      <3> QED
        BY <1>0, <2>3, <3>1, <3>2, <3>3
    <2>9. debt' \in Nat
      BY <1>0, <2>1, <2>3, <2>4
    <2> QED
      BY <2>1, <2>8, <2>9 DEF CacheInv
  <1>2. ASSUME NEW e \in Events, Cache!Dispatch(e) PROVE CacheInv'
    <2>1. /\ at[e] = "new" /\ at' = [at EXCEPT ![e] = "network"] /\ answered' \subseteq Events
          /\ UNCHANGED <<keys, url, mode, doomed, debt>>
      BY <1>2 DEF Cache!Dispatch, Cache!Goto, CacheInv
    <2>2. (Cache!Range(keys) \ Cache!Pending)' = Kept
      BY <2>1 DEF Cache!Range, Cache!Pending
    <2> QED
      BY <1>0, <2>1, <2>2 DEF CacheInv
  <1>3. ASSUME NEW e \in Events, Cache!NotStored(e) \/ Cache!Trimmed(e) PROVE CacheInv'
    <2>1. /\ at[e] = "network" \/ doomed[e] = {}
          /\ at' = [at EXCEPT ![e] = "done"] /\ answered' \subseteq Events
          /\ UNCHANGED <<keys, url, mode, doomed, debt>>
      BY <1>3 DEF Cache!NotStored, Cache!Trimmed, Cache!Finish, Cache!Goto, CacheInv
    <2>2. (Cache!Range(keys) \ Cache!Pending)' = Kept
      BY <2>1 DEF Cache!Range, Cache!Pending
    <2>3. doomed[e] = {}
      BY <2>1 DEF CacheInv
    <2> QED
      BY <1>0, <2>1, <2>2, <2>3 DEF CacheInv
  <1>4. ASSUME NEW e \in Events, Cache!Put(e) PROVE CacheInv'
    <2> DEFINE fewer == Cache!RemoveFirst(keys, url[e])
    <2>1. /\ at[e] = "network" /\ at' = [at EXCEPT ![e] = "trim"] /\ debt' = debt + 1
          /\ keys' = Append(fewer, url[e])
          /\ UNCHANGED <<url, mode, doomed, answered>>
      BY <1>4 DEF Cache!Put, Cache!Goto
    <2>2. url[e] \in Urls
      BY DEF CacheInv
    <2>3. /\ fewer \in Seq(Urls) /\ \A i, j \in 1..Len(fewer) : fewer[i] = fewer[j] => i = j
          /\ Cache!Range(fewer) = Cache!Range(keys) \ {url[e]}
      BY <2>2, OneFewer DEF CacheInv
    <2> HIDE DEF fewer
    <2>4. /\ keys' \in Seq(Urls) /\ Len(keys') = Len(fewer) + 1 /\ keys'[Len(keys')] = url[e]
          /\ \A i \in 1..Len(fewer) : keys'[i] = fewer[i]
          /\ Len(fewer) \in Nat
      BY <2>1, <2>2, <2>3
    <2>5. \A i \in 1..Len(fewer) : fewer[i] # url[e]
      BY <2>3 DEF Cache!Range
    <2>6. \A i, j \in 1..Len(keys') : keys'[i] = keys'[j] => i = j
      BY <2>3, <2>4, <2>5
    <2>7. Cache!Range(keys') = Cache!Range(keys) \union {url[e]}
      <3>1. Cache!Range(keys') = Cache!Range(fewer) \union {url[e]}
        BY <2>3, <2>4 DEF Cache!Range
      <3>2. Cache!Range(fewer) \union {url[e]} = Cache!Range(keys) \union {url[e]}
        BY <2>3
      <3> QED
        BY <3>1, <3>2
    <2>8. Cache!Pending' = (UNION {doomed[f] : f \in Events}) \intersect Cache!Range(keys')
      BY <2>1 DEF Cache!Pending
    <2>9. (Cache!Range(keys) \ Cache!Pending)' \subseteq Kept \union {url[e]}
      BY <2>7, <2>8 DEF Cache!Pending
    <2>10. Cardinality((Cache!Range(keys) \ Cache!Pending)') <= MaxEntries + debt'
      <3> HIDE DEF Kept
      <3>1. IsFiniteSet(Kept \union {url[e]}) /\ Cardinality(Kept \union {url[e]}) <= Cardinality(Kept) + 1
        BY <1>0, FS_AddElement
      <3> QED
        BY <1>0, <2>1, <2>9, <3>1, FewerEntries
    <2>11. at' \in [Events -> {"new", "network", "trim", "delete", "done"}]
           /\ \A f \in Events : doomed'[f] # {} => at'[f] = "delete"
      BY <2>1 DEF CacheInv
    <2>12. debt' \in Nat
      BY <1>0, <2>1
    <2> QED
      BY <2>1, <2>4, <2>6, <2>10, <2>11, <2>12 DEF CacheInv
  <1>5. ASSUME NEW e \in Events, Cache!Survey(e) PROVE CacheInv'
    <2> DEFINE o == Cache!Overflow
               first == Cache!Range(SubSeq(keys, 1, o))
               rest == (o + 1)..Len(keys)
    <2>1. /\ at[e] = "trim" /\ at' = [at EXCEPT ![e] = "delete"] /\ debt' = 0
          /\ doomed' = [doomed EXCEPT ![e] = first]
          /\ UNCHANGED <<keys, url, mode, answered>>
      BY <1>5 DEF Cache!Survey, Cache!Goto
    <2>2. /\ o \in 0..Len(keys) /\ Len(keys) - o <= MaxEntries /\ Len(keys) \in Nat
      BY DEF Cache!Overflow, CacheInv
    <2>3. /\ first = {keys[i] : i \in 1..o} /\ first \subseteq Urls
          /\ Cache!Range(keys) = {keys[i] : i \in 1..Len(keys)}
      <3>1. keys \in Seq(Urls) /\ SubSeq(keys, 1, o) = [i \in 1..o |-> keys[i]]
        BY <2>2 DEF CacheInv
      <3> HIDE DEF o
      <3>2. /\ DOMAIN keys = 1..Len(keys) /\ \A i \in 1..Len(keys) : keys[i] \in Urls
            /\ \A i \in 1..o : i \in 1..Len(keys)
        BY <2>2, <3>1
      <3>3. first = {keys[i] : i \in 1..o}
        BY <3>1 DEF Cache!Range
      <3>4. Cache!Range(keys) = {keys[i] : i \in 1..Len(keys)}
        BY <3>2 DEF Cache!Range
      <3> QED
        BY <3>2, <3>3, <3>4
    <2>4. doomed[e] = {}
      BY <2>1 DEF CacheInv
    <2> HIDE DEF o, first
    <2>5. first \subseteq UNION {doomed'[f] : f \in Events}
      BY <2>1 DEF CacheInv
    <2>6. (Cache!Range(keys) \ Cache!Pending)' \subseteq {keys[i] : i \in rest}
      <3>1. Cache!Range(keys)' = Cache!Range(keys)
        BY <2>1 DEF Cache!Range
      <3>2. first \intersect Cache!Range(keys) \subseteq Cache!Pending'
        BY <2>5, <3>1 DEF Cache!Pending
      <3>3. Cache!Range(keys) \ first \subseteq {keys[i] : i \in rest}
        BY <2>2, <2>3
      <3> QED
        BY <3>1, <3>2, <3>3
    <2>7. IsFiniteSet({keys[i] : i \in rest}) /\ Cardinality({keys[i] : i \in rest}) <= MaxEntries
      <3>1. IsFiniteSet(rest) /\ Cardinality(rest) <= MaxEntries /\ Cardinality(rest) \in Nat
        <4>1. o + 1 \in Int /\ Len(keys) \in Int /\ Len(keys) - (o + 1) + 1 = Len(keys) - o
          BY <2>2
        <4>2. IsFiniteSet(rest) /\ Cardinality(rest) = IF o + 1 > Len(keys) THEN 0 ELSE Len(keys) - (o + 1) + 1
          BY <4>1, FS_Interval
        <4> HIDE DEF rest
        <4> QED
          BY <2>2, <4>1, <4>2
      <3> HIDE DEF rest
      <3>2. IsFiniteSet({keys[i] : i \in rest}) /\ Cardinality({keys[i] : i \in rest}) <= Cardinality(rest)
        BY <3>1, ImageIsSmaller
      <3> QED
        BY <3>1, <3>2, FS_CardinalityType
    <2>8. Cardinality((Cache!Range(keys) \ Cache!Pending)') <= MaxEntries + debt'
      <3> HIDE DEF rest
      <3> QED
        BY <2>1, <2>6, <2>7, FewerEntries
    <2>9. /\ at' \in [Events -> {"new", "network", "trim", "delete", "done"}]
          /\ doomed' \in [Events -> SUBSET Urls]
          /\ \A f \in Events : doomed'[f] # {} => at'[f] = "delete"
      BY <2>1, <2>3 DEF CacheInv
    <2> QED
      BY <2>1, <2>8, <2>9 DEF CacheInv
  <1>6. ASSUME NEW e \in Events, Cache!Delete(e) PROVE CacheInv'
    <2>1. PICK k \in doomed[e] :
            keys' = Cache!RemoveFirst(keys, k) /\ doomed' = [doomed EXCEPT ![e] = @ \ {k}]
      BY <1>6 DEF Cache!Delete
    <2>2. at[e] = "delete" /\ UNCHANGED <<at, url, mode, answered, debt>>
      BY <1>6 DEF Cache!Delete
    <2>3. k \in Urls
      BY DEF CacheInv
    <2>4. /\ keys' \in Seq(Urls) /\ \A i, j \in 1..Len(keys') : keys'[i] = keys'[j] => i = j
          /\ Cache!Range(keys') = Cache!Range(keys) \ {k}
      BY <2>1, <2>3, OneFewer DEF CacheInv
    <2>5. doomed' \in [Events -> SUBSET Urls] /\ \A f \in Events : doomed'[f] # {} => at'[f] = "delete"
      BY <2>1, <2>2 DEF CacheInv
    <2>6. (UNION {doomed[f] : f \in Events}) \ {k} \subseteq UNION {doomed'[f] : f \in Events}
      <3>1. \A f \in Events : doomed[f] \ {k} \subseteq doomed'[f]
        BY <2>1 DEF CacheInv
      <3> QED
        BY <3>1
    <2>7. (Cache!Range(keys) \ Cache!Pending)' \subseteq Kept
      <3>1. Cache!Range(keys)' = Cache!Range(keys')
        BY DEF Cache!Range
      <3>2. Cache!Pending' = (UNION {doomed'[f] : f \in Events}) \intersect Cache!Range(keys')
        BY DEF Cache!Pending, Cache!Range
      <3> DEFINE Condemned == UNION {doomed[f] : f \in Events}
                 Condemned2 == UNION {doomed'[f] : f \in Events}
      <3>3. Condemned \ {k} \subseteq Condemned2 /\ Cache!Pending = Condemned \intersect Cache!Range(keys)
        BY <2>6 DEF Cache!Pending
      <3>4. Cache!Pending' = Condemned2 \intersect Cache!Range(keys')
        BY <3>2
      <3> HIDE DEF Condemned, Condemned2
      <3> QED
        BY <2>4, <3>1, <3>3, <3>4
    <2>8. Cardinality((Cache!Range(keys) \ Cache!Pending)') <= MaxEntries + debt'
      <3> HIDE DEF Kept
      <3> QED
        BY <1>0, <2>2, <2>7, FewerEntries
    <2> QED
      BY <1>0, <2>2, <2>4, <2>5, <2>8 DEF CacheInv
  <1> QED
    BY <1>1, <1>2, <1>3, <1>4, <1>5, <1>6 DEF Cache!Step

LEMMA CacheKeepsItsBound ==
  ASSUME CacheInv
  PROVE  Cache!TypeOK /\ Cache!CacheBounded
  <1>1. Cache!CacheBounded
    <2>1. Cache!Cardinality(Cache!Range(keys) \ Cache!Pending) = Cardinality(Cache!Range(keys) \ Cache!Pending)
      BY DEF Cache!Cardinality, Cardinality
    <2> QED
      BY <2>1 DEF CacheInv, Cache!CacheBounded
  <1>2. Cache!IsInjective(keys)
    BY DEF CacheInv, Cache!IsInjective
  <1> QED
    BY <1>1, <1>2 DEF CacheInv, Cache!TypeOK

-----------------------------------------------------------------------------
(* LoginThrottle: a request that holds the row of its key holds it as it is,   *)
(* but for the window; a row counts the failures since its window began; and  *)
(* no failure is as late as the end of the window.                           *)

Row == [count : Nat, start : Times \union {Never}, until : 0..(MaxTime + Block) \union {Never}]
Miss == [time : Times, nr : Nat]
Holding == {"user", "judge", "clear", "record"}

ThrottleTyped ==
  /\ clock \in Times /\ known \in BOOLEAN
  /\ throttle \in Row
  /\ throttle.count = 0 <=> throttle = NoRow
  /\ throttle # NoRow => throttle.start \in Times
  /\ stage \in [Workers -> Stages]
  /\ now \in [Workers -> Times \union {Never}] /\ entered \in [Workers -> Times \union {Never}]
  /\ seen \in [Workers -> Row]
  /\ misses \subseteq Miss /\ IsFiniteSet(misses)
  /\ rowLock \in Workers \union {NoWorker} /\ userLock \in Workers \union {NoWorker}
  /\ inserter \in Workers \union {NoWorker}

LocksHeld ==
  /\ rowLock # NoWorker => stage[rowLock] \in Holding /\ throttle # NoRow
  /\ userLock # NoWorker => stage[userLock] \notin {"idle", "enforce", "user"}
  /\ inserter # NoWorker => stage[inserter] = "inserted" /\ throttle = NoRow

RequestKnows(w) ==
  /\ stage[w] = "inserted" => inserter = w
  /\ stage[w] \in {"record", "insert", "inserted", "reselect"} => now[w] \in Times
  /\ seen[w] # NoRow =>
       /\ rowLock = w /\ entered[w] \in Times
       /\ throttle.until <= entered[w] /\ seen[w] = Current(throttle, entered[w])

(* The failures of some instants among those of a set *)
Tally(set, times) == Cardinality({m \in set : m.time \in times})

(* and with one more, numbered anew *)
OneMore(set, time) == set \union {[time |-> time, nr |-> Tally(set, {time}) + 1]}

Since(time) == {t \in Times : t >= time}

(* A row is right about a set of failures. *)
RightAbout(r, set) ==
  /\ \A m \in set : m.time < r.start + Window
  /\ Tally(set, Since(r.start)) <= r.count /\ r.count <= Tally(set, Times)

MissesCounted ==
  /\ \A m \in misses : m.nr <= Tally(misses, {m.time})
  /\ IF throttle = NoRow THEN misses = {} ELSE RightAbout(throttle, misses)

ThrottleInv ==
  /\ ThrottleTyped /\ LocksHeld /\ MissesCounted
  /\ \A w \in Workers : RequestKnows(w)

LEMMA ThrottleConstants ==
  /\ NoWorker \notin Workers /\ MaxFailures \in Nat /\ MaxFailures >= 1 /\ Window \in Nat /\ Window >= 1
  /\ Block \in Nat /\ Block >= 1 /\ MaxTime \in Nat
  /\ Times = 0..MaxTime /\ Never = -1 /\ Never \notin Times
  BY ThrottleAssumption DEF Times, Never

LEMMA ThrottleInit == Init => ThrottleInv
  <1> SUFFICES ASSUME Init PROVE ThrottleInv
    OBVIOUS
  <1> USE ThrottleConstants
  <1>1. NoRow \in Row /\ NoRow.count = 0 /\ IsFiniteSet({})
    BY FS_EmptySet DEF NoRow, Row
  <1>2. ThrottleTyped
    BY <1>1 DEF Init, ThrottleTyped, Stages
  <1> QED
    BY <1>1, <1>2 DEF Init, ThrottleInv, LocksHeld, MissesCounted, RequestKnows

LEMMA TallyProperties ==
  ASSUME NEW set, IsFiniteSet(set), NEW times
  PROVE  IsFiniteSet({m \in set : m.time \in times}) /\ Tally(set, times) \in Nat
  BY FS_Subset, FS_CardinalityType DEF Tally

(* A failure is numbered anew, and counted in the instants it belongs to. *)
LEMMA TallyOneFailure ==
  ASSUME NEW set, set \subseteq Miss, IsFiniteSet(set), NEW t \in Times,
         \A m \in set : m.nr <= Tally(set, {m.time})
  PROVE  /\ OneMore(set, t) \subseteq Miss /\ IsFiniteSet(OneMore(set, t))
         /\ \A times : Tally(OneMore(set, t), times) = IF t \in times THEN Tally(set, times) + 1 ELSE Tally(set, times)
  <1> DEFINE m == [time |-> t, nr |-> Tally(set, {t}) + 1]
             more == OneMore(set, t)
  <1>0. more = set \union {m}
    BY DEF OneMore
  <1>1. Tally(set, {t}) \in Nat
    BY TallyProperties
  <1>2. m \in Miss /\ m.time = t /\ m.nr = Tally(set, {t}) + 1
    BY <1>1 DEF Miss
  <1> HIDE DEF m, more
  <1>3. m \notin set
    <2> SUFFICES ASSUME m \in set PROVE FALSE
      OBVIOUS
    <2>1. m.nr <= Tally(set, {t})
      BY <1>2
    <2> QED
      BY <1>1, <1>2, <2>1
  <1>4. more \subseteq Miss /\ IsFiniteSet(more)
    <2>1. IsFiniteSet(set \union {m})
      BY FS_AddElement
    <2> QED
      BY <1>0, <1>2, <2>1
  <1>5. ASSUME NEW times PROVE Tally(more, times) = IF t \in times THEN Tally(set, times) + 1 ELSE Tally(set, times)
    <2> DEFINE old == {n \in set : n.time \in times}
    <2>1. IsFiniteSet(old) /\ Tally(set, times) \in Nat /\ Tally(set, times) = Cardinality(old)
      BY TallyProperties DEF Tally
    <2>2. CASE t \in times
      <3>1. {n \in more : n.time \in times} = old \union {m} /\ m \notin old
        BY <1>0, <1>2, <1>3, <2>2
      <3> HIDE DEF old
      <3>2. Cardinality(old \union {m}) = Cardinality(old) + 1
        BY <2>1, <3>1, FS_AddElement
      <3> QED
        BY <2>1, <2>2, <3>1, <3>2 DEF Tally
    <2>3. CASE t \notin times
      <3>1. {n \in more : n.time \in times} = old
        BY <1>0, <1>2, <2>3
      <3>2. Tally(more, times) = Tally(set, times)
        BY <3>1 DEF Tally
      <3> QED
        BY <2>1, <2>3, <3>2
    <2> QED
      BY <2>2, <2>3
  <1> QED
    BY <1>4, <1>5 DEF more

(* The row as a request may hold it: as it is, or afresh after its window *)
ReadAs(r) ==
  r = throttle \/ \E e \in Times : r = Fresh(e) /\ throttle.start + Window <= e

(* Counting a failure in such a row makes a row that is right about it. *)
LEMMA CountedIsRight ==
  ASSUME ThrottleTyped, MissesCounted, throttle # NoRow, NEW r, ReadAs(r), NEW t \in Times
  PROVE  LET next == Counted(r, t)
             more == OneMore(misses, t)
         IN  /\ next \in Row /\ next.count # 0 /\ next.start \in Times
             /\ RightAbout(next, more)
  <1> USE ThrottleConstants
  <1> DEFINE next == Counted(r, t)
             more == OneMore(misses, t)
             cur == Current(r, t)
  <1>1. /\ throttle \in Row /\ throttle.start \in Times /\ throttle.count \in Nat
        /\ misses \subseteq Miss /\ IsFiniteSet(misses)
        /\ \A n \in misses : n.time \in Times /\ n.time < throttle.start + Window
        /\ \A n \in misses : n.nr <= Tally(misses, {n.time})
        /\ Tally(misses, Since(throttle.start)) <= throttle.count /\ throttle.count <= Tally(misses, Times)
    BY DEF ThrottleTyped, MissesCounted, RightAbout, Row, Miss
  <1>2. Tally(misses, Times) \in Nat /\ \A s : Tally(misses, Since(s)) \in Nat
    BY <1>1, TallyProperties
  <1>3. /\ Tally(more, Times) = Tally(misses, Times) + 1
        /\ \A s \in Times :
             Tally(more, Since(s)) = IF t \in Since(s) THEN Tally(misses, Since(s)) + 1 ELSE Tally(misses, Since(s))
    <2>1. \A times : Tally(more, times) = IF t \in times THEN Tally(misses, times) + 1 ELSE Tally(misses, times)
      BY <1>1, TallyOneFailure
    <2> HIDE DEF more
    <2>2. Tally(more, Times) = Tally(misses, Times) + 1
      BY <2>1
    <2>3. ASSUME NEW s \in Times
          PROVE  Tally(more, Since(s)) = IF t \in Since(s) THEN Tally(misses, Since(s)) + 1 ELSE Tally(misses, Since(s))
      BY <2>1
    <2> QED
      BY <2>2, <2>3
  <1>4. /\ r \in Row /\ r.start \in Times /\ r.count \in Nat
        /\ throttle.start <= r.start
        /\ Tally(misses, Since(r.start)) <= r.count /\ r.count <= Tally(misses, Times)
    <2>1. CASE r = throttle
      BY <1>1, <2>1
    <2>2. CASE \E e \in Times : r = Fresh(e) /\ throttle.start + Window <= e
      <3>1. PICK e \in Times : r = Fresh(e) /\ throttle.start + Window <= e
        BY <2>2
      <3>2. r \in Row /\ r.start = e /\ r.count = 0
        BY <3>1 DEF Fresh, Row
      <3>3. {n \in misses : n.time \in Since(e)} = {}
        BY <1>1, <3>1 DEF Since
      <3>4. Tally(misses, Since(e)) = 0
        BY <3>3, FS_EmptySet DEF Tally
      <3> QED
        BY <1>1, <1>2, <3>1, <3>2, <3>4
    <2> QED
      BY <2>1, <2>2 DEF ReadAs
  <1>5. /\ cur \in Row /\ cur.start \in Times /\ cur.count \in Nat
        /\ throttle.start <= cur.start /\ t < cur.start + Window
        /\ Tally(misses, Since(cur.start)) + (IF t \in Since(cur.start) THEN 1 ELSE 0) <= cur.count + 1
        /\ cur.count <= Tally(misses, Times)
    <2>1. CASE r.start + Window <= t
      <3>1. cur = Fresh(t)
        BY <2>1 DEF Current
      <3>2. cur \in Row /\ cur.start = t /\ cur.count = 0
        BY <3>1 DEF Fresh, Row
      <3>3. {n \in misses : n.time \in Since(t)} = {}
        BY <1>1, <1>4, <2>1 DEF Since
      <3>4. Tally(misses, Since(t)) = 0
        BY <3>3, FS_EmptySet DEF Tally
      <3> HIDE DEF cur
      <3> QED
        BY <1>1, <1>2, <1>4, <2>1, <3>2, <3>4
    <2>2. CASE ~(r.start + Window <= t)
      <3>1. cur = r
        BY <2>2 DEF Current
      <3> HIDE DEF cur
      <3>2. Tally(misses, Since(r.start)) \in Nat
        BY <1>2
      <3>3. /\ r \in Row /\ r.start \in Times /\ r.count \in Nat
            /\ Tally(misses, Since(r.start)) <= r.count /\ r.count <= Tally(misses, Times)
            /\ throttle.start <= r.start
        BY <1>1, <1>2, <1>4
      <3>4. t < r.start + Window
        BY <1>1, <2>2, <3>3
      <3> QED
        BY <3>1, <3>2, <3>3, <3>4
    <2> QED
      BY <2>1, <2>2
  <1> DEFINE half == [cur EXCEPT !.count = @ + 1]
  <1>6. half \in Row /\ half.count = cur.count + 1 /\ half.start = cur.start /\ half.until = cur.until
    <2> HIDE DEF cur
    <2> QED
      BY <1>5 DEF Row
  <1>7. next = [half EXCEPT !.until = BlockedUntil(half, t)]
    BY DEF Counted
  <1>8. BlockedUntil(half, t) \in 0..(MaxTime + Block) \union {Never}
    <2> HIDE DEF half
    <2> QED
      BY <1>6 DEF BlockedUntil, Row
  <1>9. next \in Row /\ next.count = cur.count + 1 /\ next.start = cur.start
    <2> HIDE DEF half, cur, next
    <2> QED
      BY <1>6, <1>7, <1>8 DEF Row
  <1> HIDE DEF next, cur
  <1>10. \A n \in more : n.time < cur.start + Window
    BY <1>1, <1>5 DEF OneMore
  <1> HIDE DEF more
  <1>11. RightAbout(next, more)
    <2>1. /\ next.count = cur.count + 1 /\ next.start = cur.start
          /\ cur.start \in Times /\ cur.count \in Nat
      BY <1>5, <1>9
    <2>2. Tally(more, Since(cur.start)) <= cur.count + 1
      <3>1. Tally(more, Since(cur.start)) =
              IF t \in Since(cur.start) THEN Tally(misses, Since(cur.start)) + 1 ELSE Tally(misses, Since(cur.start))
        BY <1>3, <2>1
      <3>2. Tally(misses, Since(cur.start)) \in Nat
        BY <1>2, <2>1
      <3> QED
        BY <1>5, <3>1, <3>2
    <2>3. cur.count + 1 <= Tally(more, Times)
      BY <1>2, <1>3, <1>5, <2>1
    <2> QED
      BY <1>10, <2>1, <2>2, <2>3 DEF RightAbout
  <1> QED
    BY <1>5, <1>9, <1>11 DEF next, more

(* The end of a request's transaction *)
LEMMA Ended ==
  ASSUME ThrottleInv, NEW w \in Workers, End(w)
  PROVE  /\ stage' = [stage EXCEPT ![w] = "idle"] /\ seen' = [seen EXCEPT ![w] = NoRow]
         /\ now' = [now EXCEPT ![w] = Never] /\ entered' = [entered EXCEPT ![w] = Never]
         /\ stage' \in [Workers -> Stages] /\ seen' \in [Workers -> Row]
         /\ now' \in [Workers -> Times \union {Never}] /\ entered' \in [Workers -> Times \union {Never}]
         /\ rowLock' \in {rowLock, NoWorker} \ {w} /\ userLock' \in {userLock, NoWorker} \ {w}
         /\ inserter' \in {inserter, NoWorker} \ {w}
         /\ \A v \in Workers : v # w =>
              /\ stage'[v] = stage[v] /\ seen'[v] = seen[v] /\ now'[v] = now[v] /\ entered'[v] = entered[v]
              /\ (rowLock = v => rowLock' = v) /\ (inserter = v => inserter' = v)
         /\ stage'[w] = "idle" /\ seen'[w] = NoRow
  <1>1. NoRow \in Row /\ "idle" \in Stages
    BY ThrottleConstants DEF NoRow, Row, Stages
  <1>2. /\ stage' = [stage EXCEPT ![w] = "idle"] /\ seen' = [seen EXCEPT ![w] = NoRow]
        /\ now' = [now EXCEPT ![w] = Never] /\ entered' = [entered EXCEPT ![w] = Never]
        /\ stage' \in [Workers -> Stages] /\ seen' \in [Workers -> Row]
        /\ now' \in [Workers -> Times \union {Never}] /\ entered' \in [Workers -> Times \union {Never}]
    BY <1>1 DEF End, Goto, ThrottleInv, ThrottleTyped
  <1>3. /\ rowLock' \in {rowLock, NoWorker} \ {w} /\ userLock' \in {userLock, NoWorker} \ {w}
        /\ inserter' \in {inserter, NoWorker} \ {w}
        /\ \A v \in Workers : v # w => (rowLock = v => rowLock' = v) /\ (inserter = v => inserter' = v)
    BY ThrottleConstants DEF End
  <1>4. /\ \A v \in Workers : v # w =>
             stage'[v] = stage[v] /\ seen'[v] = seen[v] /\ now'[v] = now[v] /\ entered'[v] = entered[v]
        /\ stage'[w] = "idle" /\ seen'[w] = NoRow
    BY <1>2 DEF ThrottleInv, ThrottleTyped
  <1> QED
    BY <1>2, <1>3, <1>4

(* A request ends, and the row is as before. *)
LEMMA EndsAsItWas ==
  ASSUME ThrottleInv, NEW w \in Workers, End(w), UNCHANGED <<clock, known, throttle, misses>>
  PROVE  ThrottleInv'
  <1> USE ThrottleConstants
  <1>1. ThrottleTyped'
    BY Ended DEF ThrottleInv, ThrottleTyped
  <1>2. LocksHeld'
    BY Ended DEF ThrottleInv, ThrottleTyped, LocksHeld
  <1>3. MissesCounted'
    BY DEF ThrottleInv, MissesCounted, RightAbout, Tally, Since
  <1>4. ASSUME NEW v \in Workers PROVE RequestKnows(v)'
    <2>1. Current(throttle, entered'[v]) = Current(throttle', entered'[v])
      OBVIOUS
    <2> QED
      BY <2>1, Ended DEF ThrottleInv, RequestKnows, Current
  <1> QED
    BY <1>1, <1>2, <1>3, <1>4 DEF ThrottleInv

(* A failure is counted by a request, which nobody else's lock forbids. *)
LEMMA Answered ==
  ASSUME ThrottleInv, NEW w \in Workers, NEW r, now[w] \in Times,
         throttle' = Counted(r, now[w]),
         misses' = OneMore(misses, now[w]),
         End(w), UNCHANGED <<clock, known>>,
         Counted(r, now[w]) \in Row, Counted(r, now[w]).count # 0, Counted(r, now[w]).start \in Times,
         RightAbout(Counted(r, now[w]), OneMore(misses, now[w])),
         rowLock \in {NoWorker, w}, inserter \in {NoWorker, w}
  PROVE  ThrottleInv'
  <1> USE ThrottleConstants
  <1>1. throttle' \in Row /\ throttle'.count # 0 /\ throttle'.start \in Times /\ throttle' # NoRow
    BY DEF NoRow
  <1>2. misses \subseteq Miss /\ IsFiniteSet(misses) /\ \A m \in misses : m.nr <= Tally(misses, {m.time})
    BY DEF ThrottleInv, ThrottleTyped, MissesCounted
  <1>3. misses' \subseteq Miss /\ IsFiniteSet(misses')
    BY <1>2, TallyOneFailure
  <1>8. \A times : Tally(misses', times) = IF now[w] \in times THEN Tally(misses, times) + 1 ELSE Tally(misses, times)
    <2>1. \A times : Tally(OneMore(misses, now[w]), times)
                      = IF now[w] \in times THEN Tally(misses, times) + 1 ELSE Tally(misses, times)
      BY <1>2, TallyOneFailure
    <2> QED
      BY <2>1
  <1>4. ThrottleTyped'
    BY <1>1, <1>3, Ended DEF ThrottleInv, ThrottleTyped
  <1>5. LocksHeld'
    BY <1>1, Ended DEF ThrottleInv, ThrottleTyped, LocksHeld
  <1>6. MissesCounted'
    <2>1. \A m \in misses' : m.nr <= Tally(misses', {m.time})
      <3> SUFFICES ASSUME NEW m \in misses' PROVE m.nr <= Tally(misses', {m.time})
        OBVIOUS
      <3>1. /\ Tally(misses', {m.time}) =
                 IF now[w] \in {m.time} THEN Tally(misses, {m.time}) + 1 ELSE Tally(misses, {m.time})
            /\ Tally(misses, {m.time}) \in Nat
        BY <1>2, <1>8, TallyProperties
      <3>2. m.nr \in Nat
        BY <1>3 DEF Miss
      <3>3. CASE m \in misses
        BY <1>2, <3>1, <3>2, <3>3
      <3>4. CASE m = [time |-> now[w], nr |-> Tally(misses, {now[w]}) + 1]
        BY <3>1, <3>4
      <3> QED
        BY <3>3, <3>4 DEF OneMore
    <2>2. RightAbout(throttle', misses')
      OBVIOUS
    <2> QED
      BY <1>1, <2>1, <2>2 DEF MissesCounted, RightAbout, Tally, Since
  <1>7. ASSUME NEW v \in Workers PROVE RequestKnows(v)'
    BY <1>1, Ended DEF ThrottleInv, RequestKnows
  <1> QED
    BY <1>4, <1>5, <1>6, <1>7 DEF ThrottleInv

LEMMA CountsKept ==
  ASSUME MissesCounted, UNCHANGED <<throttle, misses>>
  PROVE  MissesCounted'
  BY DEF MissesCounted, RightAbout, Tally, Since

(* A request goes on, to a stage that keeps its lock, with or without a new    *)
(* clock reading, account lock or place in the index.                        *)
LEMMA GoesOn ==
  ASSUME ThrottleInv, NEW w \in Workers, NEW s \in Stages, Goto(w, s),
         UNCHANGED <<clock, known, throttle, misses, rowLock, seen, entered>>,
         rowLock = w => s \in Holding,
         now' = now \/ now' = [now EXCEPT ![w] = clock],
         s \in {"record", "insert", "inserted", "reselect"} => now'[w] \in Times,
         userLock' \in {userLock, w}, userLock' = w => s \notin {"idle", "enforce", "user"},
         \/ inserter' = inserter /\ s # "inserted" /\ stage[w] # "inserted"
         \/ inserter' = w /\ s = "inserted" /\ throttle = NoRow /\ inserter = NoWorker
  PROVE  ThrottleInv'
  <1> USE ThrottleConstants
  <1>1. /\ stage' \in [Workers -> Stages] /\ stage'[w] = s /\ now' \in [Workers -> Times \union {Never}]
        /\ \A v \in Workers : v # w => stage'[v] = stage[v] /\ now'[v] = now[v]
    BY DEF Goto, ThrottleInv, ThrottleTyped
  <1>2. ThrottleTyped'
    BY <1>1 DEF ThrottleInv, ThrottleTyped
  <1>3. LocksHeld'
    BY <1>1 DEF ThrottleInv, ThrottleTyped, LocksHeld
  <1>4. ASSUME NEW v \in Workers PROVE RequestKnows(v)'
    <2>1. RequestKnows(v)
      BY DEF ThrottleInv
    <2>2. stage'[v] = "inserted" => inserter' = v
      BY <1>1, <2>1 DEF RequestKnows, ThrottleInv, LocksHeld
    <2>3. stage'[v] \in {"record", "insert", "inserted", "reselect"} => now'[v] \in Times
      BY <1>1, <2>1 DEF RequestKnows
    <2> QED
      BY <2>1, <2>2, <2>3 DEF RequestKnows, Current
  <1>5. MissesCounted'
    BY CountsKept DEF ThrottleInv
  <1> QED
    BY <1>2, <1>3, <1>4, <1>5 DEF ThrottleInv

LEMMA StagesDiffer ==
  {"idle", "enforce", "user", "judge", "clear", "record", "insert", "inserted", "reselect"} = Stages
  BY DEF Stages

LEMMA ThrottleStepInv ==
  ASSUME ThrottleInv, Next
  PROVE  ThrottleInv'
  <1> USE ThrottleConstants
  <1>1. CASE Tick
    <2>1. clock' \in Times /\ clock <= clock' /\ UNCHANGED <<known, table, locks, stage, own>>
      BY <1>1 DEF Tick, ThrottleInv, ThrottleTyped
    <2>2. MissesCounted'
      BY <2>1, CountsKept DEF ThrottleInv, table
    <2> QED
      BY <2>1, <2>2 DEF ThrottleInv, ThrottleTyped, LocksHeld, RequestKnows, Current, table, locks, own
  <1>2. CASE CreateAccount
    <2>1. known' \in BOOLEAN /\ UNCHANGED <<clock, table, locks, stage, own>>
      BY <1>2 DEF CreateAccount
    <2>2. MissesCounted'
      BY <2>1, CountsKept DEF ThrottleInv, table
    <2> QED
      BY <2>1, <2>2 DEF ThrottleInv, ThrottleTyped, LocksHeld, RequestKnows, Current, table, locks, own
  <1>3. ASSUME NEW w \in Workers, Arrive(w) PROVE ThrottleInv'
    <2>1. /\ stage[w] = "idle" /\ Goto(w, "enforce")
          /\ UNCHANGED <<clock, known, throttle, misses, rowLock, userLock, inserter, seen, now, entered>>
      BY <1>3 DEF Arrive, table, locks, own
    <2>2. rowLock # w /\ userLock # w
      BY <2>1 DEF ThrottleInv, LocksHeld, Holding
    <2> QED
      BY <2>1, <2>2, GoesOn, StagesDiffer
  <1>4. ASSUME NEW w \in Workers, FindNone(w) PROVE ThrottleInv'
    <2>1. /\ stage[w] = "enforce" /\ throttle = NoRow /\ stage' = [stage EXCEPT ![w] = "user"]
          /\ entered' = [entered EXCEPT ![w] = clock]
          /\ UNCHANGED <<clock, known, throttle, misses, rowLock, userLock, inserter, seen, now>>
      BY <1>4 DEF FindNone, Goto, table, locks
    <2>2. rowLock = NoWorker /\ userLock # w /\ inserter # w
      BY <2>1 DEF ThrottleInv, LocksHeld
    <2>3. /\ stage' \in [Workers -> Stages] /\ entered' \in [Workers -> Times \union {Never}]
          /\ stage'[w] = "user"
          /\ \A v \in Workers : v # w => stage'[v] = stage[v] /\ entered'[v] = entered[v]
      BY <2>1, StagesDiffer DEF ThrottleInv, ThrottleTyped
    <2>4. ThrottleTyped' /\ LocksHeld'
      BY <2>1, <2>2, <2>3 DEF ThrottleInv, ThrottleTyped, LocksHeld
    <2>5. ASSUME NEW v \in Workers PROVE RequestKnows(v)'
      <3>1. seen[v] = NoRow
        BY <2>2 DEF ThrottleInv, RequestKnows
      <3> QED
        BY <2>1, <2>3, <3>1 DEF ThrottleInv, RequestKnows
    <2> QED
      BY <2>1, <2>4, <2>5, CountsKept DEF ThrottleInv
  <1>5. ASSUME NEW w \in Workers, Pass(w) PROVE ThrottleInv'
    <2>1. /\ stage[w] = "enforce" /\ throttle # NoRow /\ throttle.until <= clock
          /\ rowLock = NoWorker /\ rowLock' = w
          /\ seen' = [seen EXCEPT ![w] = Current(throttle, clock)]
          /\ entered' = [entered EXCEPT ![w] = clock]
          /\ stage' = [stage EXCEPT ![w] = "user"]
          /\ UNCHANGED <<clock, known, throttle, misses, userLock, inserter, now>>
      BY <1>5 DEF Pass, TakeRow, Goto, table
    <2>2. Current(throttle, clock) \in Row /\ clock \in Times
      BY DEF Current, Fresh, Row, ThrottleInv, ThrottleTyped
    <2>3. /\ stage' \in [Workers -> Stages] /\ entered' \in [Workers -> Times \union {Never}]
          /\ seen' \in [Workers -> Row]
          /\ stage'[w] = "user" /\ entered'[w] = clock /\ seen'[w] = Current(throttle, clock)
          /\ \A v \in Workers : v # w => stage'[v] = stage[v] /\ entered'[v] = entered[v] /\ seen'[v] = seen[v]
      BY <2>1, <2>2, StagesDiffer DEF ThrottleInv, ThrottleTyped
    <2>4. userLock # w /\ inserter # w
      BY <2>1 DEF ThrottleInv, LocksHeld
    <2>5. ThrottleTyped' /\ LocksHeld'
      BY <2>1, <2>3, <2>4 DEF ThrottleInv, ThrottleTyped, LocksHeld, Holding
    <2>6. ASSUME NEW v \in Workers PROVE RequestKnows(v)'
      <3>1. CASE v = w
        BY <2>1, <2>2, <2>3, <3>1 DEF RequestKnows, Current
      <3>2. CASE v # w
        <4>1. seen[v] = NoRow
          BY <2>1 DEF ThrottleInv, RequestKnows
        <4> QED
          BY <2>1, <2>3, <3>2, <4>1 DEF ThrottleInv, RequestKnows
      <3> QED
        BY <3>1, <3>2
    <2> QED
      BY <2>1, <2>5, <2>6, CountsKept DEF ThrottleInv
  <1>6. ASSUME NEW w \in Workers, Reject(w) \/ Fail(w) \/ Abort(w) PROVE ThrottleInv'
    <2>1. End(w) /\ UNCHANGED <<clock, known, throttle, misses>>
      BY <1>6 DEF Reject, Fail, Abort, Dismiss, table
    <2> QED
      BY <2>1, EndsAsItWas
  <1>7. ASSUME NEW w \in Workers, LockUser(w) PROVE ThrottleInv'
    <2>1. /\ stage[w] = "user" /\ Goto(w, "judge") /\ userLock' \in {userLock, w}
          /\ UNCHANGED <<clock, known, throttle, misses, rowLock, inserter, seen, now, entered>>
      BY <1>7 DEF LockUser, table, own
    <2> QED
      BY <2>1, GoesOn, StagesDiffer DEF Holding
  <1>8. ASSUME NEW w \in Workers, Judge(w) PROVE ThrottleInv'
    <2>1. /\ stage[w] = "judge"
          /\ \/ Goto(w, "clear") /\ now' = now
             \/ Goto(w, "record") /\ now' = [now EXCEPT ![w] = clock]
          /\ UNCHANGED <<clock, known, throttle, misses, rowLock, userLock, inserter, seen, entered>>
      BY <1>8 DEF Judge, table, locks
    <2>2. now' = [now EXCEPT ![w] = clock] => now'[w] \in Times
      BY DEF ThrottleInv, ThrottleTyped
    <2>3. CASE Goto(w, "clear") /\ now' = now
      BY <2>1, <2>3, GoesOn, StagesDiffer DEF Holding
    <2>4. CASE Goto(w, "record") /\ now' = [now EXCEPT ![w] = clock]
      BY <2>1, <2>2, <2>4, GoesOn, StagesDiffer DEF Holding
    <2> QED
      BY <2>1, <2>3, <2>4
  <1>9. ASSUME NEW w \in Workers, Clear(w) PROVE ThrottleInv'
    <2>1. /\ stage[w] = "clear" /\ (throttle = NoRow \/ rowLock \in {NoWorker, w})
          /\ throttle' = NoRow /\ misses' = {} /\ End(w) /\ UNCHANGED <<clock, known>>
      BY <1>9 DEF Clear, MayWrite
    <2>2. rowLock \in {NoWorker, w}
      BY <2>1 DEF ThrottleInv, LocksHeld
    <2>3. NoRow \in Row /\ NoRow.count = 0 /\ IsFiniteSet({})
      BY FS_EmptySet DEF NoRow, Row
    <2>4. rowLock' = NoWorker
      BY <2>1, <2>2, Ended
    <2>5. ThrottleTyped'
      BY <2>1, <2>3, Ended DEF ThrottleInv, ThrottleTyped
    <2>6. LocksHeld'
      BY <2>1, <2>4, Ended DEF ThrottleInv, ThrottleTyped, LocksHeld
    <2>7. MissesCounted'
      BY <2>1 DEF MissesCounted
    <2>8. ASSUME NEW v \in Workers PROVE RequestKnows(v)'
      <3>1. v # w => seen[v] = NoRow
        BY <2>2 DEF ThrottleInv, RequestKnows
      <3> QED
        BY <2>1, <3>1, Ended DEF ThrottleInv, RequestKnows
    <2> QED
      BY <2>5, <2>6, <2>7, <2>8 DEF ThrottleInv
  <1>10. ASSUME NEW w \in Workers, Count(w) PROVE ThrottleInv'
    <2> DEFINE r == IF seen[w] = NoRow THEN throttle ELSE seen[w]
    <2>1. /\ stage[w] \in {"record", "reselect"} /\ throttle # NoRow /\ rowLock \in {NoWorker, w}
          /\ throttle' = Counted(r, now[w]) /\ End(w) /\ UNCHANGED <<clock, known>>
          /\ misses' = misses \union {[time |-> now[w], nr |-> Missed({now[w]}) + 1]}
      BY <1>10 DEF Count, Answer
    <2>2. misses' = OneMore(misses, now[w])
      BY <2>1 DEF OneMore, Missed, Tally
    <2>3. now[w] \in Times /\ inserter = NoWorker
      BY <2>1 DEF ThrottleInv, RequestKnows, LocksHeld
    <2>4. ReadAs(r)
      <3>1. CASE seen[w] = NoRow
        BY <3>1 DEF ReadAs
      <3>2. CASE seen[w] # NoRow
        <4>1. seen[w] = Current(throttle, entered[w]) /\ entered[w] \in Times
          BY <3>2 DEF ThrottleInv, RequestKnows
        <4> QED
          BY <3>2, <4>1 DEF ReadAs, Current
      <3> QED
        BY <3>1, <3>2
    <2> HIDE DEF r
    <2>5. /\ Counted(r, now[w]) \in Row /\ Counted(r, now[w]).count # 0 /\ Counted(r, now[w]).start \in Times
          /\ RightAbout(Counted(r, now[w]), OneMore(misses, now[w]))
      BY <2>1, <2>3, <2>4, CountedIsRight DEF ThrottleInv
    <2> QED
      BY <2>1, <2>2, <2>3, <2>5, Answered
  <1>11. ASSUME NEW w \in Workers, TryInsert(w) PROVE ThrottleInv'
    <2>1. /\ stage[w] = "record" /\ throttle = NoRow /\ Goto(w, "insert")
          /\ UNCHANGED <<clock, known, throttle, misses, rowLock, userLock, inserter, seen, now, entered>>
      BY <1>11 DEF TryInsert, table, locks, own
    <2>2. rowLock # w /\ now[w] \in Times
      BY <2>1 DEF ThrottleInv, LocksHeld, RequestKnows
    <2> QED
      BY <2>1, <2>2, GoesOn, StagesDiffer
  <1>12. ASSUME NEW w \in Workers, Insert(w) PROVE ThrottleInv'
    <2>1. /\ stage[w] = "insert" /\ inserter = NoWorker
          /\ IF throttle = NoRow
             THEN inserter' = w /\ Goto(w, "inserted")
             ELSE Goto(w, "reselect") /\ inserter' = inserter
          /\ UNCHANGED <<clock, known, throttle, misses, rowLock, userLock, seen, now, entered>>
      BY <1>12 DEF Insert, table, own
    <2>2. rowLock # w /\ now[w] \in Times
      BY <2>1 DEF ThrottleInv, LocksHeld, RequestKnows, Holding
    <2>3. CASE throttle = NoRow
      BY <2>1, <2>2, <2>3, GoesOn, StagesDiffer
    <2>4. CASE throttle # NoRow
      BY <2>1, <2>2, <2>4, GoesOn, StagesDiffer
    <2> QED
      BY <2>3, <2>4
  <1>13. ASSUME NEW w \in Workers, CountFirst(w) PROVE ThrottleInv'
    <2> DEFINE r == Fresh(now[w])
               next == Counted(r, now[w])
    <2>1. /\ stage[w] = "inserted" /\ throttle' = next /\ End(w) /\ UNCHANGED <<clock, known>>
          /\ misses' = misses \union {[time |-> now[w], nr |-> Missed({now[w]}) + 1]}
      BY <1>13 DEF CountFirst, Answer
    <2>2. misses' = OneMore(misses, now[w])
      BY <2>1 DEF OneMore, Missed, Tally
    <2>3. now[w] \in Times /\ inserter = w /\ throttle = NoRow /\ rowLock = NoWorker /\ misses = {}
      BY <2>1 DEF ThrottleInv, RequestKnows, LocksHeld, MissesCounted
    <2>4. Current(r, now[w]) = r
      BY <2>3 DEF Fresh, Current
    <2> DEFINE half == [count |-> 1, start |-> now[w], until |-> Never]
    <2>5. [Current(r, now[w]) EXCEPT !.count = @ + 1] = half
      BY <2>4 DEF Fresh
    <2>6. next = [half EXCEPT !.until = BlockedUntil(half, now[w])]
      BY <2>5 DEF Counted
    <2>7. BlockedUntil(half, now[w]) \in 0..(MaxTime + Block) \union {Never}
      BY <2>3 DEF BlockedUntil
    <2>8. next \in Row /\ next.count = 1 /\ next.start = now[w]
      <3>1. half \in Row /\ half.count = 1 /\ half.start = now[w]
        BY <2>3 DEF Row
      <3> HIDE DEF half, next
      <3> QED
        BY <2>6, <2>7, <3>1 DEF Row
    <2>9. IsFiniteSet({}) /\ \A times : Tally({}, times) = 0
      BY FS_EmptySet DEF Tally
    <2>10. /\ \A times : Tally(OneMore(misses, now[w]), times)
                         = IF now[w] \in times THEN Tally(misses, times) + 1 ELSE Tally(misses, times)
           /\ \A m \in OneMore(misses, now[w]) : m.time = now[w]
      <3>1. misses \subseteq Miss /\ IsFiniteSet(misses) /\ \A m \in misses : m.nr <= Tally(misses, {m.time})
        BY DEF ThrottleInv, ThrottleTyped, MissesCounted
      <3>2. \A m \in OneMore(misses, now[w]) : m.time = now[w]
        BY <2>3 DEF OneMore
      <3> QED
        BY <2>3, <3>1, <3>2, TallyOneFailure
    <2> HIDE DEF r, next
    <2>11. RightAbout(next, OneMore(misses, now[w]))
      <3>1. Tally(OneMore(misses, now[w]), Times) = 1
        BY <2>3, <2>9, <2>10
      <3>2. Tally(OneMore(misses, now[w]), Since(now[w])) = 1
        BY <2>3, <2>9, <2>10 DEF Since
      <3> QED
        BY <2>3, <2>8, <2>10, <3>1, <3>2 DEF RightAbout
    <2>12. /\ throttle' = Counted(r, now[w]) /\ Counted(r, now[w]) \in Row
           /\ Counted(r, now[w]).count # 0 /\ Counted(r, now[w]).start \in Times
           /\ RightAbout(Counted(r, now[w]), OneMore(misses, now[w]))
      BY <2>1, <2>3, <2>8, <2>11 DEF next
    <2>13. /\ now[w] \in Times /\ rowLock \in {NoWorker, w} /\ inserter \in {NoWorker, w}
           /\ End(w) /\ UNCHANGED <<clock, known>> /\ misses' = OneMore(misses, now[w])
      BY <2>1, <2>2, <2>3
    <2> HIDE DEF r, next
    <2> QED
      BY <2>12, <2>13, Answered
  <1> QED
    BY <1>1, <1>2, <1>3, <1>4, <1>5, <1>6, <1>7, <1>8, <1>9, <1>10, <1>11, <1>12, <1>13
    DEF Next, Proceed, DetectDeadlock

LEMMA ThrottleCounts ==
  ASSUME ThrottleInv
  PROVE  TypeOK /\ CountsEveryFailure /\ PassedBeforeBlock
  <1> USE ThrottleConstants
  <1>1. TypeOK
    <2>1. /\ rowLock \in {w \in Workers : stage[w] \in Holding} \union {NoWorker}
          /\ userLock \in {w \in Workers : stage[w] \notin {"idle", "enforce", "user"}} \union {NoWorker}
          /\ inserter \in {w \in Workers : stage[w] = "inserted"} \union {NoWorker}
          /\ inserter # NoWorker => throttle = NoRow
      BY DEF ThrottleInv, ThrottleTyped, LocksHeld
    <2> QED
      BY <2>1 DEF ThrottleInv, ThrottleTyped, TypeOK, Row, Holding
  <1>2. CountsEveryFailure
    <2> SUFFICES ASSUME throttle # NoRow
                 PROVE  throttle.count \in Missed({t \in Times : t >= throttle.start}) .. Missed(Times)
      BY DEF CountsEveryFailure
    <2>1. /\ Tally(misses, Since(throttle.start)) <= throttle.count /\ throttle.count <= Tally(misses, Times)
          /\ throttle.count \in Nat
      BY DEF ThrottleInv, ThrottleTyped, MissesCounted, RightAbout, Row
    <2>2. Tally(misses, Since(throttle.start)) \in Nat /\ Tally(misses, Times) \in Nat
      BY TallyProperties DEF ThrottleInv, ThrottleTyped
    <2>3. /\ Missed(Times) = Tally(misses, Times)
          /\ Missed({t \in Times : t >= throttle.start}) = Tally(misses, Since(throttle.start))
      BY DEF Missed, Tally, Since
    <2> QED
      BY <2>1, <2>2, <2>3
  <1>3. PassedBeforeBlock
    BY DEF ThrottleInv, RequestKnows, PassedBeforeBlock
  <1> QED
    BY <1>1, <1>2, <1>3

-----------------------------------------------------------------------------
(* A step of another component keeps an invariant.                          *)

LEMMA LoopKept ==
  LoopInv /\ UNCHANGED evaluator => LoopInv'
  BY DEF evaluator, LoopInv

LEMMA FetchKept ==
  FetchInv /\ UNCHANGED fetcher => FetchInv'
  BY DEF fetcher, FetchInv, FetchTyped, Fetcher!ClosedUnlessUnwritable

LEMMA PoolKept ==
  PoolInv /\ UNCHANGED pool => PoolInv'
  BY DEF pool, PoolInv, PoolTyped, QueueIsTheEnd, EveryoneRuns, InOrder, Begun

LEMMA LimitKept ==
  LimitInv /\ UNCHANGED limit => LimitInv'
  <1> SUFFICES ASSUME LimitInv, UNCHANGED limit PROVE LimitInv'
    OBVIOUS
  <1>1. UNCHANGED <<body, buffered, total, index, wire, delivered>>
    BY DEF limit
  <1>2. LimitTyped' /\ Delivering' /\ Most' = Most
    BY <1>1 DEF LimitInv, LimitTyped, Delivering, Most
  <1>3. Tallied(wire, total, Most)' /\ Tallied(buffered, total, Most)'
    <2>1. Tallied(wire', total', Most') /\ Tallied(buffered', total', Most')
      BY <1>1, <1>2 DEF LimitInv
    <2> QED
      BY <2>1 DEF Tallied
  <1> QED
    BY <1>1, <1>2, <1>3 DEF LimitInv

LEMMA CacheKept ==
  CacheInv /\ UNCHANGED cache => CacheInv'
  <1> SUFFICES ASSUME CacheInv, UNCHANGED cache PROVE CacheInv'
    OBVIOUS
  <1>1. UNCHANGED <<keys, at, url, mode, doomed, answered, debt>>
    BY DEF cache
  <1>2. Cache!Range(keys') = Cache!Range(keys) /\ Cache!Pending' = Cache!Pending
    BY <1>1 DEF Cache!Pending
  <1> QED
    BY <1>1, <1>2 DEF CacheInv

LEMMA ThrottleKept ==
  ThrottleInv /\ UNCHANGED vars => ThrottleInv'
  <1> SUFFICES ASSUME ThrottleInv, UNCHANGED vars PROVE ThrottleInv'
    OBVIOUS
  <1>1. MissesCounted'
    BY CountsKept DEF ThrottleInv, vars
  <1> QED
    BY <1>1 DEF vars, ThrottleInv, ThrottleTyped, LocksHeld, RequestKnows, Current

-----------------------------------------------------------------------------
(* The properties                                                          *)

(* No failure of overlapping logins is lost, and no login is judged that read   *)
(* the row when it blocked (login_throttle.py, routes_auth.py).              *)
THEOREM FailuresAlwaysCounted == AllSpec => []FailuresCounted
  <1>1. AllInit => ThrottleInv
    BY ThrottleInit DEF AllInit
  <1>2. ThrottleInv /\ [AllNext]_everything => ThrottleInv'
    BY ComponentSteps, ThrottleStepInv, ThrottleKept
  <1>3. ThrottleInv => FailuresCounted
    BY ThrottleCounts DEF FailuresCounted
  <1> QED
    BY <1>1, <1>2, <1>3, PTL DEF AllSpec

(* However it is redirected, and whatever fails, a fetch keeps to its bounds on  *)
(* requests, hops and bytes, reads from a peer vetted for this hop only, and     *)
(* leaves no other connection open than that of a request which cannot be        *)
(* encoded (research_fetcher.py, research_policy.py).                        *)
THEOREM PolicyAlwaysKept == AllSpec => []FetchKeepsThePolicy
  <1>1. AllInit => FetchInv
    BY FetchInit DEF AllInit
  <1>2. FetchInv /\ [AllNext]_everything => FetchInv'
    BY ComponentSteps, FetchStepInv, FetchKept
  <1>3. FetchInv => FetchKeepsThePolicy
    BY FetchKeeps DEF FetchKeepsThePolicy
  <1> QED
    BY <1>1, <1>2, <1>3, PTL DEF AllSpec

(* What the caller of the pool gets follows the plan and not the timing, no      *)
(* worker is dropped or left running, and the evaluator's verdict is on the     *)
(* value the loop returns (orchestration.py).                               *)
THEOREM PatternsAlwaysHold == AllSpec => []PatternsHold
  <1>1. AllInit => PoolInv /\ LoopInv
    BY PoolInit, LoopInit DEF AllInit
  <1>2. PoolInv /\ LoopInv /\ [AllNext]_everything => PoolInv' /\ LoopInv'
    BY ComponentSteps, PoolStepInv, PoolKept, LoopStepInv, LoopKept
  <1>3. PoolInv /\ LoopInv => PatternsHold
    BY PoolFollowsThePlan, LoopJudgesItsValue DEF PatternsHold
  <1> QED
    BY <1>1, <1>2, <1>3, PTL DEF AllSpec

(* The application reads the messages of the wire in order, and never a body    *)
(* beyond the limit (RequestBodyLimitMiddleware of middleware.py).            *)
THEOREM BodyAlwaysReplayed == AllSpec => []BodyReplayed
  <1>1. AllInit => LimitInv
    BY LimitInit DEF AllInit
  <1>2. LimitInv /\ [AllNext]_everything => LimitInv'
    BY ComponentSteps, LimitStepInv, LimitKept
  <1>3. LimitInv => BodyReplayed
    BY LimitReplays DEF BodyReplayed
  <1> QED
    BY <1>1, <1>2, <1>3, PTL DEF AllSpec

(* Trims that overlap keep the runtime cache to its bound, but for what they     *)
(* are about to delete and for entries whose trim failed (sw.js).            *)
THEOREM CacheAlwaysBounded == AllSpec => []CacheBounded
  <1>1. AllInit => CacheInv
    BY CacheInit DEF AllInit
  <1>2. CacheInv /\ [AllNext]_everything => CacheInv'
    BY ComponentSteps, CacheStepInv, CacheKept
  <1>3. CacheInv => CacheBounded
    BY CacheKeepsItsBound DEF CacheBounded
  <1> QED
    BY <1>1, <1>2, <1>3, PTL DEF AllSpec

(* The variables of every component have their types: in particular the locks    *)
(* of a login are held by requests that have come that far, and of a key there   *)
(* is one row, committed or not (login_throttle.py).                         *)
THEOREM AlwaysTyped == AllSpec => []AllTyped
  <1> DEFINE Inv == ThrottleInv /\ PoolInv /\ LoopInv /\ FetchInv /\ LimitInv /\ CacheInv
                    /\ active \in Components
  <1>1. AllInit => Inv
    BY ThrottleInit, PoolInit, LoopInit, FetchInit, LimitInit, CacheInit DEF AllInit
  <1>2. Inv /\ [AllNext]_everything => Inv'
    BY ComponentSteps, ThrottleStepInv, ThrottleKept, PoolStepInv, PoolKept, LoopStepInv, LoopKept,
       FetchStepInv, FetchKept, LimitStepInv, LimitKept, CacheStepInv, CacheKept
  <1>3. Inv => AllTyped
    BY ThrottleCounts, PoolFollowsThePlan, LoopJudgesItsValue, FetchKeeps, LimitReplays, CacheKeepsItsBound
    DEF AllTyped
  <1> QED
    BY <1>1, <1>2, <1>3, PTL DEF AllSpec

==============================================================================
