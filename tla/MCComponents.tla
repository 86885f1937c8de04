----------------------------- MODULE MCComponents -------------------------------
(***************************************************************************)
(* Components that share no state, side by side: a behaviour exercises one   *)
(* of them, `active`, and the others keep their initial state.  One instance *)
(* of each is thereby checked in one run.  LoginThrottle is extended, so its *)
(* names are used as they are.  The constants of the others are those of     *)
(* this module, of the same names.                                          *)
(***************************************************************************)
EXTENDS LoginThrottle, Sequences

CONSTANTS
  Registered, Stranger, MaxWorkers, MaxNames,                      \* WorkerPool
  MaxIterations,                                                   \* EvaluatorLoop
  Hosts, Allowed, Unwritable, Public, Private, Nowhere,            \* ResearchFetch
  MaxRedirects, MaxResponse, MaxAttempts,
  MaxBytes, MaxChunk, MaxMessages,                                 \* RequestBodyLimit
  Events, Urls, Precached, MaxEntries,                             \* RuntimeCache
  h1, e1, e2, u1, u2                    \* the host, events and URLs that AllInit names

VARIABLES
  active,
  caller, plan, queue, running, result, completed, culprit,
  loop, iteration, candidate, evaluated, accepted, value,
  fetch, host, addresses, tried, peer, redirects, open, received, dns, requests,
  body, buffered, total, index, wire, delivered,
  keys, at, url, mode, doomed, answered, debt

pool == <<caller, plan, queue, running, result, completed, culprit>>
evaluator == <<loop, iteration, candidate, evaluated, accepted, value>>
fetcher == <<fetch, host, addresses, tried, peer, redirects, open, received, dns, requests>>
limit == <<body, buffered, total, index, wire, delivered>>
cache == <<keys, at, url, mode, doomed, answered, debt>>

Pool == INSTANCE WorkerPool

Loop == INSTANCE EvaluatorLoop

Fetcher == INSTANCE ResearchFetch

Limit == INSTANCE RequestBodyLimit

Cache == INSTANCE RuntimeCache

ASSUME ComponentsAssumption ==
  /\ Stranger \notin Registered /\ MaxWorkers \in Nat \ {0} /\ MaxNames \in Nat
  /\ MaxIterations \in 1..10
  /\ Fetcher!PolicyIsValid /\ Unwritable \subseteq Hosts /\ MaxAttempts \in Nat \ {0}
  /\ Public \intersect Private = {} /\ Nowhere \notin Public \union Private
  /\ IsFiniteSet(Public \union Private)
  /\ MaxBytes \in Nat \ {0} /\ MaxChunk \in Nat /\ MaxMessages \in Nat
  /\ IsFiniteSet(Events) /\ Precached \subseteq Urls /\ MaxEntries \in Nat
  /\ h1 \in Hosts /\ {e1, e2} \subseteq Events /\ {u1, u2} \subseteq Urls

Components == {"login", "pool", "loop", "fetch", "body", "cache"}

AllInit ==
  /\ active \in Components
  /\ Init /\ Pool!Init /\ Loop!Init /\ Fetcher!Init /\ Limit!Init /\ Cache!Init
  /\ active # "login" => known
  /\ active # "fetch" => host = h1
  /\ url[e1] = u1 /\ url[e2] \in {u1, u2}      \* up to the order of events
  /\ active # "cache" => url = [e \in Events |-> u1] /\ mode = [e \in Events |-> "asset"]

Only(component) == active = component /\ UNCHANGED active

LoginStep == Only("login") /\ UNCHANGED <<pool, evaluator, fetcher, limit, cache>>
PoolStep == Only("pool") /\ UNCHANGED <<vars, evaluator, fetcher, limit, cache>> /\ Pool!Step
LoopStep == Only("loop") /\ UNCHANGED <<vars, pool, fetcher, limit, cache>> /\ Loop!Step
FetchStep == Only("fetch") /\ UNCHANGED <<vars, pool, evaluator, limit, cache>> /\ Fetcher!Step
BodyStep == Only("body") /\ UNCHANGED <<vars, pool, evaluator, fetcher, cache>> /\ Limit!Step
CacheStep == Only("cache") /\ UNCHANGED <<vars, pool, evaluator, fetcher, limit>> /\ Cache!Step

AllNext ==
  (LoginStep /\ Next) \/ PoolStep \/ LoopStep \/ FetchStep \/ BodyStep \/ CacheStep

everything == <<vars, active, pool, evaluator, fetcher, limit, cache>>

(* The fairness of LoginThrottle; a call of the pool, the loop or the        *)
(* fetcher goes on as long as it can, since what it calls returns or raises; *)
(* only one of them is active.                                              *)
AllFairness ==
  /\ \A w \in Workers :
       SF_everything(LoginStep /\ Proceed(w)) /\ WF_everything(LoginStep /\ DetectDeadlock(w))
  /\ WF_everything(PoolStep \/ LoopStep \/ FetchStep)

AllSpec == AllInit /\ [][AllNext]_everything /\ AllFairness

-----------------------------------------------------------------------------
(* Properties                                                              *)

(* The variables of every component have their types. *)
AllTyped ==
  /\ TypeOK /\ active \in Components
  /\ Pool!TypeOK /\ Loop!TypeOK /\ Fetcher!TypeOK /\ Limit!TypeOK /\ Cache!TypeOK

(* LoginThrottle: no failure of overlapping logins is lost, and no login is   *)
(* judged that read the row when it blocked.                                *)
FailuresCounted == CountsEveryFailure /\ PassedBeforeBlock

(* WorkerPool and EvaluatorLoop: what the caller gets follows the plan and not*)
(* the timing, no worker is dropped or left running, and the loop's verdict   *)
(* is on the value it returns.                                              *)
PatternsHold == Pool!OrderOfThePlan /\ Pool!NothingOutlivesTheCall /\ Loop!VerdictOnValue

(* ResearchFetch: however it is redirected, and whatever fails, requests and  *)
(* hops are bounded, what is read comes from a peer vetted for this hop, and *)
(* every other connection is closed, except that of a request which cannot   *)
(* be encoded: of that one, and of no other failure, the code loses hold.    *)
FetchKeepsThePolicy ==
  Fetcher!Bounded /\ Fetcher!PeerOfThisHop /\ Fetcher!ClosedUnlessUnwritable

(* RequestBodyLimit: the application reads the wire in order, and no body    *)
(* beyond the limit.                                                        *)
BodyReplayed == Limit!WireInOrder /\ Limit!BodyWithinLimit

(* RuntimeCache: trims that overlap keep the cache to its bound. *)
CacheBounded == Cache!CacheBounded

(* Logins that wait for each other, a pool, whatever its workers do, a loop,  *)
(* whatever its verdicts, and a fetch, however it is redirected, come to an  *)
(* end.                                                                     *)
EveryCallEnds ==
  /\ EveryLoginEnds
  /\ active \in {"pool", "loop", "fetch"} ~>
       \/ active = "pool" /\ Pool!Ended
       \/ active = "loop" /\ Loop!Ended
       \/ active = "fetch" /\ Fetcher!Ended
==============================================================================
