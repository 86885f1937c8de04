------------------------------- MODULE WorkerPool -------------------------------
(***************************************************************************)
(* One call of run_orchestrator_workers, with run_parallel inside it         *)
(* (orchestration.py): a planner names workers, a thread pool runs them,      *)
(* the caller awaits them in the order of the plan, and an aggregator gets    *)
(* what they returned.  Planner, workers and aggregator are the caller's and *)
(* may raise.                                                              *)
(***************************************************************************)
EXTENDS FiniteSets, Naturals, Sequences, SequencesExt

CONSTANTS
  Registered,           \* the workers' names
  Stranger,             \* a name that is not registered
  MaxWorkers,           \* max_workers, at least 1
  MaxNames              \* bound on the names a planner returns

VARIABLES
  caller,               \* where the calling thread is
  plan,                 \* the workers to run, without duplicates
  queue,                \* submitted, and not begun
  running,              \* in a thread of the pool
  result,               \* of each worker's future
  completed,            \* the workers whose output the caller has
  culprit               \* the worker whose exception the caller got

vars == <<caller, plan, queue, running, result, completed, culprit>>

pool == <<queue, running, result>>

Init ==
  /\ caller = "plan" /\ plan = <<>>
  /\ queue = <<>> /\ running = {}
  /\ result = [w \in Registered |-> "none"]
  /\ completed = <<>> /\ culprit = Stranger

(* mutant: a name that the planner repeats is run again *)
AsNamed(names) == {names}

(* dict.fromkeys: each name once, in the order of the first occurrences *)
First(names, n) == CHOOSE i \in DOMAIN names : names[i] = n /\ \A j \in DOMAIN names : names[j] = n => i <= j

Unique(names) ==
  {s \in BoundedSeq(Registered, Len(names)) :
     /\ Range(s) = Range(names) /\ IsInjective(s)
     /\ \A i, j \in DOMAIN s : i < j => First(names, s[i]) < First(names, s[j])}

(* An unknown name is refused before any worker is run. *)
Plan ==
  /\ caller = "plan"
  /\ \E names \in BoundedSeq(Registered \union {Stranger}, MaxNames) :
       IF Contains(names, Stranger)
       THEN caller' = "raised" /\ UNCHANGED <<plan, queue>>
       ELSE caller' = "await" /\ plan' \in Unique(names) /\ queue' = plan'
  /\ UNCHANGED <<running, result, completed, culprit>>

PlannerRaises ==
  /\ caller = "plan"
  /\ caller' = "raised"
  /\ UNCHANGED <<plan, pool, completed, culprit>>

Threads == IF MaxWorkers < Len(plan) THEN MaxWorkers ELSE Len(plan)

WorkerBegins ==
  /\ queue # <<>> /\ Cardinality(running) < Threads
  /\ running' = running \union {Head(queue)}
  /\ queue' = Tail(queue)
  /\ UNCHANGED <<caller, plan, result, completed, culprit>>

WorkerEnds(w) ==
  /\ w \in running
  /\ running' = running \ {w}
  /\ \E r \in {"output", "exception"} : result' = [result EXCEPT ![w] = r]
  /\ UNCHANGED <<caller, plan, queue, completed, culprit>>

(* mutant: whichever future is done first *)
AnyDone == {w \in Range(plan) \ Range(completed) : result[w] # "none"}

(* The futures are awaited in the order of the plan. *)
NextDone ==
  {w \in Registered : Len(completed) < Len(plan) /\ w = plan[Len(completed) + 1] /\ result[w] # "none"}

Await ==
  /\ caller = "await"
  /\ \E w \in NextDone :
       IF result[w] = "output"
       THEN completed' = Append(completed, w) /\ UNCHANGED <<caller, culprit>>
       ELSE caller' = "shutdown" /\ culprit' = w /\ UNCHANGED completed
  /\ UNCHANGED <<plan, pool>>

AllAwaited ==
  /\ caller = "await" /\ Len(completed) = Len(plan)
  /\ caller' = "shutdown"
  /\ UNCHANGED <<plan, pool, completed, culprit>>

(* Leaving the pool waits for every worker, those that had not begun too.    *)
PoolDrained == queue = <<>> /\ running = {}

Shutdown ==
  /\ caller = "shutdown" /\ PoolDrained
  /\ caller' = IF culprit = Stranger THEN "aggregate" ELSE "raised"
  /\ UNCHANGED <<plan, pool, completed, culprit>>

Aggregate ==
  /\ caller = "aggregate"
  /\ caller' \in {"returned", "raised"}
  /\ UNCHANGED <<plan, pool, completed, culprit>>

Step ==
  \/ Plan \/ PlannerRaises \/ WorkerBegins \/ Await \/ AllAwaited \/ Shutdown \/ Aggregate
  \/ \E w \in Registered : WorkerEnds(w)

Ended == caller \in {"returned", "raised"}

-----------------------------------------------------------------------------
(* Properties                                                              *)

(* No more threads than asked for, and a worker is in one place only.        *)
TypeOK ==
  /\ caller \in {"plan", "await", "shutdown", "aggregate", "returned", "raised"}
  /\ plan \in Seq(Registered) /\ queue \in Seq(Registered)
  /\ IsInjective(plan) /\ IsSuffix(queue, plan)
  /\ running \subseteq Range(plan) \ Range(queue)
  /\ Cardinality(running) <= MaxWorkers
  /\ result \in [Registered -> {"none", "output", "exception"}]
  /\ completed \in Seq(Registered)
  /\ culprit \in Registered \union {Stranger}

(* What the caller gets does not depend on timing: outputs in the order of   *)
(* the plan, or the exception of the first worker of the plan that raised.  *)
OrderOfThePlan ==
  /\ IsPrefix(completed, plan)
  /\ culprit # Stranger =>
       \A i \in 1..Len(plan) : plan[i] = culprit => Len(completed) = i - 1

(* No thread of the call is left behind when it returns or raises, and no   *)
(* planned worker was dropped, whoever failed.                              *)
NothingOutlivesTheCall ==
  Ended \/ caller = "aggregate" =>
    running = {} /\ \A w \in Range(plan) : result[w] # "none"
==============================================================================
