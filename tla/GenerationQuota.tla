---------------------------- MODULE GenerationQuota ----------------------------
(***************************************************************************)
(* reserve_generation_quota (generation_quota.py): the requests of one user *)
(* for a generated answer reserve a place in a sliding window before the    *)
(* provider is called.  Reservations are rows of audit_events, and the lock *)
(* on the user's row (PostgreSQL) puts them one after the other.  A request *)
(* reads the clock before it waits for that lock.                           *)
(***************************************************************************)
EXTENDS Integers, FiniteSets

CONSTANTS
  Requests,             \* the requests of the user
  MaxRequests,          \* settings.generated_answer_max_requests
  WindowSeconds,        \* settings.generated_answer_window_seconds
  Second,               \* ticks of the clock in a second
  MaxClock,             \* bound: the clock stops here
  NoRequest

ASSUME QuotaAssumption ==
  /\ MaxRequests \in Nat \ {0}
  /\ WindowSeconds \in Nat \ {0}
  /\ Second \in Nat \ {0}
  /\ MaxClock \in Nat
  /\ NoRequest \notin Requests

Window == WindowSeconds * Second

VARIABLES
  clock,
  stage,                \* how far each request has come
  arrived,              \* `now`, as the request read it
  lock,                 \* the request that holds the user's row
  reservations,         \* the committed reservation rows and their created_at
  promises              \* history: times from which a denial promised room

vars == <<clock, stage, arrived, lock, reservations, promises>>

Init ==
  /\ clock = 0
  /\ stage = [r \in Requests |-> "new"]
  /\ arrived = [r \in Requests |-> 0]
  /\ lock = NoRequest
  /\ reservations = {}
  /\ promises = {}

Tick ==
  /\ clock < MaxClock
  /\ clock' = clock + 1
  /\ UNCHANGED <<stage, arrived, lock, reservations, promises>>

Arrive(r) ==
  /\ stage[r] = "new"
  /\ stage' = [stage EXCEPT ![r] = "waiting"]
  /\ arrived' = [arrived EXCEPT ![r] = clock]
  /\ UNCHANGED <<clock, lock, reservations, promises>>

(* mutant: SELECT without FOR UPDATE *)
FreeForAll == TRUE

RowIsFree == lock = NoRequest

LockUser(r) ==
  /\ stage[r] = "waiting"
  /\ RowIsFree
  /\ lock' = r
  /\ stage' = [stage EXCEPT ![r] = "counting"]
  /\ UNCHANGED <<clock, arrived, reservations, promises>>

(* mutant: the window opens after its first instant *)
CountedInside(r) == {x \in reservations : x.at > arrived[r] - Window}

(* The filters of the count: created_at >= window_start, with no upper end. *)
Counted(r) == {x \in reservations : x.at >= arrived[r] - Window}

Leave(r, how) ==
  /\ stage' = [stage EXCEPT ![r] = how]
  /\ lock' = IF lock = r THEN NoRequest ELSE lock
  /\ UNCHANGED <<clock, arrived>>

(* The row is inserted and committed after the wait, with a clock of its own. *)
Reserve(r) ==
  /\ stage[r] = "counting"
  /\ Cardinality(Counted(r)) < MaxRequests
  /\ reservations' = reservations \union {[by |-> r, at |-> clock]}
  /\ promises' = {}
  /\ Leave(r, "reserved")

(* mutant: the seconds are rounded down *)
RetryRoundedDown(left) == left \div Second

(* retry_after_seconds: what is left of the oldest row's time in the window, *)
(* in whole seconds and one more.                                           *)
RetryAfter(left) == left \div Second + 1

UpToDate(r) == \A x \in reservations : x.at <= arrived[r]

(* The answer to a denied request names a time.  It is kept as a promise     *)
(* when no reservation was made while the request waited for the lock.       *)
Limit(r) ==
  /\ stage[r] = "counting"
  /\ Cardinality(Counted(r)) >= MaxRequests
  /\ \E oldest \in Counted(r) :
       /\ \A x \in Counted(r) : oldest.at <= x.at
       /\ promises' = IF UpToDate(r)
                      THEN promises \union
                             {arrived[r] + Second * RetryAfter(oldest.at + Window - arrived[r])}
                      ELSE promises
  /\ Leave(r, "limited")
  /\ UNCHANGED reservations

(* A database error or a lost worker: the transaction rolls back. *)
Abort(r) ==
  /\ stage[r] \in {"waiting", "counting"}
  /\ Leave(r, "failed")
  /\ UNCHANGED <<reservations, promises>>

Next ==
  \/ Tick
  \/ \E r \in Requests : Arrive(r) \/ LockUser(r) \/ Reserve(r) \/ Limit(r) \/ Abort(r)

Spec == Init /\ [][Next]_vars

-----------------------------------------------------------------------------
(* Properties                                                              *)

Stages == {"new", "waiting", "counting", "reserved", "limited", "failed"}

(* The lock is held by a request that is counting, and by no other. *)
TypeOK ==
  /\ clock \in Nat
  /\ stage \in [Requests -> Stages]
  /\ arrived \in [Requests -> Nat]
  /\ lock \in Requests \union {NoRequest}
  /\ reservations \in SUBSET [by : Requests, at : Nat]
  /\ promises \in SUBSET Nat
  /\ \A r \in Requests : lock = r <=> stage[r] = "counting"

(* At most MaxRequests reservations lie in any stretch of time as long as    *)
(* the window, its two ends included, however the requests overlap and      *)
(* however long they wait for the lock.                                     *)
QuotaRespected ==
  \A x \in reservations :
    Cardinality({y \in reservations : y.at \in x.at .. x.at + Window}) <= MaxRequests

(* Who comes back no earlier than Retry-After said is not turned away, unless *)
(* a reservation was made in the meantime.                                   *)
RetryAfterIsEnough ==
  [][ \A r \in Requests :
        stage[r] # "limited" /\ stage'[r] = "limited" => \A p \in promises : arrived[r] < p ]_vars
==============================================================================
