------------------------------ MODULE LoginThrottle -----------------------------
(***************************************************************************)
(* The failures of one source at one account (login_throttle.py, called by  *)
(* login in routes_auth.py) on PostgreSQL.  A request reads the row of its  *)
(* key under a lock and keeps it to the end, if there is a row; requests     *)
(* that found none are not kept apart until they count their failures.      *)
(***************************************************************************)
EXTENDS FiniteSets, Integers

CONSTANTS
  Workers, NoWorker,
  MaxFailures, Window, Block,   \* login_throttle_max_failures and _seconds, in ticks
  MaxTime                       \* bound on the clock

ASSUME ThrottleAssumption ==
  /\ NoWorker \notin Workers
  /\ MaxFailures \in Nat \ {0} /\ Window \in Nat \ {0} /\ Block \in Nat \ {0}
  /\ MaxTime \in Nat

Times == 0..MaxTime
Never == -1

NoRow == [count |-> 0, start |-> Never, until |-> Never]
Fresh(time) == [count |-> 0, start |-> time, until |-> Never]

VARIABLES
  clock,
  known,                \* whether the account exists
  throttle,             \* the row of the key
  rowLock, userLock,    \* the requests that hold it and the account's row
  inserter,             \* the request with an uncommitted row for the key
  stage,
  seen,                 \* the row as a request holds it
  now,                  \* the time a request counts its failure at
  entered,              \* history: when it passed the throttle
  misses                \* history: failures answered since the last success, numbered in each instant

vars == <<clock, known, throttle, rowLock, userLock, inserter, stage, seen, now, entered, misses>>

locks == <<rowLock, userLock, inserter>>
table == <<throttle, misses>>
own == <<seen, now, entered>>

Init ==
  /\ clock = 0 /\ known \in BOOLEAN
  /\ throttle = NoRow
  /\ rowLock = NoWorker /\ userLock = NoWorker /\ inserter = NoWorker
  /\ stage = [w \in Workers |-> "idle"]
  /\ seen = [w \in Workers |-> NoRow]
  /\ now = [w \in Workers |-> Never]
  /\ entered = [w \in Workers |-> Never]
  /\ misses = {}

Goto(w, s) == stage' = [stage EXCEPT ![w] = s]

(* The transaction ends, by commit or rollback. *)
End(w) ==
  /\ rowLock' = IF rowLock = w THEN NoWorker ELSE rowLock
  /\ userLock' = IF userLock = w THEN NoWorker ELSE userLock
  /\ inserter' = IF inserter = w THEN NoWorker ELSE inserter
  /\ Goto(w, "idle")
  /\ seen' = [seen EXCEPT ![w] = NoRow]
  /\ now' = [now EXCEPT ![w] = Never]
  /\ entered' = [entered EXCEPT ![w] = Never]

-----------------------------------------------------------------------------
(* enforce_login_throttle                                                  *)

Arrive(w) ==
  /\ stage[w] = "idle"
  /\ Goto(w, "enforce")
  /\ UNCHANGED <<clock, known, table, locks, own>>

(* mutant: SELECT without FOR UPDATE *)
ReadRow(w) == UNCHANGED rowLock

TakeRow(w) == rowLock = NoWorker /\ rowLock' = w

(* The window starts afresh once it is over. *)
Current(r, time) == IF r.start + Window <= time THEN Fresh(time) ELSE r

FindNone(w) ==
  /\ stage[w] = "enforce" /\ throttle = NoRow
  /\ Goto(w, "user")
  /\ entered' = [entered EXCEPT ![w] = clock]
  /\ UNCHANGED <<clock, known, table, locks, seen, now>>

Pass(w) ==
  /\ stage[w] = "enforce" /\ throttle # NoRow
  /\ throttle.until <= clock
  /\ TakeRow(w)
  /\ seen' = [seen EXCEPT ![w] = Current(throttle, clock)]
  /\ entered' = [entered EXCEPT ![w] = clock]
  /\ Goto(w, "user")
  /\ UNCHANGED <<clock, known, table, userLock, inserter, now>>

(* mutant: the refusal leaves the transaction open *)
StayOpen(w) == rowLock' = w /\ Goto(w, "idle") /\ UNCHANGED <<userLock, inserter, own>>

Dismiss(w) == End(w)

(* 429: the session is closed with its transaction. *)
Reject(w) ==
  /\ stage[w] = "enforce" /\ throttle # NoRow
  /\ throttle.until > clock
  /\ rowLock = NoWorker
  /\ Dismiss(w)
  /\ UNCHANGED <<clock, known, table>>

-----------------------------------------------------------------------------
(* login                                                                   *)

LockUser(w) ==
  /\ stage[w] = "user"
  /\ IF known THEN userLock = NoWorker /\ userLock' = w ELSE UNCHANGED userLock
  /\ Goto(w, "judge")
  /\ UNCHANGED <<clock, known, table, rowLock, inserter, own>>

(* The clock is read again before the failure is counted. *)
Judge(w) ==
  /\ stage[w] = "judge"
  /\ \/ userLock = w /\ Goto(w, "clear") /\ UNCHANGED now
     \/ Goto(w, "record") /\ now' = [now EXCEPT ![w] = clock]
  /\ UNCHANGED <<clock, known, table, locks, seen, entered>>

MayWrite(w) == throttle = NoRow \/ rowLock \in {NoWorker, w}

(* clear_login_throttle and the commit of a successful login *)
Clear(w) ==
  /\ stage[w] = "clear" /\ MayWrite(w)
  /\ throttle' = NoRow
  /\ misses' = {}
  /\ End(w)
  /\ UNCHANGED <<clock, known>>

-----------------------------------------------------------------------------
(* record_login_failure                                                    *)

BlockedUntil(r, time) == IF r.count >= MaxFailures THEN time + Block ELSE r.until

Counted(r, time) ==
  LET more == [Current(r, time) EXCEPT !.count = @ + 1]
  IN [more EXCEPT !.until = BlockedUntil(more, time)]

Missed(times) == Cardinality({m \in misses : m.time \in times})

(* The failure is counted, and the 401 goes out once that is committed. *)
Answer(w, r) ==
  /\ throttle' = Counted(r, now[w])
  /\ misses' = misses \union {[time |-> now[w], nr |-> Missed({now[w]}) + 1]}
  /\ End(w)
  /\ UNCHANGED <<clock, known>>

(* _get_or_create_locked; a row that this request already has is not read anew. *)
Count(w) ==
  /\ stage[w] \in {"record", "reselect"} /\ throttle # NoRow
  /\ rowLock \in {NoWorker, w}
  /\ Answer(w, IF seen[w] = NoRow THEN throttle ELSE seen[w])

TryInsert(w) ==
  /\ stage[w] = "record" /\ throttle = NoRow
  /\ Goto(w, "insert")
  /\ UNCHANGED <<clock, known, table, locks, own>>

(* The unique index lets one in: the others wait for its transaction. *)
Insert(w) ==
  /\ stage[w] = "insert" /\ inserter = NoWorker
  /\ IF throttle = NoRow
     THEN inserter' = w /\ Goto(w, "inserted")
     ELSE Goto(w, "reselect") /\ UNCHANGED inserter
  /\ UNCHANGED <<clock, known, table, rowLock, userLock, own>>

CountFirst(w) == stage[w] = "inserted" /\ Answer(w, Fresh(now[w]))

(* The row that was in the way is gone again, because the account came to be *)
(* meanwhile and somebody logged in: the IntegrityError is raised.          *)
Fail(w) ==
  /\ stage[w] = "reselect" /\ throttle = NoRow
  /\ End(w)
  /\ UNCHANGED <<clock, known, table>>

-----------------------------------------------------------------------------
(* The database and the clock                                              *)

Holder(w) ==
  CASE stage[w] \in {"enforce", "record", "reselect", "clear"} /\ throttle # NoRow -> rowLock
    [] stage[w] = "user" /\ known -> userLock
    [] stage[w] = "insert" -> inserter
    [] OTHER -> NoWorker

Deadlocked(w) ==
  \E v \in Workers \ {w} : Holder(w) = v /\ Holder(v) = w

Abort(w) ==
  /\ stage[w] # "idle"
  /\ End(w)
  /\ UNCHANGED <<clock, known, table>>

DetectDeadlock(w) == Deadlocked(w) /\ Abort(w)

(* create_user, between two reads of the account *)
CreateAccount ==
  /\ ~known
  /\ known' = TRUE
  /\ UNCHANGED <<clock, table, locks, stage, own>>

Tick ==
  /\ clock < MaxTime
  /\ clock' = clock + 1
  /\ UNCHANGED <<known, table, locks, stage, own>>

Proceed(w) ==
  FindNone(w) \/ Pass(w) \/ Reject(w) \/ LockUser(w) \/ Judge(w) \/ Clear(w)
  \/ Count(w) \/ TryInsert(w) \/ Insert(w) \/ CountFirst(w) \/ Fail(w)

Next ==
  \/ Tick \/ CreateAccount
  \/ \E w \in Workers : Arrive(w) \/ Proceed(w) \/ DetectDeadlock(w) \/ Abort(w)

Fairness == \A w \in Workers : SF_vars(Proceed(w)) /\ WF_vars(DetectDeadlock(w))

Spec == Init /\ [][Next]_vars /\ Fairness

-----------------------------------------------------------------------------
(* Properties                                                              *)

Stages == {"idle", "enforce", "user", "judge", "clear", "record", "insert", "inserted", "reselect"}

(* The locks are held only by requests that have come that far, and of a key *)
(* there is one row, committed or not.                                      *)
TypeOK ==
  /\ clock \in Times /\ known \in BOOLEAN
  /\ throttle \in [count : Nat, start : Times \union {Never}, until : 0..(MaxTime + Block) \union {Never}]
  /\ throttle.count = 0 <=> throttle = NoRow
  /\ rowLock \in {w \in Workers : stage[w] \in {"user", "judge", "clear", "record"}} \union {NoWorker}
  /\ userLock \in {w \in Workers : stage[w] \notin {"idle", "enforce", "user"}} \union {NoWorker}
  /\ inserter \in {w \in Workers : stage[w] = "inserted"} \union {NoWorker}
  /\ inserter # NoWorker => throttle = NoRow
  /\ stage \in [Workers -> Stages]
  /\ now \in [Workers -> Times \union {Never}] /\ entered \in [Workers -> Times \union {Never}]

(* The row counts every failure answered since its window began, whoever     *)
(* created it and whoever counted at the same time, and none that was not   *)
(* answered since the last success.                                         *)
CountsEveryFailure ==
  throttle # NoRow =>
    throttle.count \in Missed({t \in Times : t >= throttle.start}) .. Missed(Times)

(* Who read the row is judged only if no block was in force when they did:  *)
(* no failure that is counted meanwhile slips a block in between.           *)
PassedBeforeBlock ==
  \A w \in Workers :
    stage[w] \in {"user", "judge", "clear", "record"} /\ seen[w] # NoRow =>
      throttle.until <= entered[w]

(* Logins that wait for the row of the key and the row of the account in    *)
(* different orders, or for each other's new row, never hang.               *)
EveryLoginEnds == \A w \in Workers : stage[w] # "idle" ~> stage[w] = "idle"
==============================================================================
