----------------------------- MODULE StagingEvidence -----------------------------
(***************************************************************************)
(* run_probe (staging_probe.py) and run_load_probe (staging_load_probe.py),   *)
(* which runs it as a preflight: requests to a staging deployment, one after  *)
(* the other or a few at a time, over addresses that were resolved once, and  *)
(* the evidence that is written at the end, for the revision the operator     *)
(* expects.  The deployment, the network and the name service behave as they  *)
(* like; a deploy may happen meanwhile.                                     *)
(***************************************************************************)
EXTENDS FiniteSets, Sequences, Functions

CONSTANTS
  Samples,              \* latency samples of a probe
  TotalRequests,        \* TOTAL_REQUESTS of the load
  Concurrency           \* CONCURRENCY of the load

VARIABLES
  probe,                \* what the script is doing
  load,                 \* is it the load probe?
  deployed,             \* external: which revision is being served
  usable,               \* the addresses that were resolved
  failures,             \* the checks that failed
  socket,               \* what each request holds: nothing, a socket, or a
                        \* connection over it; "leaked" if nobody closed it
  attempt, overdue,     \* its address, and whether its deadline passed
  duration,             \* of each search that was answered, NoAnswer if it failed
  evidence,             \* "none", "pass" or "fail"
  served, spoilt        \* history: revision in the deployment check; bad answers

vars == <<probe, load, deployed, usable, failures, socket, attempt, overdue, duration, evidence, served, spoilt>>

requests == <<socket, attempt, overdue>>

Main == 0
Searches == 1..TotalRequests
Exchanges == {Main} \union Searches

Checks == <<"liveness", "readiness", "deployment", "capabilities", "host">>

NoAnswer == 0
Waiting == 1
Slow == 2600
Durations == {1000, Slow, 9000}

Init ==
  /\ probe = "resolve" /\ load \in BOOLEAN /\ deployed \in {"expected", "other"}
  /\ usable = {} /\ failures = {}
  /\ socket = [r \in Exchanges |-> "none"] /\ attempt = [r \in Exchanges |-> 0]
  /\ overdue = [r \in Exchanges |-> FALSE]
  /\ duration = [r \in Searches |-> Waiting]
  /\ evidence = "none" /\ served = "none" /\ spoilt = {}

Deploy ==
  /\ deployed = "expected" /\ deployed' = "other"
  /\ UNCHANGED <<probe, load, usable, failures, requests, duration, evidence, served, spoilt>>

(* main turns any exception into evidence of a failure. *)
Write(verdict) == probe' = "done" /\ evidence' = verdict

(* mutant: only the first address is looked at *)
FirstIsPublic(records) == records # {} /\ ("first" \in records \/ "private" \notin records)

AllPublic(records) == records # {} /\ "private" \notin records

Resolve ==
  /\ probe = "resolve"
  /\ \E records \in SUBSET {"first", "private", "second"} :
       IF AllPublic(records)
       THEN probe' = Checks[1] /\ usable' = records /\ UNCHANGED evidence
       ELSE Write("fail") /\ UNCHANGED usable
  /\ UNCHANGED <<load, deployed, failures, requests, duration, served, spoilt>>

(* _request: sorted addresses, one after the other, within one deadline.     *)
Address(n) == CHOOSE a \in usable : Cardinality({b \in usable : b = "first" /\ a = "second"}) = n - 1

Asking(r) ==
  IF r = Main THEN probe \in Range(Checks) \union {"sample1", "sample2", "sample3"}
  ELSE probe = "load" /\ duration[r] = Waiting

Busy == {r \in Searches : attempt[r] > 0 /\ duration[r] = Waiting}

Idle(r) == socket[r] \in {"none", "leaked"}

(* A thread of the pool is free for the next search. *)
May(r) == attempt[r] > 0 \/ r = Main \/ (Cardinality(Busy) < Concurrency /\ \A s \in Searches : s < r => attempt[s] > 0)

Connect(r) ==
  /\ Asking(r) /\ May(r) /\ Idle(r) /\ attempt[r] < Cardinality(usable)
  /\ attempt[r] = 0 \/ ~overdue[r]
  /\ attempt' = [attempt EXCEPT ![r] = @ + 1]
  /\ \/ socket' = [socket EXCEPT ![r] = "raw"] /\ UNCHANGED overdue
     \/ UNCHANGED socket /\ overdue' \in {overdue, [overdue EXCEPT ![r] = TRUE]}   \* refused, or too late
  /\ UNCHANGED <<probe, load, deployed, usable, failures, duration, evidence, served, spoilt>>

Handshake(r) ==
  /\ socket[r] = "raw"
  /\ socket' = [socket EXCEPT ![r] = "connection"]
  /\ UNCHANGED <<probe, load, deployed, usable, failures, attempt, overdue, duration, evidence, served, spoilt>>

(* mutant: a handshake that fails keeps the raw socket *)
KeptRaw(held) == IF held = "raw" THEN "leaked" ELSE "none"

(* The finally clause closes whatever the attempt holds. *)
Closed(held) == "none"

(* A refusal, a broken or endless answer, or the deadline, at any point. *)
AttemptFails(r) ==
  /\ ~Idle(r)
  /\ socket' = [socket EXCEPT ![r] = Closed(@)]
  /\ overdue' \in {overdue, [overdue EXCEPT ![r] = TRUE]}
  /\ UNCHANGED <<probe, load, deployed, usable, failures, attempt, duration, evidence, served, spoilt>>

Exhausted(r) == Asking(r) /\ Idle(r) /\ attempt[r] > 0 /\ (overdue[r] \/ attempt[r] = Cardinality(usable))

(* The next request starts anew. *)
Fresh(r) ==
  /\ socket' = [socket EXCEPT ![r] = Closed(@)]
  /\ attempt' = [attempt EXCEPT ![r] = 0]
  /\ overdue' = [overdue EXCEPT ![r] = FALSE]

(* All attempts of a request of the probe failed: the probe raises.           *)
ProbeRaises ==
  /\ Exhausted(Main)
  /\ Write("fail")
  /\ UNCHANGED <<load, deployed, usable, failures, requests, duration, served, spoilt>>

(* What a check accepts of an answer: its status, its body and, of the        *)
(* deployment, the revision it names; of a latency sample, its status only.   *)
Passes(check, status, body, revision) ==
  IF check = "host" THEN status = "rejected"
  ELSE /\ status = "ok"
       /\ check \in Range(Checks) => body = "as required"
       /\ check = "deployment" => revision = "expected"

Follows(stage) ==
  CASE stage = "host" -> "sample1"
    [] stage \in Range(Checks) \ {"host"} -> Checks[CHOOSE i \in 2..Len(Checks) : Checks[i - 1] = stage]
    [] stage = "sample1" -> IF Samples > 1 THEN "sample2" ELSE "judge"
    [] stage = "sample2" -> IF Samples > 2 THEN "sample3" ELSE "judge"
    [] stage = "sample3" -> "judge"

(* A failed check is noted and the probe goes on to the next. *)
ProbeAnswered ==
  /\ socket[Main] = "connection" /\ Asking(Main)
  /\ \E status \in {"ok", "rejected", "error"}, body \in {"as required", "wrong", "malformed"} :
       LET good == Passes(probe, status, body, deployed) IN
       /\ failures' = IF good THEN failures ELSE failures \union {probe}
       /\ spoilt' = IF good THEN spoilt ELSE spoilt \union {Address(attempt[Main])}
  /\ served' = IF probe = "deployment" THEN deployed ELSE served
  /\ probe' = Follows(probe)
  /\ Fresh(Main)
  /\ UNCHANGED <<load, deployed, usable, duration, evidence>>

(* overall_pass; the load begins only after a probe that passed. *)
Judge ==
  /\ probe = "judge"
  /\ IF failures # {} THEN Write("fail")
     ELSE IF load THEN probe' = "load" /\ UNCHANGED evidence
     ELSE Write("pass")
  /\ UNCHANGED <<load, deployed, usable, failures, requests, duration, served, spoilt>>

(* _one_search turns every failure into a sample with an error. *)
SearchAnswered(r) ==
  /\ socket[r] = "connection"
  /\ duration' \in {[duration EXCEPT ![r] = d] : d \in Durations \union {NoAnswer}}
  /\ socket' = [socket EXCEPT ![r] = Closed(@)]
  /\ UNCHANGED <<probe, load, deployed, usable, failures, attempt, overdue, evidence, served, spoilt>>

SearchFails(r) ==
  /\ Exhausted(r)
  /\ duration' = [duration EXCEPT ![r] = NoAnswer]
  /\ UNCHANGED <<probe, load, deployed, usable, failures, requests, evidence, served, spoilt>>

(* sorted(values), at the n-th place: fewer than n values are less. *)
Ordered(values, n) ==
  CHOOSE v \in Range(values) :
    /\ Cardinality({i \in DOMAIN values : values[i] < v}) < n
    /\ Cardinality({i \in DOMAIN values : values[i] <= v}) >= n

(* _percentile, times 100: interpolated between the neighbours. *)
Percentile(values, q) ==
  LET position == (Len(values) - 1) * q
      low == Ordered(values, position \div 100 + 1)
      high == Ordered(values, (position + 99) \div 100 + 1)
  IN 100 * low + (position % 100) * (high - low)

(* _slo_failures: no failed request, and the budgets of p95, p99 and maximum. *)
WithinSlo ==
  /\ \A r \in Searches : duration[r] # NoAnswer
  /\ LET values == [r \in Searches |-> duration[r]] IN
     Percentile(values, 95) <= 250000 /\ Percentile(values, 99) <= 500000 /\ Percentile(values, 100) <= 800000

Summarize ==
  /\ probe = "load" /\ \A r \in Searches : duration[r] # Waiting
  /\ Write(IF WithinSlo THEN "pass" ELSE "fail")
  /\ UNCHANGED <<load, deployed, usable, failures, requests, duration, served, spoilt>>

Step ==
  \/ Deploy \/ Resolve \/ ProbeRaises \/ ProbeAnswered \/ Judge \/ Summarize
  \/ \E r \in Exchanges : Connect(r) \/ Handshake(r) \/ AttemptFails(r)
  \/ \E r \in Searches : SearchAnswered(r) \/ SearchFails(r)

-----------------------------------------------------------------------------
(* Properties                                                              *)

TypeOK ==
  /\ socket \in [Exchanges -> {"none", "raw", "connection", "leaked"}]
  /\ attempt \in [Exchanges -> 0..2] /\ overdue \in [Exchanges -> BOOLEAN]
  /\ duration \in [Searches -> Durations \union {NoAnswer, Waiting}]
  /\ evidence \in {"none", "pass", "fail"} /\ Cardinality(Busy) <= Concurrency

(* Evidence that passes comes from public addresses and from answers that     *)
(* were all as required, of the expected revision when it was asked for, and  *)
(* the load that it reports was run in full, none of it slower than a budget  *)
(* and only after its preflight passed.  Whatever fails, no connection is     *)
(* left open.                                                              *)
EvidenceHonest ==
  /\ evidence = "pass" =>
       /\ usable # {} /\ "private" \notin usable
       /\ spoilt = {} /\ served = "expected"
       /\ load => \A r \in Searches : duration[r] \in {1000, Slow} /\ attempt[r] > 0
  /\ (\E r \in Searches : attempt[r] > 0) => failures = {} /\ spoilt = {}
  /\ probe \in {"judge", "done"} => \A r \in Exchanges : socket[r] = "none"
==============================================================================
