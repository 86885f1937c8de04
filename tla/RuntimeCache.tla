----------------------------- MODULE RuntimeCache -------------------------------
(***************************************************************************)
(* The runtime cache of the service worker (static/sw.js) under fetch events *)
(* that overlap.  Each await is a step of its own.  The Cache API is external:*)
(* a put moves its request to the end of the keys.  The browser may stop the  *)
(* worker when nothing keeps an event alive, which loses what its            *)
(* continuations had yet to do.                                             *)
(***************************************************************************)
EXTENDS FiniteSets, Naturals, Sequences, SequencesExt

CONSTANTS
  Events,               \* fetch events
  Urls, Precached,      \* of the requests, and those in the static cache
  MaxEntries            \* MAX_RUNTIME_ENTRIES

VARIABLES
  keys,                 \* of the runtime cache, oldest first
  at,                   \* where each event's continuation is
  url,                  \* of each event
  mode,                 \* "navigate", or "asset" for staleWhileRevalidate
  doomed,               \* the keys a trim is about to delete
  answered,             \* the events whose page has its response
  debt                  \* history: entries left to the next trim

vars == <<keys, at, url, mode, doomed, answered, debt>>

Init ==
  /\ keys = <<>>
  /\ at = [e \in Events |-> "new"]
  /\ url \in [Events -> Urls]
  /\ mode \in [Events -> {"navigate", "asset"}]
  /\ doomed = [e \in Events |-> {}]
  /\ answered = {} /\ debt = 0

Goto(e, s) == at' = [at EXCEPT ![e] = s]

Cached(u) == u \in Range(keys) \union Precached

(* The listener runs to its first await; staleWhileRevalidate answers from  *)
(* the cache if it can, and goes on.                                        *)
Dispatch(e) ==
  /\ at[e] = "new"
  /\ Goto(e, "network")
  /\ answered' = IF mode[e] = "asset" /\ Cached(url[e]) THEN answered \union {e} ELSE answered
  /\ UNCHANGED <<keys, url, mode, doomed, debt>>

Finish(e) == Goto(e, "done") /\ answered' = answered \union {e}

(* A failed fetch, a response that isCacheableResponse turns down, or a put   *)
(* refused for want of space.                                              *)
NotStored(e) ==
  /\ at[e] = "network"
  /\ Finish(e)
  /\ UNCHANGED <<keys, url, mode, doomed, debt>>

Put(e) ==
  /\ at[e] = "network"
  /\ keys' = Append(RemoveFirst(keys, url[e]), url[e])
  /\ Goto(e, "trim")
  /\ debt' = debt + 1
  /\ UNCHANGED <<url, mode, doomed, answered>>

(* mutant: trims one entry at most *)
OneOverflow == IF Len(keys) > MaxEntries THEN 1 ELSE 0

Overflow == IF Len(keys) > MaxEntries THEN Len(keys) - MaxEntries ELSE 0

(* trimRuntimeCache: the keys are read here and deleted later. *)
Survey(e) ==
  /\ at[e] = "trim"
  /\ doomed' = [doomed EXCEPT ![e] = Range(SubSeq(keys, 1, Overflow))]
  /\ Goto(e, "delete")
  /\ debt' = 0
  /\ UNCHANGED <<keys, url, mode, answered>>

Pending == (UNION {doomed[e] : e \in Events}) \intersect Range(keys)

Delete(e) ==
  /\ at[e] = "delete"
  /\ \E k \in doomed[e] :
       /\ keys' = RemoveFirst(keys, k)
       /\ doomed' = [doomed EXCEPT ![e] = @ \ {k}]
  /\ UNCHANGED <<at, url, mode, answered, debt>>

Trimmed(e) ==
  /\ at[e] = "delete" /\ doomed[e] = {}
  /\ Finish(e)
  /\ UNCHANGED <<keys, url, mode, doomed, debt>>

(* The worker is stopped once every page has its response, whatever an       *)
(* asset's revalidation has still to do.                                    *)
Stop ==
  /\ \A e \in Events : at[e] # "new" => e \in answered
  /\ at' = [e \in Events |-> IF at[e] = "new" THEN "new" ELSE "done"]
  /\ doomed' = [e \in Events |-> {}]
  /\ debt' = debt + Cardinality(Pending)
  /\ UNCHANGED <<keys, url, mode, answered>>

Step ==
  \/ Stop
  \/ \E e \in Events : Dispatch(e) \/ NotStored(e) \/ Put(e) \/ Survey(e) \/ Delete(e) \/ Trimmed(e)

-----------------------------------------------------------------------------
(* Properties                                                              *)

(* A request is in the cache once, and only a trim has keys to delete.       *)
TypeOK ==
  /\ keys \in Seq(Urls) /\ IsInjective(keys)
  /\ at \in [Events -> {"new", "network", "trim", "delete", "done"}]
  /\ url \in [Events -> Urls] /\ mode \in [Events -> {"navigate", "asset"}]
  /\ doomed \in [Events -> SUBSET Urls]
  /\ \A e \in Events : doomed[e] # {} => at[e] = "delete"
  /\ answered \subseteq Events /\ debt \in Nat

(* However puts and trims overlap, each trim leaves no more than the bound   *)
(* and what was put after it looked, which a later trim answers for; and     *)
(* the trim after a stopped worker makes up for the one that was lost.       *)
CacheBounded ==
  Cardinality(Range(keys) \ Pending) <= MaxEntries + debt
==============================================================================
