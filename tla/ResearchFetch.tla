----------------------------- MODULE ResearchFetch ------------------------------
(***************************************************************************)
(* One call of ResearchFetcher.fetch (research_fetcher.py) for a registered  *)
(* source (research_policy.py): preflight a URL, try the resolved addresses  *)
(* one after the other, follow redirects by hand.  The name service answers  *)
(* anew, and as it likes, each time it is asked.  Exceptions that stop the   *)
(* process (KeyboardInterrupt, MemoryError) are left out.                    *)
(***************************************************************************)
EXTENDS FiniteSets, Integers

CONSTANTS
  Hosts, Allowed,       \* the hosts of URLs, as they are spelled, and those the source allows
  Unwritable,           \* hosts of URLs whose request http.client cannot encode: a name
                        \* beyond Latin-1, or a path with half a surrogate pair
  Public, Private,      \* addresses
  Nowhere,              \* no address
  MaxRedirects,         \* of the source
  MaxResponse,          \* max_response_bytes of the source
  MaxAttempts           \* _MAX_CONNECTION_ATTEMPTS

(* What __post_init__ makes of a source policy, or refuses. *)
PolicyIsValid ==
  /\ Allowed # {} /\ Allowed \subseteq Hosts
  /\ MaxRedirects \in 0..10
  /\ MaxResponse \in 1..(10 * 1024 * 1024)

Addresses == Public \union Private

VARIABLES
  fetch,                \* where the call is
  host,                 \* of the preflight in force
  addresses,            \* resolved by it
  tried,                \* and tried already
  peer,                 \* address of the connection in use
  redirects,            \* redirect_count
  open,                 \* connections that are open
  received,             \* bytes of a response that were read, of one that is no redirect
  dns,                  \* history: what the name service last said of a host
  requests              \* history: GET requests sent

vars == <<fetch, host, addresses, tried, peer, redirects, open, received, dns, requests>>

net == <<open, requests>>

Init ==
  /\ fetch = "start"
  /\ host \in Hosts
  /\ addresses = {} /\ tried = {} /\ peer = Nowhere
  /\ redirects = 0 /\ open = 0 /\ received = 0 /\ requests = 0
  /\ dns = [h \in Hosts |-> {}]

(* mutant: a redirect keeps the addresses of the hop before *)
KeptAddresses(answer) == IF fetch = "start" THEN answer ELSE dns[host]

Resolved(answer) == answer

(* preflight or redirect to a URL on h: _validate_source_url, then          *)
(* resolve_public_target, which refuses a name with any private address.     *)
Enter(h) ==
  \E answer \in SUBSET Addresses :
    /\ dns' = IF h \in Allowed THEN [dns EXCEPT ![h] = answer] ELSE dns
    /\ IF h \in Allowed /\ answer # {} /\ answer \subseteq Public
       THEN /\ fetch' = IF Cardinality(answer) > MaxAttempts THEN "raise" ELSE "connect"
            /\ host' = h /\ addresses' = Resolved(answer) /\ tried' = {}
       ELSE fetch' = "raise" /\ UNCHANGED <<host, addresses, tried>>

(* _validate_fetch_url and preflight *)
Preflight ==
  /\ fetch = "start"
  /\ \/ Enter(host)
     \/ fetch' = "raise" /\ UNCHANGED <<host, addresses, tried, dns>>
  /\ UNCHANGED <<peer, redirects, received, net>>

(* OSError, SSLError, HTTPException and ResearchTargetDenied are caught: what  *)
(* was opened for this address is closed, and the next one is tried.        *)
NextAddress == UNCHANGED <<fetch, peer, open>>

(* Anything else ends the call.  That leaves nothing open while there is no  *)
(* socket yet: the factory raises, the name is none that TLS can ask for     *)
(* (the pinned connection closes the raw socket), or the connection shows    *)
(* none.                                                                  *)
NotConnected == fetch' = "raise" /\ UNCHANGED <<peer, open>>

(* A request that cannot be encoded raises UnicodeEncodeError at putheader or *)
(* _request_target: nothing was sent, and nobody closes the connection.      *)
Abandon == fetch' = "raise" /\ open' = open + 1 /\ UNCHANGED <<peer, requests>>

(* endheaders and getresponse *)
Exchange(p) ==
  /\ requests' = requests + 1
  /\ \/ fetch' = "response" /\ peer' = p /\ open' = open + 1
     \/ NextAddress

(* validate_connected_peer *)
Vetted(p) == p \in Public \intersect addresses

(* _request_once, one address, which is connected to and not the name; whom   *)
(* that reaches is asked of the socket.                                     *)
Attempt ==
  /\ fetch = "connect"
  /\ \E a \in addresses \ tried : tried' = tried \union {a}
  /\ \/ (NextAddress \/ NotConnected) /\ UNCHANGED requests
     \/ \E p \in Addresses :
          \/ ~Vetted(p) /\ NextAddress /\ UNCHANGED requests
          \/ Vetted(p) /\ host \in Unwritable /\ Abandon
          \/ Vetted(p) /\ host \notin Unwritable /\ Exchange(p)
  /\ UNCHANGED <<host, addresses, redirects, received, dns>>

NoneLeft ==
  /\ fetch = "connect" /\ addresses \subseteq tried
  /\ fetch' = "raise"
  /\ UNCHANGED <<host, addresses, tried, peer, redirects, received, dns, net>>

Close == open' = open - 1 /\ peer' = Nowhere

Followed == redirects + 1

(* A redirect, to a URL that may have a fragment or be too long.  http.client *)
(* reads a Location as Latin-1, so the request for it can be encoded.        *)
Redirect ==
  /\ fetch = "response" /\ redirects < MaxRedirects
  /\ \E h \in Hosts \ Unwritable : Enter(h)
  /\ redirects' = IF fetch' = "connect" THEN Followed ELSE redirects
  /\ Close /\ UNCHANGED <<received, requests>>

(* Too many redirects, no Location, an error status, or no answer in time. *)
Refuse ==
  /\ fetch = "response"
  /\ fetch' = "raise"
  /\ Close /\ UNCHANGED <<host, addresses, tried, redirects, received, dns, requests>>

(* The Content-Length headers of a response and the value of the first, or -1  *)
(* when it is no natural number; and the bytes there are to read.            *)
Responses ==
  [ headersFit : BOOLEAN, lengths : 0..2, declared : -1..(MaxResponse + 1),
    transfer : {"none", "chunked", "other"}, encoded : BOOLEAN,
    type : {"missing", "allowed", "other"}, size : 0..(MaxResponse + 2) ]

(* _validate_response_framing *)
WellFramed(r) ==
  /\ r.headersFit
  /\ r.lengths <= 1
  /\ r.lengths = 0 \/ r.transfer = "none"
  /\ r.transfer # "other"
  /\ ~r.encoded

(* _content_metadata *)
Readable(r) == r.type = "allowed"

(* _read_bounded_body: what is declared is judged, and one byte more than is   *)
(* allowed is asked for; http.client gives no more than was declared.        *)
DeclaredFits(r) == r.lengths = 0 \/ r.declared \in 0..MaxResponse

BytesRead(r) ==
  LET most == IF r.lengths = 0 THEN MaxResponse + 1 ELSE r.declared
  IN IF r.size < most THEN r.size ELSE most

Judge ==
  /\ fetch = "response"
  /\ \E r \in Responses :
       IF WellFramed(r) /\ Readable(r) /\ DeclaredFits(r)
       THEN /\ received' = BytesRead(r)
            /\ fetch' = IF BytesRead(r) > MaxResponse THEN "raise" ELSE "return"
       ELSE fetch' = "raise" /\ UNCHANGED received
  /\ Close /\ UNCHANGED <<host, addresses, tried, redirects, dns, requests>>

(* The trace is emitted last; a sink that raises replaces the result. *)
Emit ==
  /\ fetch \in {"return", "raise"}
  /\ fetch' \in {"returned", "raised"}
  /\ fetch = "raise" => fetch' = "raised"
  /\ UNCHANGED <<host, addresses, tried, peer, redirects, received, dns, net>>

Step == Preflight \/ Attempt \/ NoneLeft \/ Redirect \/ Refuse \/ Judge \/ Emit

Ended == fetch \in {"returned", "raised"}

-----------------------------------------------------------------------------
(* Properties                                                              *)

(* Only allowed hosts and public addresses are ever about to be tried.       *)
TypeOK ==
  /\ fetch \in {"start", "connect", "response", "return", "raise", "returned", "raised"}
  /\ host \in (IF fetch \in {"connect", "response"} THEN Allowed ELSE Hosts)
  /\ addresses \in SUBSET Public /\ tried \subseteq addresses
  /\ peer \in Addresses \union {Nowhere}
  /\ peer # Nowhere <=> fetch = "response"
  /\ open \in Nat /\ requests \in Nat /\ received \in Nat
  /\ dns \in [Hosts -> SUBSET Addresses]

(* The network is bounded by the policy however hosts redirect and names     *)
(* resolve, and so is what is read and what is returned, whatever a response *)
(* declares.                                                               *)
Bounded ==
  /\ redirects \in 0..MaxRedirects
  /\ requests <= MaxAttempts * (redirects + 1)
  /\ received <= MaxResponse + (IF fetch \in {"return", "returned"} THEN 0 ELSE 1)

(* A response that is read, after any number of hops, comes from a public    *)
(* address that this hop's own resolution gave for an allowed host.         *)
PeerOfThisHop ==
  fetch = "response" => host \in Allowed /\ peer \in dns[host] \intersect Public

(* One connection at a time, and none when the call is over, whichever of   *)
(* its many attempts failed, but for one that nobody closes: _request_once   *)
(* (research_fetcher.py:298) catches four kinds of exception, and a request  *)
(* that cannot be encoded raises another.  RESEARCH-TOOL-SECURITY.md:33      *)
(* promises to close the connection for every hop.                         *)
ClosedUnlessUnwritable ==
  /\ open \in {0, 1}
  /\ fetch = "response" => open = 1
  /\ open = 1 =>
       \/ fetch = "response"
       \/ fetch \in {"raise", "raised"} /\ host \in Unwritable
==============================================================================
