--------------------------- MODULE ServiceCaches ---------------------------
(***************************************************************************)
(* The two caches an API process keeps of what it asks other servers: the  *)
(* OpenRouter model catalog (one entry) and the domain checks (one entry   *)
(* per domain).  Requests overlap wherever they await a server, nothing    *)
(* makes one wait for another, and the clock is read before the first      *)
(* await.                                                                  *)
(*                                                                         *)
(* The field "read" of an entry or an answer is not in the code: it is the *)
(* time the other server produced the content.                             *)
(***************************************************************************)
EXTENDS Integers

CONSTANTS
    Callers,        \* requests that may be in progress together
    Domains,        \* valid public domains that are checked
    CatalogTtl,     \* OPENROUTER_MODEL_CATALOG_CACHE_TTL_SECONDS
    DomainTtl,      \* DOMAIN_CHECK_CACHE_TTL_SECONDS
    Mixes,          \* sets of endpoints that the requests of a behaviour call
    MaxTime         \* bound of the model: the last instant of the clock

ASSUME CachesAssumption ==
    /\ CatalogTtl \in Nat \ {0}
    /\ DomainTtl \in Nat \ {0}
    /\ Mixes \subseteq SUBSET {"model-catalog", "brand-domain/check"}
    /\ MaxTime \in Nat

Time == 0..MaxTime

VARIABLES
    now,        \* the clock
    uses,       \* the endpoints called: a member of Mixes
    preflight,  \* what _preflight_response finds in the environment of the process
    catalog,    \* OpenRouterModelCatalogCache._entry
    checks,     \* _DOMAIN_CHECK_CACHE
    call,       \* [Callers -> Call]: what a request holds while it waits
    answer      \* what the last request to end returned

environment == <<uses, preflight>>

vars == <<now, environment, catalog, checks, call, answer>>

Preflight == {"passed", "provider_disabled", "no_api_key", "configuration_error"}

\* "unreachable": dns_failed, http_failed, timeout, blocked_private_network
DomainStatus == {"reachable", "unreachable"}

NoEntry == [is |-> "none", read |-> 0, stamp |-> 0]

\* "models" and "no_models": a catalog with and without allowed models
CatalogEntry == [is: {"models", "no_models"}, read: Time, stamp: Time] \cup {NoEntry}

CheckEntry == [is: DomainStatus, read: Time, stamp: Time] \cup {NoEntry}

Idle == [stage |-> "idle", domain |-> "", since |-> 0, cached |-> NoEntry, got |-> NoEntry]

Call == [stage: {"idle", "download", "downloaded", "resolve", "get", "got"},
         domain: Domains \cup {""},
         since: Time,                       \* now, checked_at
         cached: CatalogEntry,              \* the entry seen at the start
         got: CatalogEntry \cup CheckEntry] \* what the server said

NoAnswer == [is |-> "none", read |-> 0, begun |-> 0, ttl |-> 1, warned |-> FALSE, had |-> FALSE]

Answer == [is: {"none", "refused", "unavailable", "error", "models", "no_models"} \cup DomainStatus,
           read: Time, begun: Time, ttl: {1, CatalogTtl, DomainTtl},
           warned: BOOLEAN,     \* CATALOG_REFRESH_FAILED_WARNING
           had: BOOLEAN]        \* a catalog was stored when the request began

TypeOK ==
    /\ now \in Time
    /\ uses \in Mixes
    /\ preflight \in Preflight
    /\ catalog \in CatalogEntry
    /\ checks \in [Domains -> CheckEntry]
    /\ call \in [Callers -> Call]
    /\ answer \in Answer

Init ==
    /\ now = 0
    /\ uses \in Mixes
    /\ preflight \in Preflight
    /\ catalog = NoEntry
    /\ checks = [d \in Domains |-> NoEntry]
    /\ call = [c \in Callers |-> Idle]
    /\ answer = NoAnswer

Tick ==
    /\ now < MaxTime
    /\ now' = now + 1
    /\ UNCHANGED <<environment, catalog, checks, call, answer>>

\* expires_at > now
IsFresh(entry, ttl) == entry.is # "none" /\ entry.stamp + ttl > now

\* The request of c ends with the content of an entry.
Return(c, entry, begun, ttl, warned, had) ==
    /\ answer' = [is |-> entry.is, read |-> entry.read, begun |-> begun, ttl |-> ttl,
                  warned |-> warned, had |-> had]
    /\ call' = [call EXCEPT ![c] = Idle]

\* The request of c ends without content.
ReturnNothing(c, kind, begun, had) ==
    /\ answer' = [NoAnswer EXCEPT !.is = kind, !.begun = begun, !.had = had]
    /\ call' = [call EXCEPT ![c] = Idle]

-----------------------------------------------------------------------------
(* GET /model-catalog.                                                     *)

\* the 503 of the endpoint: a diagnostic and no families
RefuseCatalog(c) ==
    /\ call[c].stage = "idle"
    /\ preflight # "passed"
    /\ ReturnNothing(c, "refused", now, catalog # NoEntry)
    /\ UNCHANGED <<now, environment, catalog, checks>>

ServeCatalog(c) ==
    /\ call[c].stage = "idle"
    /\ preflight = "passed"
    /\ IsFresh(catalog, CatalogTtl)
    /\ Return(c, catalog, now, CatalogTtl, FALSE, TRUE)
    /\ UNCHANGED <<now, environment, catalog, checks>>

BeginDownload(c) ==
    /\ call[c].stage = "idle"
    /\ preflight = "passed"
    /\ ~ IsFresh(catalog, CatalogTtl)
    /\ call' = [call EXCEPT ![c] = [Idle EXCEPT !.stage = "download", !.since = now,
                                                !.cached = catalog]]
    /\ UNCHANGED <<now, environment, catalog, checks, answer>>

\* the server answers: a list with models the process allows, or without
AnswerDownload(c) ==
    /\ call[c].stage = "download"
    /\ \E is \in {"models", "no_models"} :
         call' = [call EXCEPT ![c].stage = "downloaded",
                              ![c].got = [is |-> is, read |-> now, stamp |-> 0]]
    /\ UNCHANGED <<now, environment, catalog, checks, answer>>

\* mutant: the clock is read after the download
StampOfArrival(c) == now

\* mutant: the time of expiry is stored where the time of the request belongs
StampOfExpiry(c) == call[c].since + CatalogTtl

\* cached_at, checked_at: the clock as read before the first await
Stamp(c) == call[c].since

\* mutant: a request stores its catalog when no other request is downloading
StoreCatalogAlone(c) ==
    /\ \A other \in Callers \ {c} : call[other].stage \notin {"download", "downloaded"}
    /\ call[c].stage = "downloaded"
    /\ LET entry == [call[c].got EXCEPT !.stamp = Stamp(c)]
       IN  /\ catalog' = entry
           /\ Return(c, entry, call[c].since, CatalogTtl, FALSE, call[c].cached # NoEntry)
    /\ UNCHANGED <<now, environment, checks>>

StoreCatalog(c) ==
    /\ call[c].stage = "downloaded"
    /\ LET entry == [call[c].got EXCEPT !.stamp = Stamp(c)]
       IN  /\ catalog' = entry
           /\ Return(c, entry, call[c].since, CatalogTtl, FALSE, call[c].cached # NoEntry)
    /\ UNCHANGED <<now, environment, checks>>

\* mutant: an entry is served after a failure only while it is fresh
FreshFallback(entry) == IsFresh(entry, CatalogTtl)

\* cached is not None
HasFallback(entry) == entry # NoEntry

FailDownload(c) ==
    LET cached == call[c].cached
    IN  /\ call[c].stage = "download"
        /\ \/ /\ HasFallback(cached)
              /\ Return(c, cached, call[c].since, CatalogTtl, TRUE, TRUE)
           \/ /\ ~ HasFallback(cached)
              /\ ReturnNothing(c, "unavailable", call[c].since, cached # NoEntry)
        /\ UNCHANGED <<now, environment, catalog, checks>>

-----------------------------------------------------------------------------
(* POST /brand-domain/check, for a domain that is valid and public.        *)

ServeCheck(c, d) ==
    /\ call[c].stage = "idle"
    /\ IsFresh(checks[d], DomainTtl)
    /\ Return(c, checks[d], now, DomainTtl, FALSE, FALSE)
    /\ UNCHANGED <<now, environment, catalog, checks>>

BeginCheck(c, d) ==
    /\ call[c].stage = "idle"
    /\ ~ IsFresh(checks[d], DomainTtl)
    /\ call' = [call EXCEPT ![c] = [Idle EXCEPT !.stage = "resolve", !.domain = d, !.since = now]]
    /\ UNCHANGED <<now, environment, catalog, checks, answer>>

\* verdicts of the name servers, which need no connection: gaierror, TimeoutError,
\* no address, or a private one among the addresses
RejectName(c) ==
    /\ call[c].stage = "resolve"
    /\ call' = [call EXCEPT ![c].stage = "got",
                            ![c].got = [is |-> "unreachable", read |-> now, stamp |-> 0]]
    /\ UNCHANGED <<now, environment, catalog, checks, answer>>

ResolveName(c) ==
    /\ call[c].stage = "resolve"
    /\ call' = [call EXCEPT ![c].stage = "get"]
    /\ UNCHANGED <<now, environment, catalog, checks, answer>>

\* the response of the site, or the exception that is its verdict
AnswerGet(c) ==
    /\ call[c].stage = "get"
    /\ \E status \in DomainStatus :
         call' = [call EXCEPT ![c].stage = "got",
                              ![c].got = [is |-> status, read |-> now, stamp |-> 0]]
    /\ UNCHANGED <<now, environment, catalog, checks, answer>>

\* _cache_result: every verdict is kept, failures too
StoreCheck(c) ==
    /\ call[c].stage = "got"
    /\ LET entry == [call[c].got EXCEPT !.stamp = Stamp(c)]
       IN  /\ checks' = [checks EXCEPT ![call[c].domain] = entry]
           /\ Return(c, entry, call[c].since, DomainTtl, FALSE, FALSE)
    /\ UNCHANGED <<now, environment, catalog>>

\* an exception no clause names: the request fails and nothing is kept
RaiseInCheck(c) ==
    /\ call[c].stage \in {"resolve", "get"}
    /\ ReturnNothing(c, "error", call[c].since, FALSE)
    /\ UNCHANGED <<now, environment, catalog, checks>>

-----------------------------------------------------------------------------
Begin(c) ==
    \/ "model-catalog" \in uses /\ (RefuseCatalog(c) \/ ServeCatalog(c) \/ BeginDownload(c))
    \/ "brand-domain/check" \in uses /\ \E d \in Domains : ServeCheck(c, d) \/ BeginCheck(c, d)

Continue(c) ==
    \/ AnswerDownload(c)
    \/ StoreCatalog(c)
    \/ FailDownload(c)
    \/ RejectName(c)
    \/ ResolveName(c)
    \/ AnswerGet(c)
    \/ StoreCheck(c)
    \/ RaiseInCheck(c)

Next ==
    \/ Tick
    \/ \E c \in Callers : Begin(c) \/ Continue(c)

Spec == Init /\ [][Next]_vars

\* the servers answer or the client's time-out ends the wait
FairSpec == Spec /\ \A c \in Callers : WF_vars(Continue(c))

-----------------------------------------------------------------------------
(* Properties.                                                             *)

\* However refreshes overlap and overwrite each other, an answer without a warning
\* was produced by the other server less than one TTL before the request began.
AnswersAreFresh ==
    answer.is \in {"models", "no_models"} \cup DomainStatus /\ ~ answer.warned
      => answer.read + answer.ttl > answer.begun

\* Once a catalog was downloaded, a later request is never told that there is none.
LoadedCatalogStaysAvailable ==
    answer.is = "unavailable" => ~ answer.had

\* No request waits for another one: each ends.
CallsEnd == \A c \in Callers : call[c].stage # "idle" ~> call[c].stage = "idle"

\* A newer catalog is not replaced by an older one.
NewestCatalogWins == [][catalog'.stamp >= catalog.stamp]_catalog
=============================================================================
