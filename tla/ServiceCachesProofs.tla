------------------------ MODULE ServiceCachesProofs ------------------------
(***************************************************************************)
(* Theorems about ServiceCaches, for any number of requests and domains,   *)
(* any times to live and any bound of the clock.                           *)
(***************************************************************************)
EXTENDS ServiceCaches, TLAPS

-----------------------------------------------------------------------------
(* An entry is never older than its stamp: the clock was read before the   *)
(* server was asked.                                                       *)

IsHonest(entry) == entry.is # "none" => entry.read >= entry.stamp

EntriesAreHonest ==
    /\ IsHonest(catalog)
    /\ \A d \in Domains : IsHonest(checks[d])

\* What a request holds while it waits.
Holds(c) ==
    /\ call[c].since <= now
    /\ call[c].stage = "downloaded" =>
          call[c].got.is \in {"models", "no_models"} /\ call[c].got.read >= call[c].since
    /\ call[c].stage = "got" =>
          call[c].got.is \in DomainStatus /\ call[c].got.read >= call[c].since
    /\ call[c].stage \in {"resolve", "get", "got"} => call[c].domain \in Domains

CallsAreHonest == \A c \in Callers : Holds(c)

IInv ==
    /\ TypeOK
    /\ EntriesAreHonest
    /\ CallsAreHonest
    /\ AnswersAreFresh
    /\ LoadedCatalogStaysAvailable

-----------------------------------------------------------------------------
LEMMA ZeroIsATime == 0 \in Time /\ Time \subseteq Nat
BY CachesAssumption DEF CachesAssumption, Time

LEMMA NoEntryType == NoEntry \in CatalogEntry /\ NoEntry \in CheckEntry
BY DEF CatalogEntry, CheckEntry

LEMMA IdleType == Idle \in Call /\ Idle.since = 0 /\ Idle.stage = "idle"
<1>1. NoEntry \in CatalogEntry \cup CheckEntry
  BY NoEntryType
<1> QED
  BY <1>1, NoEntryType, ZeroIsATime DEF Idle, Call

LEMMA NothingIsAnAnswer ==
  ASSUME NEW kind \in {"none", "refused", "unavailable", "error"}, NEW begun \in Time,
         NEW had \in BOOLEAN
  PROVE  LET nothing == [NoAnswer EXCEPT !.is = kind, !.begun = begun, !.had = had]
         IN  nothing \in Answer /\ nothing.is = kind /\ nothing.had = had
BY ZeroIsATime DEF NoAnswer, Answer

LEMMA InitIsHonest == Init => IInv
<1> SUFFICES ASSUME Init PROVE IInv
  OBVIOUS
<1>1. NoAnswer \in Answer /\ NoAnswer.is = "none"
  BY ZeroIsATime DEF NoAnswer, Answer
<1>2. TypeOK
  BY <1>1, ZeroIsATime, NoEntryType, IdleType DEF Init, TypeOK
<1>3. EntriesAreHonest
  BY DEF Init, EntriesAreHonest, IsHonest, NoEntry
<1>4. CallsAreHonest
  <2> SUFFICES ASSUME NEW c \in Callers PROVE Holds(c)
    BY DEF CallsAreHonest
  <2>1. call[c] = Idle /\ now = 0
    BY DEF Init
  <2>2. call[c].since = 0 /\ call[c].stage = "idle"
    BY <2>1, IdleType
  <2> QED
    BY <2>1, <2>2 DEF Holds
<1>5. AnswersAreFresh /\ LoadedCatalogStaysAvailable
  BY <1>1 DEF Init, AnswersAreFresh, LoadedCatalogStaysAvailable, DomainStatus
<1> QED
  BY <1>2, <1>3, <1>4, <1>5 DEF IInv

\* A request that starts to wait, or learns something, keeps the invariant.
LEMMA WaitingIsHonest ==
  ASSUME IInv, NEW c \in Callers, NEW held \in Call,
         call' = [call EXCEPT ![c] = held],
         Holds(c)',
         UNCHANGED <<now, environment, catalog, checks, answer>>
  PROVE  IInv'
<1>1. TypeOK'
  BY DEF IInv, TypeOK, environment
<1>2. CallsAreHonest'
  BY DEF IInv, TypeOK, CallsAreHonest, Holds
<1>3. EntriesAreHonest' /\ AnswersAreFresh' /\ LoadedCatalogStaysAvailable'
  BY DEF IInv, EntriesAreHonest, IsHonest, AnswersAreFresh, LoadedCatalogStaysAvailable
<1> QED
  BY <1>1, <1>2, <1>3 DEF IInv

\* A request that ends becomes idle.
LEMMA EndingIsHonest ==
  ASSUME IInv, NEW c \in Callers, call' = [call EXCEPT ![c] = Idle], now' = now
  PROVE  call' \in [Callers -> Call] /\ CallsAreHonest'
<1>1. now \in Nat
  BY ZeroIsATime DEF IInv, TypeOK
<1> QED
  BY <1>1, IdleType DEF IInv, TypeOK, CallsAreHonest, Holds

LEMMA TickIsHonest == IInv /\ Tick => IInv'
<1> SUFFICES ASSUME IInv, Tick PROVE IInv'
  OBVIOUS
<1>1. now' \in Time /\ now' >= now
  BY CachesAssumption DEF Tick, IInv, TypeOK, Time, CachesAssumption
<1>2. TypeOK'
  BY <1>1 DEF Tick, IInv, TypeOK, environment
<1>3. CallsAreHonest'
  <2> SUFFICES ASSUME NEW c \in Callers PROVE Holds(c)'
    BY DEF CallsAreHonest
  <2>1. Holds(c) /\ call[c].since \in Int /\ now \in Int /\ now' \in Int
    <3>1. call[c] \in Call /\ Holds(c) /\ now \in Time
      BY DEF IInv, TypeOK, CallsAreHonest
    <3>2. call[c].since \in Time
      BY <3>1 DEF Call
    <3>3. call[c].since \in Nat /\ now \in Nat /\ now' \in Nat
      BY <1>1, <3>1, <3>2, ZeroIsATime
    <3> QED
      BY <3>1, <3>3
  <2> QED
    BY <1>1, <2>1 DEF Holds, Tick
<1>4. EntriesAreHonest' /\ AnswersAreFresh' /\ LoadedCatalogStaysAvailable'
  BY DEF Tick, IInv, EntriesAreHonest, IsHonest, AnswersAreFresh, LoadedCatalogStaysAvailable
<1> QED
  BY <1>2, <1>3, <1>4 DEF IInv

-----------------------------------------------------------------------------
(* The steps of a request.                                                 *)

LEMMA BeginIsHonest ==
  ASSUME IInv, NEW c \in Callers, Begin(c)
  PROVE  IInv'
<1> USE CachesAssumption DEF CachesAssumption
<1>1. CASE RefuseCatalog(c)
  <2>1. answer' \in Answer /\ answer'.is = "refused"
    <3>1. PICK had \in BOOLEAN :
            answer' = [NoAnswer EXCEPT !.is = "refused", !.begun = now, !.had = had]
      BY <1>1 DEF RefuseCatalog, ReturnNothing
    <3>2. now \in Time
      BY DEF IInv, TypeOK
    <3> QED
      BY <3>1, <3>2, ZeroIsATime DEF NoAnswer, Answer
  <2>2. call' \in [Callers -> Call] /\ CallsAreHonest'
    BY <1>1, EndingIsHonest DEF RefuseCatalog, ReturnNothing
  <2>3. AnswersAreFresh' /\ LoadedCatalogStaysAvailable'
    BY <2>1 DEF AnswersAreFresh, LoadedCatalogStaysAvailable, DomainStatus
  <2> QED
    BY <1>1, <2>1, <2>2, <2>3
       DEF RefuseCatalog, IInv, TypeOK, EntriesAreHonest, IsHonest, environment
<1>2. CASE ServeCatalog(c)
  <2>1. /\ catalog.is \in {"models", "no_models"}
        /\ catalog.read \in Time /\ catalog.stamp \in Time
    BY <1>2 DEF ServeCatalog, IsFresh, IInv, TypeOK, CatalogEntry, NoEntry
  <2>2. answer' = [is |-> catalog.is, read |-> catalog.read, begun |-> now, ttl |-> CatalogTtl,
                   warned |-> FALSE, had |-> TRUE]
    BY <1>2 DEF ServeCatalog, Return
  <2>3. answer' \in Answer
    BY <2>1, <2>2 DEF Answer, IInv, TypeOK
  <2>4. catalog.read + CatalogTtl > now
    BY <1>2, <2>1 DEF ServeCatalog, IsFresh, IInv, EntriesAreHonest, IsHonest, Time, TypeOK
  <2>5. AnswersAreFresh' /\ LoadedCatalogStaysAvailable'
    BY <2>1, <2>2, <2>4 DEF AnswersAreFresh, LoadedCatalogStaysAvailable
  <2>6. call' \in [Callers -> Call] /\ CallsAreHonest'
    BY <1>2, EndingIsHonest DEF ServeCatalog, Return
  <2> QED
    BY <1>2, <2>3, <2>5, <2>6
       DEF ServeCatalog, IInv, TypeOK, EntriesAreHonest, IsHonest, environment
<1>3. CASE BeginDownload(c)
  <2> DEFINE held == [Idle EXCEPT !.stage = "download", !.since = now, !.cached = catalog]
  <2>1. held \in Call
    BY DEF IInv, TypeOK, Idle, Call, NoEntry, CatalogEntry
  <2>2. Holds(c)'
    BY <1>3 DEF BeginDownload, Holds, Idle, IInv, TypeOK, Time
  <2>3. /\ call' = [call EXCEPT ![c] = held]
        /\ UNCHANGED <<now, environment, catalog, checks, answer>>
    BY <1>3 DEF BeginDownload
  <2> HIDE DEF held
  <2> QED
    BY <2>1, <2>2, <2>3, WaitingIsHonest
<1>4. ASSUME NEW d \in Domains, ServeCheck(c, d)
      PROVE  IInv'
  <2>1. /\ checks[d].is \in DomainStatus
        /\ checks[d].read \in Time /\ checks[d].stamp \in Time
    BY <1>4 DEF ServeCheck, IsFresh, IInv, TypeOK, CheckEntry, NoEntry
  <2>2. answer' = [is |-> checks[d].is, read |-> checks[d].read, begun |-> now,
                   ttl |-> DomainTtl, warned |-> FALSE, had |-> FALSE]
    BY <1>4 DEF ServeCheck, Return
  <2>3. answer' \in Answer
    BY <2>1, <2>2 DEF Answer, IInv, TypeOK
  <2>4. checks[d].read + DomainTtl > now
    BY <1>4, <2>1 DEF ServeCheck, IsFresh, IInv, EntriesAreHonest, IsHonest, Time, TypeOK
  <2>5. AnswersAreFresh' /\ LoadedCatalogStaysAvailable'
    BY <2>1, <2>2, <2>4 DEF AnswersAreFresh, LoadedCatalogStaysAvailable, DomainStatus
  <2>6. call' \in [Callers -> Call] /\ CallsAreHonest'
    BY <1>4, EndingIsHonest DEF ServeCheck, Return
  <2> QED
    BY <1>4, <2>3, <2>5, <2>6
       DEF ServeCheck, IInv, TypeOK, EntriesAreHonest, IsHonest, environment
<1>5. ASSUME NEW d \in Domains, BeginCheck(c, d)
      PROVE  IInv'
  <2> DEFINE held == [Idle EXCEPT !.stage = "resolve", !.domain = d, !.since = now]
  <2>1. held \in Call
    BY DEF IInv, TypeOK, Idle, Call, NoEntry, CatalogEntry, Time
  <2>2. Holds(c)'
    BY <1>5 DEF BeginCheck, Holds, Idle, IInv, TypeOK, Time
  <2>3. /\ call' = [call EXCEPT ![c] = held]
        /\ UNCHANGED <<now, environment, catalog, checks, answer>>
    BY <1>5 DEF BeginCheck
  <2> HIDE DEF held
  <2> QED
    BY <2>1, <2>2, <2>3, WaitingIsHonest
<1> QED
  BY <1>1, <1>2, <1>3, <1>4, <1>5 DEF Begin

\* A server's answer to the request of c arrives.
LEMMA ArrivalIsHonest ==
  ASSUME IInv, NEW c \in Callers, NEW stage \in {"downloaded", "got"},
         NEW is \in {"models", "no_models"} \cup DomainStatus,
         stage = "downloaded" => is \in {"models", "no_models"},
         stage = "got" => is \in DomainStatus /\ call[c].stage \in {"resolve", "get"},
         call' = [call EXCEPT ![c].stage = stage, ![c].got = [is |-> is, read |-> now, stamp |-> 0]],
         UNCHANGED <<now, environment, catalog, checks, answer>>
  PROVE  IInv'
<1> DEFINE got == [is |-> is, read |-> now, stamp |-> 0]
           held == [call[c] EXCEPT !.stage = stage, !.got = got]
<1>0. call[c] \in Call /\ Holds(c) /\ now \in Time
  BY DEF IInv, TypeOK, CallsAreHonest
<1>1. got \in CatalogEntry \cup CheckEntry
  BY <1>0, CachesAssumption DEF CatalogEntry, CheckEntry, Time, CachesAssumption
<1>2. held \in Call
  BY <1>0, <1>1 DEF Call
<1>3. call' = [call EXCEPT ![c] = held]
  OBVIOUS
<1>4. call'[c] = held
  BY <1>3 DEF IInv, TypeOK
<1>5. /\ held.stage = stage /\ held.got.is = is /\ held.got.read = now
      /\ held.since = call[c].since /\ held.domain = call[c].domain
  BY <1>0 DEF Call
<1> HIDE DEF held, got
<1>6. Holds(c)'
  BY <1>0, <1>4, <1>5 DEF Holds, Time
<1> QED
  BY <1>2, <1>3, <1>6, WaitingIsHonest

LEMMA ContinueIsHonest ==
  ASSUME IInv, NEW c \in Callers, Continue(c)
  PROVE  IInv'
<1> USE CachesAssumption DEF CachesAssumption
<1>0. call[c] \in Call /\ Holds(c) /\ now \in Time
  BY DEF IInv, TypeOK, CallsAreHonest
<1>1. CASE AnswerDownload(c)
  BY <1>1, ArrivalIsHonest DEF AnswerDownload
<1>2. CASE StoreCatalog(c)
  <2> DEFINE entry == [call[c].got EXCEPT !.stamp = Stamp(c)]
  <2>1. /\ entry.is \in {"models", "no_models"}
        /\ entry \in CatalogEntry
        /\ entry.stamp = call[c].since /\ entry.read >= call[c].since
        /\ entry.read \in Time /\ call[c].since \in Time
    <3>1. /\ call[c].got.is \in {"models", "no_models"}
          /\ call[c].got \in CatalogEntry \cup CheckEntry
          /\ call[c].got.read >= call[c].since
          /\ call[c].since \in Time
      BY <1>0, <1>2 DEF StoreCatalog, Holds, Call
    <3>2. call[c].got \in [is: {"models", "no_models"}, read: Time, stamp: Time]
      BY <3>1 DEF CatalogEntry, CheckEntry, NoEntry, DomainStatus
    <3> QED
      BY <3>1, <3>2 DEF Stamp, CatalogEntry
  <2>2. /\ catalog' = entry
        /\ answer' = [is |-> entry.is, read |-> entry.read, begun |-> call[c].since,
                      ttl |-> CatalogTtl, warned |-> FALSE, had |-> call[c].cached # NoEntry]
        /\ call' = [call EXCEPT ![c] = Idle]
        /\ UNCHANGED <<now, environment, checks>>
    BY <1>2 DEF StoreCatalog, Return
  <2> HIDE DEF entry
  <2>3. answer' \in Answer
    BY <2>1, <2>2 DEF Answer
  <2>4. AnswersAreFresh' /\ LoadedCatalogStaysAvailable'
    BY <2>1, <2>2 DEF AnswersAreFresh, LoadedCatalogStaysAvailable, Time
  <2>5. EntriesAreHonest'
    BY <2>1, <2>2 DEF IInv, EntriesAreHonest, IsHonest
  <2>6. call' \in [Callers -> Call] /\ CallsAreHonest'
    BY <2>2, EndingIsHonest
  <2> QED
    BY <2>1, <2>2, <2>3, <2>4, <2>5, <2>6 DEF IInv, TypeOK, environment
<1>3. CASE FailDownload(c)
  <2>1. /\ answer' \in Answer
        /\ answer'.warned \/ answer'.is = "unavailable"
        /\ answer'.is = "unavailable" => ~ answer'.had
    <3>1. call[c].cached \in CatalogEntry /\ call[c].since \in Time
      BY <1>0 DEF Call
    <3>2. CASE HasFallback(call[c].cached)
      <4>1. answer' = [is |-> call[c].cached.is, read |-> call[c].cached.read,
                       begun |-> call[c].since, ttl |-> CatalogTtl, warned |-> TRUE, had |-> TRUE]
        BY <1>3, <3>2 DEF FailDownload, Return
      <4>2. call[c].cached.is \in {"models", "no_models"} /\ call[c].cached.read \in Time
        BY <3>1, <3>2 DEF HasFallback, CatalogEntry
      <4> QED
        BY <3>1, <4>1, <4>2 DEF Answer
    <3>3. CASE ~ HasFallback(call[c].cached)
      <4>1. answer' = [NoAnswer EXCEPT !.is = "unavailable", !.begun = call[c].since, !.had = FALSE]
        BY <1>3, <3>3 DEF FailDownload, ReturnNothing, HasFallback
      <4> QED
        BY <3>1, <4>1, NothingIsAnAnswer
    <3> QED
      BY <3>2, <3>3
  <2>2. AnswersAreFresh' /\ LoadedCatalogStaysAvailable'
    BY <2>1 DEF AnswersAreFresh, LoadedCatalogStaysAvailable, DomainStatus
  <2>3. call' \in [Callers -> Call] /\ CallsAreHonest'
    BY <1>3, EndingIsHonest DEF FailDownload, Return, ReturnNothing
  <2> QED
    BY <1>3, <2>1, <2>2, <2>3
       DEF FailDownload, IInv, TypeOK, EntriesAreHonest, IsHonest, environment
<1>4. CASE RejectName(c)
  BY <1>4, ArrivalIsHonest DEF RejectName, DomainStatus
<1>5. CASE ResolveName(c)
  <2> DEFINE held == [call[c] EXCEPT !.stage = "get"]
  <2>1. held \in Call /\ held.since = call[c].since /\ held.domain = call[c].domain
        /\ held.stage = "get"
    BY <1>0 DEF Call
  <2>2. /\ call' = [call EXCEPT ![c] = held]
        /\ UNCHANGED <<now, environment, catalog, checks, answer>>
    BY <1>5 DEF ResolveName
  <2>3. call'[c] = held
    BY <2>2 DEF IInv, TypeOK
  <2> HIDE DEF held
  <2>4. Holds(c)'
    BY <1>0, <1>5, <2>1, <2>2, <2>3 DEF Holds, ResolveName
  <2> QED
    BY <2>1, <2>2, <2>4, WaitingIsHonest
<1>6. CASE AnswerGet(c)
  BY <1>6, ArrivalIsHonest DEF AnswerGet
<1>7. CASE StoreCheck(c)
  <2> DEFINE entry == [call[c].got EXCEPT !.stamp = Stamp(c)]
  <2>1. /\ entry.is \in DomainStatus
        /\ entry \in CheckEntry
        /\ entry.stamp = call[c].since /\ entry.read >= call[c].since
        /\ entry.read \in Time /\ call[c].since \in Time
        /\ call[c].domain \in Domains
    <3>1. /\ call[c].got.is \in DomainStatus
          /\ call[c].got \in CatalogEntry \cup CheckEntry
          /\ call[c].got.read >= call[c].since
          /\ call[c].since \in Time
          /\ call[c].domain \in Domains
      BY <1>0, <1>7 DEF StoreCheck, Holds, Call
    <3>2. call[c].got \in [is: DomainStatus, read: Time, stamp: Time]
      BY <3>1 DEF CatalogEntry, CheckEntry, NoEntry, DomainStatus
    <3> QED
      BY <3>1, <3>2 DEF Stamp, CheckEntry
  <2>2. /\ checks' = [checks EXCEPT ![call[c].domain] = entry]
        /\ answer' = [is |-> entry.is, read |-> entry.read, begun |-> call[c].since,
                      ttl |-> DomainTtl, warned |-> FALSE, had |-> FALSE]
        /\ call' = [call EXCEPT ![c] = Idle]
        /\ UNCHANGED <<now, environment, catalog>>
    BY <1>7 DEF StoreCheck, Return
  <2> HIDE DEF entry
  <2>3. answer' \in Answer
    BY <2>1, <2>2 DEF Answer
  <2>4. AnswersAreFresh' /\ LoadedCatalogStaysAvailable'
    BY <2>1, <2>2 DEF AnswersAreFresh, LoadedCatalogStaysAvailable, Time, DomainStatus
  <2>5. EntriesAreHonest' /\ checks' \in [Domains -> CheckEntry]
    BY <2>1, <2>2 DEF IInv, TypeOK, EntriesAreHonest, IsHonest
  <2>6. call' \in [Callers -> Call] /\ CallsAreHonest'
    BY <2>2, EndingIsHonest
  <2> QED
    BY <2>2, <2>3, <2>4, <2>5, <2>6 DEF IInv, TypeOK, environment
<1>8. CASE RaiseInCheck(c)
  <2>1. answer' \in Answer /\ answer'.is = "error"
    <3>1. call[c].since \in Time
      BY <1>0 DEF Call
    <3> QED
      BY <1>8, <3>1, NothingIsAnAnswer DEF RaiseInCheck, ReturnNothing
  <2>2. call' \in [Callers -> Call] /\ CallsAreHonest'
    BY <1>8, EndingIsHonest DEF RaiseInCheck, ReturnNothing
  <2>3. AnswersAreFresh' /\ LoadedCatalogStaysAvailable'
    BY <2>1 DEF AnswersAreFresh, LoadedCatalogStaysAvailable, DomainStatus
  <2> QED
    BY <1>8, <2>1, <2>2, <2>3
       DEF RaiseInCheck, IInv, TypeOK, EntriesAreHonest, IsHonest, environment
<1> QED
  BY <1>1, <1>2, <1>3, <1>4, <1>5, <1>6, <1>7, <1>8 DEF Continue

LEMMA CachesAreHonest == Spec => []IInv
<1>1. IInv /\ [Next]_vars => IInv'
  <2> SUFFICES ASSUME IInv, [Next]_vars PROVE IInv'
    OBVIOUS
  <2>1. CASE Tick
    BY <2>1, TickIsHonest
  <2>2. ASSUME NEW c \in Callers, Begin(c) \/ Continue(c)
        PROVE  IInv'
    BY <2>2, BeginIsHonest, ContinueIsHonest
  <2>3. CASE UNCHANGED vars
    BY <2>3 DEF vars, environment, IInv, TypeOK, EntriesAreHonest, IsHonest, CallsAreHonest, Holds,
                AnswersAreFresh, LoadedCatalogStaysAvailable
  <2> QED
    BY <2>1, <2>2, <2>3 DEF Next
<1> QED
  BY InitIsHonest, <1>1, PTL DEF Spec

-----------------------------------------------------------------------------
\* The caches, the waiting requests and the answers have their declared types.
THEOREM CachesTypeCorrect == Spec => []TypeOK
<1>1. IInv => TypeOK
  BY DEF IInv
<1> QED
  BY CachesAreHonest, <1>1, PTL

\* However many refreshes overlap and however they end, an answer without a warning
\* was produced less than one time to live before the request began: the cache reads
\* the clock before it asks (openrouter_model_catalog.py, domain_check.py).
THEOREM AnswersAreAlwaysFresh == Spec => []AnswersAreFresh
<1>1. IInv => AnswersAreFresh
  BY DEF IInv
<1> QED
  BY CachesAreHonest, <1>1, PTL

\* A request that began with a catalog in the cache is never told that there is none,
\* whatever the server does (the fallback of get_catalog).
THEOREM CatalogStaysAvailable == Spec => []LoadedCatalogStaysAvailable
<1>1. IInv => LoadedCatalogStaysAvailable
  BY DEF IInv
<1> QED
  BY CachesAreHonest, <1>1, PTL
=============================================================================
