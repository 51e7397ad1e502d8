------------------------ MODULE TenantResolverProofs ------------------------
(***************************************************************************)
(* The bounds on the staleness of an answer, for any number of requests and *)
(* schemas, any names and any refresh interval.                             *)
(*                                                                         *)
(* The argument follows a set of names from the database to an answer.      *)
(* What was read is no older than the reading: a name in it is that of a    *)
(* schema missing for no longer, and a schema whose name is not in it has   *)
(* been there for no longer (RowsTrue for the rows under way, CacheTrue for *)
(* the cache).  The time under which the set is stored is older still       *)
(* (StampIsHonest), so an unexpired cache was read less than                *)
(* refresh_interval ago.                                                    *)
(***************************************************************************)
EXTENDS TenantResolver, TLAPS

\* A schema that is there has been missing for no time, and conversely.
NowTrue ==
    /\ \A s \in live : deadFor[s] = 0
    /\ \A s \in Schemas \ live : liveFor[s] = 0

CacheTrue ==
    /\ \A n \in cache : \E s \in Schemas : n = Bare(s) /\ deadFor[s] <= cacheAge
    /\ loaded => \A s \in Schemas : Bare(s) \notin cache => liveFor[s] <= cacheAge

RowsTrue ==
    \A q \in Requests : pc[q] = "read" =>
        /\ rowsAge[q] <= nowAge[q]
        /\ \A n \in rows[q] :
              \E s \in Schemas : n = Bare(s) /\ s \in sawLive[q] /\ deadFor[s] <= rowsAge[q]
        /\ \A s \in Schemas :
              Bare(s) \notin rows[q] => s \in sawDead[q] /\ liveFor[s] <= rowsAge[q]

\* A waiting request has an id, and has seen what is there and what is not.
Watched ==
    \A q \in Requests : pc[q] \in {"discovering", "read"} =>
        /\ asked[q] \in Names
        /\ live \subseteq sawLive[q] /\ (Schemas \ live) \subseteq sawDead[q]

TInv == TypeOK /\ NowTrue /\ CacheTrue /\ RowsTrue /\ Watched /\ StampIsHonest

\* Ages stay ages, and growing older keeps their order.
LEMMA OlderFacts ==
    /\ \A a \in Ages : Older(a) \in Ages
    /\ \A a, b \in Ages : a <= b => Older(a) <= Older(b)
    /\ 0 \in Ages /\ RefreshInterval \in Ages
  BY IntervalAssumption DEF Ages, Older

\* An age c that is no more than a grown older is no more than a larger age b
\* grown older.
LEMMA AgeTogether ==
    ASSUME NEW a \in Ages, NEW b \in Ages, NEW c \in Ages, a <= b, c <= Older(a)
    PROVE  c <= Older(b)
  BY IntervalAssumption DEF Ages, Older

\* A schema loses a prefix to a name, or has none.
LEMMA BareFacts ==
    ASSUME NEW n \in Names
    PROVE  /\ Bare(n) \in Names
           /\ n.prefixes > 0 => Prefixed(Bare(n)) = n
           /\ n.prefixes = 0 => Bare(n) = n
           /\ n.prefixes \in Nat
  BY NamesAssumption DEF Names, Bare, Prefixed

\* Before the first load nothing is cached and nobody waits.
LEMMA InitTInv == Init => TInv
<1> SUFFICES ASSUME Init PROVE TInv
  OBVIOUS
<1>1. TypeOK
  BY OlderFacts DEF Init, TypeOK
<1>2. NowTrue
  BY NamesAssumption DEF Init, NowTrue
<1>3. CacheTrue /\ RowsTrue /\ Watched /\ StampIsHonest
  BY DEF Init, CacheTrue, RowsTrue, Watched, StampIsHonest
<1> QED  BY <1>1, <1>2, <1>3 DEF TInv

\* An answer from the cache changes no set and no age.
LEMMA ResolveCachedTInv ==
    ASSUME TInv, NEW q \in Requests, NEW id \in Names, ResolveCached(q, id)
    PROVE  TInv'
<1>1. TypeOK'
  BY OlderFacts, NamesAssumption
  DEF TInv, TypeOK, ResolveCached, BeginHistory, Verdict, resolverVars
<1>2. NowTrue' /\ CacheTrue' /\ StampIsHonest'
  BY DEF TInv, NowTrue, CacheTrue, StampIsHonest, ResolveCached, resolverVars
<1>3. RowsTrue' /\ Watched'
  BY DEF TInv, TypeOK, RowsTrue, Watched, ResolveCached, BeginHistory
<1> QED  BY <1>1, <1>2, <1>3 DEF TInv

\* A discovery starts with a clock reading of age 0.
LEMMA BeginDiscoveryTInv ==
    ASSUME TInv, NEW q \in Requests, NEW id \in Names, NEW force \in BOOLEAN,
           BeginDiscovery(q, id, force)
    PROVE  TInv'
<1>1. TypeOK'
  BY OlderFacts, NamesAssumption DEF TInv, TypeOK, BeginDiscovery, BeginHistory, resolverVars
<1>2. NowTrue' /\ CacheTrue' /\ StampIsHonest'
  BY DEF TInv, NowTrue, CacheTrue, StampIsHonest, BeginDiscovery, resolverVars
<1>3. RowsTrue' /\ Watched'
  BY DEF TInv, TypeOK, RowsTrue, Watched, BeginDiscovery, BeginHistory
<1> QED  BY <1>1, <1>2, <1>3 DEF TInv

\* What the database reads is what is live at that moment.
LEMMA DatabaseReadsTInv ==
    ASSUME TInv, NEW q \in Requests, DatabaseReads(q)
    PROVE  TInv'
<1>1. live \subseteq Schemas /\ {Bare(s) : s \in live} \subseteq Names
  BY NamesAssumption, BareFacts DEF TInv, TypeOK
<1>2. TypeOK'
  BY <1>1, OlderFacts DEF TInv, TypeOK, DatabaseReads, resolverVars
<1>3. NowTrue' /\ CacheTrue' /\ StampIsHonest' /\ Watched'
  BY DEF TInv, TypeOK, NowTrue, CacheTrue, StampIsHonest, Watched, DatabaseReads, resolverVars
<1>4. RowsTrue'
  <2> SUFFICES ASSUME NEW p \in Requests, pc'[p] = "read"
               PROVE  /\ rowsAge'[p] <= nowAge[p]
                      /\ \A n \in rows'[p] : \E s \in Schemas :
                            n = Bare(s) /\ s \in sawLive[p] /\ deadFor[s] <= rowsAge'[p]
                      /\ \A s \in Schemas : Bare(s) \notin rows'[p] =>
                            s \in sawDead[p] /\ liveFor[s] <= rowsAge'[p]
    BY DEF RowsTrue, DatabaseReads
  <2>1. CASE p = q
    <3>1. rows'[p] = {Bare(s) : s \in live} /\ rowsAge'[p] = 0 /\ nowAge[p] \in Ages
      BY <2>1 DEF TInv, TypeOK, DatabaseReads
    <3>2. live \subseteq sawLive[p] /\ (Schemas \ live) \subseteq sawDead[p]
      BY <2>1 DEF TInv, Watched, DatabaseReads
    <3> QED  BY <1>1, <3>1, <3>2 DEF TInv, NowTrue, Ages
  <2>2. CASE p # q
    BY <2>2 DEF TInv, TypeOK, RowsTrue, DatabaseReads
  <2> QED  BY <2>1, <2>2
<1> QED  BY <1>2, <1>3, <1>4 DEF TInv

\* The rows replace the cache under the time read before the discovery, which
\* is no later than the moment of the read.
LEMMA DiscoveryReturnsTInv ==
    ASSUME TInv, NEW q \in Requests, DiscoveryReturns(q)
    PROVE  TInv'
<1>1. TypeOK'
  BY OlderFacts DEF TInv, TypeOK, DiscoveryReturns, ForgetLocals, Store, Verdict
<1>2. NowTrue' /\ CacheTrue' /\ StampIsHonest'
  BY DEF TInv, TypeOK, NowTrue, CacheTrue, StampIsHonest, RowsTrue, DiscoveryReturns, Store
<1>3. RowsTrue' /\ Watched'
  BY DEF TInv, TypeOK, RowsTrue, Watched, DiscoveryReturns, ForgetLocals
<1> QED  BY <1>1, <1>2, <1>3 DEF TInv

\* A failed discovery leaves the cache alone.
LEMMA DiscoveryFailsTInv ==
    ASSUME TInv, NEW q \in Requests, DiscoveryFails(q)
    PROVE  TInv'
<1>1. TypeOK'
  BY OlderFacts DEF TInv, TypeOK, DiscoveryFails, ForgetLocals, resolverVars
<1>2. NowTrue' /\ CacheTrue' /\ StampIsHonest'
  BY DEF TInv, NowTrue, CacheTrue, StampIsHonest, DiscoveryFails, resolverVars
<1>3. RowsTrue' /\ Watched'
  BY DEF TInv, TypeOK, RowsTrue, Watched, DiscoveryFails, ForgetLocals
<1> QED  BY <1>1, <1>2, <1>3 DEF TInv

\* A finished request is forgotten.
LEMMA DoneTInv ==
    ASSUME TInv, NEW q \in Requests, Done(q)
    PROVE  TInv'
<1>1. TypeOK'
  BY OlderFacts DEF TInv, TypeOK, Done, resolverVars
<1>2. NowTrue' /\ CacheTrue' /\ StampIsHonest'
  BY DEF TInv, NowTrue, CacheTrue, StampIsHonest, Done, resolverVars
<1>3. RowsTrue' /\ Watched'
  BY DEF TInv, TypeOK, RowsTrue, Watched, Done
<1> QED  BY <1>1, <1>2, <1>3 DEF TInv

\* A new tenant: what was read before it may not hold it, and its history says so.
LEMMA ProvisionTInv ==
    ASSUME TInv, NEW s \in Schemas, Provision(s)
    PROVE  TInv'
<1>1. TypeOK'
  BY OlderFacts DEF TInv, TypeOK, Provision, resolverVars, requestVars
<1>2. NowTrue'
  BY DEF TInv, TypeOK, NowTrue, Provision
<1>3. CacheTrue' /\ StampIsHonest'
  BY DEF TInv, TypeOK, CacheTrue, StampIsHonest, Provision, resolverVars, Ages
<1>4. RowsTrue'
  BY DEF TInv, TypeOK, RowsTrue, Provision, Waiting, requestVars, Ages
<1>5. Watched'
  BY DEF TInv, TypeOK, Watched, Provision, Waiting, requestVars
<1> QED  BY <1>1, <1>2, <1>3, <1>4, <1>5 DEF TInv

\* A dropped tenant: what was read before may still hold it, and its history
\* says so.
LEMMA DecommissionTInv ==
    ASSUME TInv, NEW s \in Schemas, Decommission(s)
    PROVE  TInv'
<1>1. TypeOK'
  BY OlderFacts DEF TInv, TypeOK, Decommission, resolverVars, requestVars
<1>2. NowTrue'
  BY DEF TInv, TypeOK, NowTrue, Decommission
<1>3. CacheTrue' /\ StampIsHonest'
  BY DEF TInv, TypeOK, CacheTrue, StampIsHonest, Decommission, resolverVars, Ages
<1>4. RowsTrue'
  BY DEF TInv, TypeOK, RowsTrue, Decommission, Waiting, requestVars, Ages
<1>5. Watched'
  BY DEF TInv, TypeOK, Watched, Decommission, Waiting, requestVars
<1> QED  BY <1>1, <1>2, <1>3, <1>4, <1>5 DEF TInv

\* Everything grows older together.
LEMMA TickTInv ==
    ASSUME TInv, Tick
    PROVE  TInv'
<1>1. TypeOK'
  BY OlderFacts DEF TInv, TypeOK, Tick
<1>2. NowTrue'
  BY NamesAssumption DEF TInv, TypeOK, NowTrue, Tick
<1>3. \A s \in Schemas : /\ deadFor'[s] <= Older(deadFor[s]) /\ liveFor'[s] <= Older(liveFor[s])
                         /\ deadFor[s] \in Ages /\ deadFor'[s] \in Ages
                         /\ liveFor[s] \in Ages /\ liveFor'[s] \in Ages
  BY <1>1, OlderFacts DEF TInv, TypeOK, Tick, Ages
<1>4. CacheTrue' /\ StampIsHonest'
  <2>1. cache' = cache /\ loaded' = loaded /\ cacheAge' = Older(cacheAge) /\ cacheAge \in Ages
    BY DEF Tick, TInv, TypeOK
  <2>2. ASSUME NEW n \in cache
        PROVE  \E s \in Schemas : n = Bare(s) /\ deadFor'[s] <= cacheAge'
    <3>1. PICK s \in Schemas : n = Bare(s) /\ deadFor[s] <= cacheAge
      BY DEF TInv, CacheTrue
    <3>2. deadFor'[s] <= cacheAge'
      BY <1>3, <2>1, <3>1, AgeTogether
    <3> QED  BY <3>1, <3>2
  <2>3. ASSUME loaded, NEW s \in Schemas, Bare(s) \notin cache PROVE liveFor'[s] <= cacheAge'
    <3>1. liveFor[s] <= cacheAge
      BY <2>3 DEF TInv, CacheTrue
    <3> QED  BY <1>3, <2>1, <3>1, AgeTogether
  <2>4. StampIsHonest'
    BY OlderFacts DEF TInv, TypeOK, StampIsHonest, Tick
  <2> QED  BY <2>1, <2>2, <2>3, <2>4 DEF CacheTrue
<1>5. RowsTrue'
  <2> SUFFICES ASSUME NEW q \in Requests, pc[q] = "read"
               PROVE  /\ rowsAge'[q] <= nowAge'[q]
                      /\ \A n \in rows[q] : \E s \in Schemas :
                            n = Bare(s) /\ s \in sawLive[q] /\ deadFor'[s] <= rowsAge'[q]
                      /\ \A s \in Schemas : Bare(s) \notin rows[q] =>
                            s \in sawDead[q] /\ liveFor'[s] <= rowsAge'[q]
    BY DEF RowsTrue, Tick
  <2>1. /\ rowsAge'[q] = Older(rowsAge[q]) /\ nowAge'[q] = Older(nowAge[q])
        /\ rowsAge[q] \in Ages /\ nowAge[q] \in Ages
    BY DEF Tick, Waiting, TInv, TypeOK
  <2>2. rowsAge'[q] <= nowAge'[q]
    BY <2>1, OlderFacts DEF TInv, RowsTrue
  <2>3. ASSUME NEW n \in rows[q]
        PROVE  \E s \in Schemas : n = Bare(s) /\ s \in sawLive[q] /\ deadFor'[s] <= rowsAge'[q]
    <3>1. PICK s \in Schemas : n = Bare(s) /\ s \in sawLive[q] /\ deadFor[s] <= rowsAge[q]
      BY DEF TInv, RowsTrue
    <3>2. deadFor'[s] <= rowsAge'[q]
      BY <1>3, <2>1, <3>1, AgeTogether
    <3> QED  BY <3>1, <3>2
  <2>4. ASSUME NEW s \in Schemas, Bare(s) \notin rows[q]
        PROVE  s \in sawDead[q] /\ liveFor'[s] <= rowsAge'[q]
    <3>1. s \in sawDead[q] /\ liveFor[s] <= rowsAge[q]
      BY <2>4 DEF TInv, RowsTrue
    <3> QED  BY <1>3, <2>1, <3>1, AgeTogether
  <2> QED  BY <2>2, <2>3, <2>4
<1>6. Watched'
  BY DEF TInv, Watched, Tick
<1> QED  BY <1>1, <1>2, <1>4, <1>5, <1>6 DEF TInv

\* Every step of requests, database and clock preserves the invariant.
LEMMA NextTInv == TInv /\ [Next]_vars => TInv'
<1> SUFFICES ASSUME TInv, [Next]_vars PROVE TInv'
  OBVIOUS
<1>1. CASE Tick
  BY <1>1, TickTInv
<1>2. ASSUME NEW s \in Schemas, Provision(s) \/ Decommission(s) PROVE TInv'
  BY <1>2, ProvisionTInv, DecommissionTInv
<1>3. ASSUME NEW q \in Requests, RequestStep(q) PROVE TInv'
  BY <1>3, ResolveCachedTInv, BeginDiscoveryTInv, DatabaseReadsTInv, DiscoveryReturnsTInv,
     DiscoveryFailsTInv, DoneTInv
  DEF RequestStep
<1>4. CASE UNCHANGED vars
  BY <1>4
  DEF vars, resolverVars, requestVars, historyVars, TInv, TypeOK, NowTrue, CacheTrue, RowsTrue,
      Watched, StampIsHonest
<1> QED  BY <1>1, <1>2, <1>3, <1>4 DEF Next

-----------------------------------------------------------------------------
(* The theorems *)

\* The invariant the theorems below are read off.
THEOREM ResolverInvariance == Spec => []TInv
  BY InitTInv, NextTInv, PTL DEF Spec

\* Every variable keeps its type.
THEOREM ResolverTypeCorrect == Spec => []TypeOK
<1>1. TInv => TypeOK
  BY DEF TInv
<1> QED  BY <1>1, ResolverInvariance, PTL

\* _loaded_at never makes the cached set look newer than it is.
THEOREM StampHonest == Spec => []StampIsHonest
<1>1. TInv => StampIsHonest
  BY DEF TInv
<1> QED  BY <1>1, ResolverInvariance, PTL

\* An answer comes from an unexpired cache or from the request's own rows.
LEMMA AnswerSource ==
    ASSUME TInv, Next, NEW q \in Requests, Answers(q), answer'[q] \in {"accepted", "rejected"}
    PROVE  \/ /\ ~MustDiscover(FALSE)
              /\ answer'[q] = Verdict(asked'[q], cache)
              /\ asked'[q] \in Names
           \/ /\ pc[q] = "read"
              /\ answer'[q] = Verdict(asked'[q], rows[q])
              /\ asked'[q] \in Names
              /\ sawLive'[q] = sawLive[q]
              /\ sawDead'[q] = sawDead[q]
<1>1. PICK p \in Requests : RequestStep(p)
  BY DEF Next, Answers, Tick, Provision, Decommission, requestVars
<1>2. p = q
  BY <1>1 DEF TInv, TypeOK, Answers, RequestStep, ResolveCached, BeginDiscovery, DatabaseReads,
              DiscoveryReturns, DiscoveryFails, Done
<1>3. ASSUME NEW id \in Names, ResolveCached(q, id)
      PROVE  /\ ~MustDiscover(FALSE)
             /\ answer'[q] = Verdict(asked'[q], cache)
             /\ asked'[q] \in Names
  BY <1>3 DEF TInv, TypeOK, ResolveCached
<1>4. CASE DiscoveryReturns(q)
  BY <1>4 DEF TInv, TypeOK, Watched, DiscoveryReturns
<1>5. ~DiscoveryFails(q)
  BY DEF TInv, TypeOK, DiscoveryFails
<1>6. ~DatabaseReads(q) /\ ~Done(q)
  BY DEF TInv, TypeOK, Answers, DatabaseReads, Done
<1>7. \A id \in Names, force \in BOOLEAN : ~BeginDiscovery(q, id, force)
  BY DEF TInv, TypeOK, Answers, BeginDiscovery
<1> QED  BY <1>1, <1>2, <1>3, <1>4, <1>5, <1>6, <1>7 DEF RequestStep

\* Schema s lets the id in: it is the one the id resolves to, or one of the two
\* exceptions.
Grants(s, id) ==
    \/ s = SchemaOf(id)
    \/ id.prefixes > 0 /\ s = Prefixed(id)
    \/ Bare(id).prefixes = 0 /\ s = Bare(id)

\* Membership, of the bare id or of the id, comes from such a schema.
LEMMA MembershipGrants ==
    ASSUME NEW id \in Names, NEW s \in Schemas, Bare(s) \in {Bare(id), id}
    PROVE  Grants(s, id)
<1>1. s \in Names /\ Bare(id) \in Names
  BY NamesAssumption, BareFacts
<1>2. CASE s.prefixes = 0
  <2>1. s = Bare(id) \/ s = id
    BY <1>1, <1>2, BareFacts
  <2>2. s = Bare(id)
    BY <1>1, <1>2, <2>1, BareFacts
  <2> QED  BY <1>2, <2>2 DEF Grants
<1>3. CASE s.prefixes > 0
  <2>1. s = Prefixed(Bare(id)) \/ s = Prefixed(id)
    BY <1>1, <1>3, BareFacts
  <2>2. CASE s = Prefixed(id) /\ id.prefixes = 0
    BY <2>2, BareFacts DEF Grants, SchemaOf
  <2>3. CASE s = Prefixed(id) /\ id.prefixes > 0
    BY <2>3 DEF Grants
  <2> QED  BY <2>1, <2>2, <2>3, BareFacts DEF Grants, SchemaOf
<1> QED  BY <1>1, <1>2, <1>3, BareFacts

\* The schema that resolve returns has the bare name that is looked up.
LEMMA SchemaOfBare ==
    ASSUME NEW id \in Names
    PROVE  Bare(SchemaOf(id)) = Bare(id)
<1>1. PICK b \in Names : b = Bare(id)
  BY BareFacts
<1>2. Bare(Prefixed(b)) = b
  <2>1. PICK p : p = Prefixed(b)
    OBVIOUS
  <2>2. p = [base |-> b.base, prefixes |-> b.prefixes + 1] /\ b.prefixes \in Nat
    BY <2>1, NamesAssumption DEF Prefixed, Names
  <2>3. Bare(p) = [base |-> b.base, prefixes |-> b.prefixes]
    BY <2>2 DEF Bare
  <2> QED  BY <2>1, <2>3 DEF Names
<1> QED  BY <1>1, <1>2 DEF SchemaOf

\* Fail-closed with bounded staleness: the schema of an accepted id was there
\* less than refresh_interval ago or during the request, but for ids that are
\* let in by the name of another schema.
THEOREM AcceptedFresh == Spec => AcceptedWasLive
<1> DEFINE A == \A q \in Requests :
                  Answers(q) /\ answer'[q] = "accepted" =>
                     \/ LatelyLive(q, SchemaOf(asked'[q]))
                     \/ asked'[q].prefixes > 0 /\ LatelyLive(q, Prefixed(asked'[q]))
                     \/ Bare(asked'[q]).prefixes = 0 /\ LatelyLive(q, Bare(asked'[q]))
<1>1. TInv /\ [Next]_vars => [A]_vars
  <2> SUFFICES ASSUME TInv, Next, NEW q \in Requests, Answers(q), answer'[q] = "accepted"
               PROVE  \/ LatelyLive(q, SchemaOf(asked'[q]))
                      \/ asked'[q].prefixes > 0 /\ LatelyLive(q, Prefixed(asked'[q]))
                      \/ Bare(asked'[q]).prefixes = 0 /\ LatelyLive(q, Bare(asked'[q]))
    BY DEF vars
  <2>1. PICK id : id = asked'[q]
    OBVIOUS
  <2>2. ASSUME ~MustDiscover(FALSE), answer'[q] = Verdict(id, cache), id \in Names
        PROVE  \E s \in Schemas : Grants(s, id) /\ LatelyLive(q, s)
    <3>1. PICK n \in cache : n \in {Bare(id), id}
      BY <2>2 DEF Verdict, ValidateTenant
    <3>2. PICK s \in Schemas : n = Bare(s) /\ deadFor[s] <= cacheAge
      BY DEF TInv, CacheTrue
    <3>3. cacheAge <= loadedAge /\ loadedAge < RefreshInterval
      BY <2>2, IntervalAssumption DEF TInv, TypeOK, StampIsHonest, MustDiscover, Ages
    <3>4. deadFor[s] < RefreshInterval
      BY <3>2, <3>3, IntervalAssumption DEF TInv, TypeOK, Ages
    <3> QED  BY <2>2, <3>1, <3>2, <3>4, MembershipGrants DEF LatelyLive
  <2>3. ASSUME pc[q] = "read", answer'[q] = Verdict(id, rows[q]), id \in Names,
               sawLive'[q] = sawLive[q]
        PROVE  \E s \in Schemas : Grants(s, id) /\ LatelyLive(q, s)
    <3>1. PICK n \in rows[q] : n \in {Bare(id), id}
      BY <2>3 DEF Verdict, ValidateTenant
    <3>2. PICK s \in Schemas : n = Bare(s) /\ s \in sawLive[q]
      BY <2>3 DEF TInv, RowsTrue
    <3> QED  BY <2>3, <3>1, <3>2, MembershipGrants DEF LatelyLive
  <2>4. PICK s \in Schemas : Grants(s, id) /\ LatelyLive(q, s)
    BY <2>1, <2>2, <2>3, AnswerSource
  <2> QED  BY <2>1, <2>4 DEF Grants
<1> QED  BY <1>1, ResolverInvariance, PTL DEF Spec, AcceptedWasLive

\* A new tenant is picked up: the schema of an id that is rejected was missing
\* less than refresh_interval ago or at some time during the request.
THEOREM RejectedFresh == Spec => RejectedWasDead
<1> DEFINE A == \A q \in Requests :
                  Answers(q) /\ answer'[q] = "rejected" /\ asked'[q] \in WellFormed =>
                     LatelyDead(q, SchemaOf(asked'[q]))
<1>1. TInv /\ [Next]_vars => [A]_vars
  <2> SUFFICES ASSUME TInv, Next, NEW q \in Requests, Answers(q), answer'[q] = "rejected",
                      asked'[q] \in WellFormed, SchemaOf(asked'[q]) \in Schemas
               PROVE  \/ liveFor[SchemaOf(asked'[q])] < RefreshInterval
                      \/ SchemaOf(asked'[q]) \in sawDead'[q]
    BY DEF vars, LatelyDead
  <2>1. PICK id, s : id = asked'[q] /\ s = SchemaOf(id)
    OBVIOUS
  <2>2. ASSUME ~MustDiscover(FALSE), answer'[q] = Verdict(id, cache), id \in Names
        PROVE  liveFor[s] < RefreshInterval
    <3>1. Bare(s) \notin cache
      BY <2>1, <2>2, SchemaOfBare DEF Verdict, ValidateTenant
    <3>2. loaded /\ cacheAge <= loadedAge /\ loadedAge < RefreshInterval
      BY <2>2, IntervalAssumption DEF TInv, TypeOK, StampIsHonest, MustDiscover, Ages
    <3> QED  BY <2>1, <3>1, <3>2, IntervalAssumption DEF TInv, TypeOK, CacheTrue, Ages
  <2>3. ASSUME pc[q] = "read", answer'[q] = Verdict(id, rows[q]), id \in Names,
               sawDead'[q] = sawDead[q]
        PROVE  s \in sawDead'[q]
    <3>1. Bare(s) \notin rows[q]
      BY <2>1, <2>3, SchemaOfBare DEF Verdict, ValidateTenant
    <3> QED  BY <2>1, <2>3, <3>1 DEF TInv, RowsTrue
  <2> QED  BY <2>1, <2>2, <2>3, AnswerSource
<1> QED  BY <1>1, ResolverInvariance, PTL DEF Spec, RejectedWasDead
=============================================================================
