------------------------- MODULE HarnessConfigProofs -------------------------
(***************************************************************************)
(* Theorems about HarnessConfig: for any budgets, durations, images and    *)
(* servers, what the start computes fits and is what was asked for.        *)
(***************************************************************************)
EXTENDS HarnessConfig, SequenceTheorems, WellFoundedInduction, TLAPS

(***************************************************************************)
(* Extremes of sets of numbers, and division.                              *)
(***************************************************************************)

\* The larger and the smaller of two numbers.
LEMMA OfTwo ==
    ASSUME NEW a \in Int, NEW b \in Int
    PROVE  /\ Max({a, b}) = IF a >= b THEN a ELSE b
           /\ Min({a, b}) = IF a <= b THEN a ELSE b
<1>1. \A x \in {a, b} : (\A y \in {a, b} : x >= y) <=> x = IF a >= b THEN a ELSE b
  OBVIOUS
<1>2. \A x \in {a, b} : (\A y \in {a, b} : x <= y) <=> x = IF a <= b THEN a ELSE b
  OBVIOUS
<1> QED
  BY <1>1, <1>2 DEF Max, Min

\* A set of natural numbers has a least element.
LEMMA LeastExists ==
    ASSUME NEW I, I \subseteq Nat, I # {}
    PROVE  \E x \in I : \A y \in I : x <= y
<1>1. PICK x \in I : \A y \in I : ~(<<y, x>> \in OpToRel(<, Nat))
  BY NatLessThanWellFounded, WFMin
<1>2. ASSUME NEW y \in I PROVE x <= y
  <2> DEFINE p == <<y, x>>
  <2>1. p \in Nat \X Nat /\ p[1] = y /\ p[2] = x
    OBVIOUS
  <2>2. ~(p \in OpToRel(<, Nat))
    BY <1>1
  <2> HIDE DEF p
  <2>3. ~(p[1] < p[2])
    BY <2>1, <2>2 DEF OpToRel
  <2> QED
    BY <2>1, <2>3
<1> QED
  BY <1>2

\* Min of a set of natural numbers is its least element.
LEMMA LeastOf ==
    ASSUME NEW I, I \subseteq Nat, I # {}
    PROVE  Min(I) \in I /\ \A y \in I : Min(I) <= y
BY LeastExists DEF Min

\* Max of a bounded set of natural numbers is its greatest element.
LEMMA GreatestOf ==
    ASSUME NEW n \in Nat, NEW I, I \subseteq 1 .. n, I # {}
    PROVE  Max(I) \in I /\ \A y \in I : Max(I) >= y
<1> DEFINE J == {n - i : i \in I}
<1>1. \A i \in I : n - i \in Nat
  OBVIOUS
<1>2. J \subseteq Nat /\ J # {}
  BY <1>1
<1>3. PICK j \in J : \A k \in J : j <= k
  BY <1>2, LeastExists
<1>4. PICK x \in I : j = n - x
  OBVIOUS
<1>5. \A y \in I : x >= y
  BY <1>3, <1>4
<1> QED
  BY <1>5 DEF Max

\* Division of natural numbers rounds down.
LEMMA Quotient ==
    ASSUME NEW a \in Nat, NEW b \in Nat, b > 0
    PROVE  /\ a \div b \in Nat
           /\ b * (a \div b) <= a /\ a < b * (a \div b) + b
OBVIOUS

-----------------------------------------------------------------------------
(***************************************************************************)
(* The limits.                                                             *)
(***************************************************************************)
Config == [budget : 1..MaxU32 \cup {Unset}, perDatabase : 1..MaxU32 \cup {Unset},
           operation : Durations \cup {DefaultTimeout},
           startup : Durations \cup {DefaultTimeout},
           wait : Durations \cup {DefaultTimeout},
           noSync : BOOLEAN, tmpfs : Nat \cup {Unset},
           stale : Durations \cup {DefaultTimeout}, cleanupOnStart : BOOLEAN,
           image : Images \cup {Unset}, url : Urls \cup {Unset}]

\* connection_limits: the default share never exceeds the budget.
LEMMA LimitsKnown ==
    ASSUME NEW c \in Config
    PROVE  /\ Budget(c) \in 1 .. MaxU32 /\ PerDatabase(c) \in 1 .. MaxU32
           /\ PerDatabase(c) > Budget(c) => c.perDatabase # Unset /\ c.perDatabase > Budget(c)
<1>1. Budget(c) \in 1 .. MaxU32 /\ MaxU32 \in Nat
  BY ConfigAssumption DEF Budget, Config
<1>2. CASE c.perDatabase # Unset
  BY <1>1, <1>2 DEF PerDatabase, Config
<1>3. CASE c.perDatabase = Unset
  <2>0. DefaultPerDatabase \in Int /\ Budget(c) \in Int
    BY <1>1, ConfigAssumption
  <2>1. PerDatabase(c) = IF DefaultPerDatabase <= Budget(c) THEN DefaultPerDatabase ELSE Budget(c)
    BY <1>3, <2>0, OfTwo DEF PerDatabase
  <2> QED
    BY <1>1, <1>3, <2>1, ConfigAssumption
<1> QED
  BY <1>2, <1>3

\* The leases are as many as the budget has room for, and at least one.
LEMMA LeasesKnown ==
    ASSUME NEW c \in Config, ValidLimits(c)
    PROVE  LET leases == MaxSimultaneousLeases(c)
           IN  /\ leases \in Nat /\ leases >= 1
               /\ leases * PerDatabase(c) <= Budget(c)
               /\ Budget(c) < (leases + 1) * PerDatabase(c)
<1> DEFINE b == Budget(c)  p == PerDatabase(c)  q == MaxSimultaneousLeases(c)
<1>1. b \in Nat /\ p \in Nat /\ p > 0 /\ p <= b
  BY LimitsKnown, ConfigAssumption DEF ValidLimits
<1>2. q \in Nat /\ p * q <= b /\ b < p * q + p
  BY <1>1, Quotient DEF MaxSimultaneousLeases
<1> HIDE DEF b, p, q
<1>3. q # 0
  BY <1>1, <1>2
<1>4. q * p = p * q /\ (q + 1) * p = p * q + p
  BY <1>1, <1>2
<1> QED
  BY <1>2, <1>3, <1>4, <1>1 DEF b, p, q

\* finish_start_with_client: the pool and its cleanup workers.
LEMMA SizesKnown ==
    ASSUME NEW leases \in Nat, leases >= 1, NEW slots \in Nat
    PROVE  LET pool == AdminPoolSize(leases, slots)
               workers == CleanupWorkers(pool)
           IN  /\ pool \in 1 .. leases
               /\ slots >= 4 => 4 * pool <= slots
               /\ pool < leases => pool >= (slots \div 4)
               /\ workers \in 1 .. 4 /\ workers <= pool
               /\ pool >= 2 => 2 * (pool - workers) >= pool
<1> DEFINE q == slots \div 4  least == Max({1, q})  most == Min({leases, least})
           pool == AdminPoolSize(leases, slots)
           half == pool \div 2  few == Min({half, 4})  workers == CleanupWorkers(pool)
<1>1. q \in Int /\ q >= 0 /\ 4 * q <= slots /\ slots < 4 * q + 4
  OBVIOUS
<1>2. least = IF 1 >= q THEN 1 ELSE q
  <2> HIDE DEF q
  <2> QED
    BY <1>1, OfTwo
<1>3. least \in Int /\ leases \in Int
  BY <1>1, <1>2
<1>4. most = IF leases <= least THEN leases ELSE least
  <2> HIDE DEF least
  <2> QED
    BY <1>3, OfTwo
<1>5. most \in Int /\ most >= 1
  <2> HIDE DEF q, least
  <2> QED
    BY <1>1, <1>2, <1>3, <1>4
<1>6. pool = most
  <2>1. Max({1, most}) = most
    <3> HIDE DEF most
    <3> QED
      BY <1>5, OfTwo
  <2> QED
    BY <2>1 DEF AdminPoolSize
<1> HIDE DEF q, least, most, pool
<1>7. /\ pool \in 1 .. leases /\ pool \in Nat
      /\ slots >= 4 => 4 * pool <= slots
      /\ pool < leases => pool >= q
  BY <1>1, <1>2, <1>3, <1>4, <1>5, <1>6
<1>8. half \in Int /\ half >= 0 /\ 2 * half <= pool /\ pool < 2 * half + 2
  BY <1>7
<1> HIDE DEF half
<1>9. few = IF half <= 4 THEN half ELSE 4
  <2>1. half \in Int /\ 4 \in Int
    BY <1>8
  <2> QED
    BY <2>1, OfTwo, Zenon
<1>10. few \in Int /\ workers = Max({1, few})
  BY <1>8, <1>9 DEF CleanupWorkers, half
<1> HIDE DEF few
<1>11. workers = IF 1 >= few THEN 1 ELSE few
  BY <1>10, OfTwo
<1> HIDE DEF workers
<1>12. workers \in 1 .. 4 /\ workers <= pool /\ (pool >= 2 => 2 * (pool - workers) >= pool)
  BY <1>7, <1>8, <1>9, <1>11
<1> QED
  BY <1>7, <1>12 DEF pool, workers, q

\* regular_connection_slots_from_settings never goes below zero.
LEMMA SlotsKnown ==
    ASSUME NEW m \in Int, NEW r \in Int, NEW u \in Int
    PROVE  SlotsFrom(m, r, u) \in Nat
<1>1. \A x \in Int : Max({0, x}) \in Nat
  BY OfTwo
<1>2. \A x, y \in Nat : SaturatingSub(x, y) \in Nat
  BY <1>1 DEF SaturatingSub
<1> QED
  BY <1>1, <1>2 DEF SlotsFrom

-----------------------------------------------------------------------------
(***************************************************************************)
(* The configuration under construction.                                   *)
(***************************************************************************)

\* What the setters let through.
Accepted(c) ==
    /\ ValidPostgresTimeout(c.operation) /\ ValidPostgresTimeout(c.wait)
    /\ ValidMillis(c.startup)
    /\ c.tmpfs # Unset => c.tmpfs \in 0 .. MaxI64

ConfigInv == TypeOK /\ (config # Unset => config \in Config /\ Accepted(config))

\* The defaults are accepted too.
LEMMA ConfigInit == Init => ConfigInv
<1> SUFFICES ASSUME Init PROVE ConfigInv
  OBVIOUS
<1>1. MaxI64 \div 2 \in Nat /\ MaxI64 \div 2 <= MaxI64
  BY ConfigAssumption
<1>2. DefaultTimeout \div PerMilli \in 1 .. MaxI32 /\ MaxI32 \in Nat
  BY ConfigAssumption
<1>3. config \in Config
  BY <1>1, ConfigAssumption DEF Init, Config, Profile
<1>4. Accepted(config)
  BY <1>1, <1>2 DEF Init, Accepted, Profile, ValidPostgresTimeout, ValidMillis, Millis
<1> QED
  BY <1>3, <1>4, ConfigAssumption DEF Init, ConfigInv, TypeOK, Config

\* A setter changes one value, to one that it has validated, or leaves no
\* configuration behind.
LEMMA ConfigStep ==
    ASSUME ConfigInv, [Next]_vars
    PROVE  ConfigInv'
<1>1. ASSUME NEW valid, NEW field, NEW value, Set(valid, field, value),
             valid => /\ [config EXCEPT ![field] = value] \in Config
                      /\ Accepted([config EXCEPT ![field] = value])
      PROVE  ConfigInv'
  <2>1. calls' \in 0 .. MaxCalls
    BY <1>1, ConfigAssumption DEF Set, ConfigInv, TypeOK
  <2>2. config' # Unset => config' \in Config /\ Accepted(config')
    BY <1>1 DEF Set
  <2> QED
    BY <1>1, <2>1, <2>2 DEF Set, ConfigInv, TypeOK, Config, Accepted
<1> USE DEF ConfigInv
<1>2. ASSUME NEW n \in Permits, WithConnectionBudget(n) PROVE ConfigInv'
  <2>1. Set(ValidBudget(n), "budget", n)
    BY <1>2 DEF WithConnectionBudget
  <2>2. ValidBudget(n) => /\ [config EXCEPT !["budget"] = n] \in Config
             /\ Accepted([config EXCEPT !["budget"] = n])
    BY <2>1 DEF Set, Configuring, Config, Accepted, ValidBudget
  <2> QED
    BY <1>1, <2>1, <2>2
<1>3. ASSUME NEW n \in Permits, WithConnectionsPerDatabase(n) PROVE ConfigInv'
  <2>1. Set(n # 0, "perDatabase", n)
    BY <1>3 DEF WithConnectionsPerDatabase
  <2>2. n # 0 => /\ [config EXCEPT !["perDatabase"] = n] \in Config
             /\ Accepted([config EXCEPT !["perDatabase"] = n])
    <3>1. n # 0 => n \in 1 .. MaxU32
      BY <1>3, ConfigAssumption DEF WithConnectionsPerDatabase
    <3> QED
      BY <2>1, <3>1 DEF Set, Configuring, Config, Accepted
  <2> QED
    BY <1>1, <2>1, <2>2
<1>4. ASSUME NEW d \in Durations, WithOperationTimeout(d) PROVE ConfigInv'
  <2>1. Set(ValidPostgresTimeout(d), "operation", d)
    BY <1>4 DEF WithOperationTimeout
  <2>2. ValidPostgresTimeout(d) => /\ [config EXCEPT !["operation"] = d] \in Config
             /\ Accepted([config EXCEPT !["operation"] = d])
    BY <1>4, <2>1 DEF Set, Configuring, Config, Accepted
  <2> QED
    BY <1>1, <2>1, <2>2
<1>5. ASSUME NEW d \in Durations, WithStartupTimeout(d) PROVE ConfigInv'
  <2>1. Set(ValidMillis(d), "startup", d)
    BY <1>5 DEF WithStartupTimeout
  <2>2. ValidMillis(d) => /\ [config EXCEPT !["startup"] = d] \in Config
             /\ Accepted([config EXCEPT !["startup"] = d])
    BY <1>5, <2>1 DEF Set, Configuring, Config, Accepted
  <2> QED
    BY <1>1, <2>1, <2>2
<1>6. ASSUME NEW d \in Durations, WithTemplateWaitTimeout(d) PROVE ConfigInv'
  <2>1. Set(ValidPostgresTimeout(d), "wait", d)
    BY <1>6 DEF WithTemplateWaitTimeout
  <2>2. ValidPostgresTimeout(d) => /\ [config EXCEPT !["wait"] = d] \in Config
             /\ Accepted([config EXCEPT !["wait"] = d])
    BY <1>6, <2>1 DEF Set, Configuring, Config, Accepted
  <2> QED
    BY <1>1, <2>1, <2>2
<1>7. ASSUME NEW d \in Durations, WithStaleAfter(d) PROVE ConfigInv'
  <2>1. Set(TRUE, "stale", d)
    BY <1>7 DEF WithStaleAfter
  <2>2. TRUE => /\ [config EXCEPT !["stale"] = d] \in Config
             /\ Accepted([config EXCEPT !["stale"] = d])
    BY <1>7, <2>1 DEF Set, Configuring, Config, Accepted
  <2> QED
    BY <1>1, <2>1, <2>2
<1>8. ASSUME NEW image \in Images, WithImage(image) PROVE ConfigInv'
  <2>1. Set(ParseImage(image) # Unset, "image", image)
    BY <1>8 DEF WithImage
  <2>2. ParseImage(image) # Unset => /\ [config EXCEPT !["image"] = image] \in Config
             /\ Accepted([config EXCEPT !["image"] = image])
    BY <1>8, <2>1 DEF Set, Configuring, Config, Accepted
  <2> QED
    BY <1>1, <2>1, <2>2
<1>9. ASSUME NEW url \in Urls, WithAdminDatabaseUrl(url) PROVE ConfigInv'
  <2>1. Set(TRUE, "url", url)
    BY <1>9 DEF WithAdminDatabaseUrl
  <2>2. TRUE => /\ [config EXCEPT !["url"] = url] \in Config
             /\ Accepted([config EXCEPT !["url"] = url])
    BY <1>9, <2>1 DEF Set, Configuring, Config, Accepted
  <2> QED
    BY <1>1, <2>1, <2>2
<1>10. ASSUME NEW n \in Permits, WithTmpfsSizeBytes(n) PROVE ConfigInv'
  <2>1. Set(ValidTmpfsSize(n), "tmpfs", n)
    BY <1>10 DEF WithTmpfsSizeBytes
  <2>2. ValidTmpfsSize(n) => /\ [config EXCEPT !["tmpfs"] = n] \in Config
             /\ Accepted([config EXCEPT !["tmpfs"] = n])
    <3>1. n \in Nat /\ (ValidTmpfsSize(n) => n \in 0 .. MaxI64)
      BY <1>10, ConfigAssumption DEF ValidTmpfsSize
    <3> QED
      BY <2>1, <3>1 DEF Set, Configuring, Config, Accepted
  <2> QED
    BY <1>1, <2>1, <2>2
<1>11. ASSUME NEW enabled \in BOOLEAN, WithInitdbNoSync(enabled) PROVE ConfigInv'
  <2>1. Set(TRUE, "noSync", enabled)
    BY <1>11 DEF WithInitdbNoSync
  <2>2. TRUE => /\ [config EXCEPT !["noSync"] = enabled] \in Config
             /\ Accepted([config EXCEPT !["noSync"] = enabled])
    BY <1>11, <2>1 DEF Set, Configuring, Config, Accepted
  <2> QED
    BY <1>1, <2>1, <2>2
<1>12. ASSUME NEW enabled \in BOOLEAN, WithCleanupOnStart(enabled) PROVE ConfigInv'
  <2>1. Set(TRUE, "cleanupOnStart", enabled)
    BY <1>12 DEF WithCleanupOnStart
  <2>2. TRUE => /\ [config EXCEPT !["cleanupOnStart"] = enabled] \in Config
             /\ Accepted([config EXCEPT !["cleanupOnStart"] = enabled])
    BY <1>12, <2>1 DEF Set, Configuring, Config, Accepted
  <2> QED
    BY <1>1, <2>1, <2>2
<1>13. CASE WithoutTmpfs
  <2>1. Set(TRUE, "tmpfs", Unset)
    BY <1>13 DEF WithoutTmpfs
  <2>2. /\ [config EXCEPT !["tmpfs"] = Unset] \in Config
        /\ Accepted([config EXCEPT !["tmpfs"] = Unset])
    BY <2>1 DEF Set, Configuring, Config, Accepted
  <2> QED
    BY <1>1, <2>1, <2>2
<1>14. CASE UNCHANGED <<config, environment, calls>>
  BY <1>14 DEF TypeOK, Config, Accepted
<1> QED
  BY <1>2, <1>3, <1>4, <1>5, <1>6, <1>7, <1>8, <1>9, <1>10, <1>11, <1>12, <1>13,
     <1>14 DEF Next, Start, vars

-----------------------------------------------------------------------------
(***************************************************************************)
(* The start.                                                              *)
(***************************************************************************)

\* What a start leaves, for a configuration that the setters accepted.
LEMMA StartResult ==
    ASSUME ConfigInv, NEW setting \in Settings, Start(setting)
    PROVE  /\ config' = config /\ environment' = environment /\ config \in Config
           /\ Accepted(config)
           /\ \/ ~ValidLimits(config) /\ server' = [mode |-> "invalid limits"]
              \/ server' \in {[mode |-> "invalid url"], [mode |-> "invalid image"]}
              \/ /\ ValidLimits(config)
                 /\ ResolvedUrl(config) = Unset => ResolvedImage(config) # Unset
                 /\ server'.mode = (IF ResolvedUrl(config) # Unset THEN "external" ELSE "owned")
                 /\ server'.tmpfs = (IF config.tmpfs = Unset THEN Unset
                                     ELSE TmpfsMountSize(config.tmpfs))
                 /\ server'.slots = SlotsFrom(setting[1], setting[2], setting[3])
                 /\ server'.leases = MaxSimultaneousLeases(config)
                 /\ server'.pool = AdminPoolSize(server'.leases, server'.slots)
                 /\ server'.workers = CleanupWorkers(server'.pool)
<1>1. config # Unset /\ config \in Config /\ Accepted(config)
  BY DEF Start, Configuring, ConfigInv
<1>2. UNCHANGED <<config, environment>>
  BY DEF Start
<1>3. CASE ~ValidLimits(config)
  BY <1>1, <1>2, <1>3 DEF Start
<1>4. CASE ValidLimits(config) /\ ~ValidUrl(ResolvedUrl(config))
  BY <1>1, <1>2, <1>4 DEF Start
<1>5. CASE ValidLimits(config) /\ ValidUrl(ResolvedUrl(config))
           /\ ResolvedUrl(config) = Unset /\ ResolvedImage(config) = Unset
  BY <1>1, <1>2, <1>5 DEF Start
<1>6. CASE ValidLimits(config) /\ ValidUrl(ResolvedUrl(config))
           /\ ~(ResolvedUrl(config) = Unset /\ ResolvedImage(config) = Unset)
  BY <1>1, <1>2, <1>6 DEF Start
<1> QED
  BY <1>3, <1>4, <1>5, <1>6

\* Before the start there is no server, and afterwards nothing changes.
LEMMA StartsOnce ==
    ASSUME [Next]_vars
    PROVE  \/ server' = Unset
           \/ UNCHANGED vars
           \/ \E setting \in Settings : Start(setting)
BY DEF Next, vars, Set, Configuring, WithConnectionBudget, WithConnectionsPerDatabase,
       WithOperationTimeout, WithStartupTimeout, WithTemplateWaitTimeout, WithStaleAfter,
       WithImage, WithAdminDatabaseUrl, WithoutTmpfs, WithTmpfsSizeBytes, WithInitdbNoSync,
       WithCleanupOnStart

\* docs/operations.md, for any configuration, any order of setters and any
\* server: the leases fit the budget, the sessions leave headroom.
THEOREM SizesAlwaysFit == Spec => []SizesFit
<1>1. Init => ConfigInv /\ SizesFit
  BY ConfigInit DEF Init, ConfigInv, SizesFit, LeasesFitBudget, SessionsLeaveHeadroom, Started
<1>2. ASSUME ConfigInv, SizesFit, [Next]_vars PROVE ConfigInv' /\ SizesFit'
  <2>1. ConfigInv' /\ TypeOK'
    BY <1>2, ConfigStep DEF ConfigInv
  <2>2. CASE server' = Unset
    BY <2>1, <2>2 DEF SizesFit, LeasesFitBudget, SessionsLeaveHeadroom, Started
  <2>3. CASE UNCHANGED vars
    BY <1>2, <2>1, <2>3 DEF SizesFit, LeasesFitBudget, SessionsLeaveHeadroom, Started, vars,
       PerDatabase, Budget
  <2>4. ASSUME NEW setting \in Settings, Start(setting) PROVE SizesFit'
    <3>1. config' = config /\ config \in Config
      BY <1>2, <2>4, StartResult
    <3>2. CASE ~ValidLimits(config) /\ server' = [mode |-> "invalid limits"]
      <4>1. config.perDatabase # Unset /\ config.perDatabase > Budget(config)
        <5>1. Budget(config) \in Int /\ PerDatabase(config) \in Int
          BY <3>1, LimitsKnown, ConfigAssumption
        <5>2. PerDatabase(config) > Budget(config)
          <6>1. ~(PerDatabase(config) <= Budget(config))
            BY <3>2, Zenon DEF ValidLimits
          <6> QED
            BY <5>1, <6>1
        <5> QED
          BY <3>1, <5>2, LimitsKnown
      <4>2. server'.mode = "invalid limits"
        BY <3>2
      <4> QED
        BY <2>1, <3>1, <4>1, <4>2 DEF SizesFit, LeasesFitBudget, SessionsLeaveHeadroom, Started,
           Budget
    <3>3. CASE server' \in {[mode |-> "invalid url"], [mode |-> "invalid image"]}
      <4>1. server'.mode \in {"invalid url", "invalid image"}
        <5>1. CASE server' = [mode |-> "invalid url"]
          BY <5>1
        <5>2. CASE server' = [mode |-> "invalid image"]
          BY <5>2
        <5> QED
          BY <3>3, <5>1, <5>2
      <4> QED
        BY <2>1, <4>1 DEF SizesFit, LeasesFitBudget, SessionsLeaveHeadroom, Started
    <3>4. CASE /\ ValidLimits(config) /\ server'.mode \in {"external", "owned"}
               /\ server'.slots = SlotsFrom(setting[1], setting[2], setting[3])
               /\ server'.leases = MaxSimultaneousLeases(config)
               /\ server'.pool = AdminPoolSize(server'.leases, server'.slots)
               /\ server'.workers = CleanupWorkers(server'.pool)
      <4>1. /\ server'.leases \in Nat /\ server'.leases >= 1
            /\ server'.leases * PerDatabase(config) <= Budget(config)
            /\ Budget(config) < (server'.leases + 1) * PerDatabase(config)
        BY <3>1, <3>4, LeasesKnown
      <4>2. server'.slots \in Nat
        <5>1. setting[1] \in Int /\ setting[2] \in Int /\ setting[3] \in Int
          BY <2>4, ConfigAssumption
        <5> QED
          BY <3>4, <5>1, SlotsKnown
      <4>3. PerDatabase(config') = PerDatabase(config) /\ Budget(config') = Budget(config)
        BY <3>1
      <4>4. LeasesFitBudget'
        BY <3>4, <4>1, <4>3 DEF LeasesFitBudget, Started, PerDatabase, Budget
      <4>5. SessionsLeaveHeadroom'
        BY <3>4, <4>1, <4>2, SizesKnown DEF SessionsLeaveHeadroom, Started
      <4> QED
        BY <2>1, <4>4, <4>5 DEF SizesFit
    <3> QED
      BY <1>2, <2>4, <3>2, <3>3, <3>4, StartResult
  <2> QED
    BY <1>2, <2>1, <2>2, <2>3, <2>4, StartsOnce
<1> QED
  BY <1>1, <1>2, PTL DEF Spec

-----------------------------------------------------------------------------
(***************************************************************************)
(* Deadlines and sizes on their way to the server and the engine.          *)
(***************************************************************************)

\* Rounding a deadline to milliseconds keeps the order of two deadlines.
LEMMA MillisMonotonic ==
    ASSUME NEW d \in Nat, NEW e \in Nat, d <= e
    PROVE  Millis(d) \in Nat /\ Millis(d) <= Millis(e)
<1> DEFINE m == Millis(d)  n == Millis(e)
<1>1. PerMilli \in Nat /\ PerMilli > 0
  BY ConfigAssumption
<1>2. /\ m \in Nat /\ PerMilli * m <= d
      /\ n \in Nat /\ e < PerMilli * n + PerMilli
  BY <1>1, Quotient DEF Millis
<1> HIDE DEF m, n
<1>3. PerMilli * m < PerMilli * (n + 1)
  BY <1>1, <1>2
<1>4. m < n + 1
  <2> SUFFICES ASSUME m >= n + 1 PROVE FALSE
    BY <1>2
  <2>1. PerMilli * m >= PerMilli * (n + 1)
    BY <1>1, <1>2
  <2> QED
    BY <1>1, <1>2, <1>3, <2>1
<1> QED
  BY <1>2, <1>4 DEF m, n

\* A deadline that the setters let through has a setting the server honours.
LEMMA DeadlinesWork ==
    ASSUME NEW c \in Config, Accepted(c)
    PROVE  /\ StatementTimeout(c) \in 1..MaxI32
           /\ LockTimeoutSetting(c) \in 1..StatementTimeout(c)
           /\ WaitTimeoutSetting(c) \in 1..MaxI32
           /\ PerMilli * StatementTimeout(c) < ClientTimeout(c.operation)
           /\ PerMilli * WaitTimeoutSetting(c) < ClientTimeout(c.wait)
           /\ Millis(c.startup) >= 1 /\ c.startup <= EngineTimeout(c)
<1>1. /\ c.operation \in Nat /\ c.wait \in Nat /\ c.startup \in Nat
      /\ PerMilli \in Nat /\ PerMilli > 0 /\ LockTimeout \in Nat /\ Grace \in Nat
      /\ LockTimeout >= PerMilli /\ Grace >= PerMilli /\ MaxI32 \in Nat /\ EngineFloor \in Nat
  BY ConfigAssumption DEF Config
<1>2. \A d \in Nat : Millis(d) \in Nat /\ PerMilli * Millis(d) <= d
  BY <1>1, Quotient DEF Millis
<1>3. StatementTimeout(c) \in 1..MaxI32 /\ WaitTimeoutSetting(c) \in 1..MaxI32
  BY <1>1, <1>2 DEF Accepted, ValidPostgresTimeout, ValidMillis, StatementTimeout,
     WaitTimeoutSetting
<1>4. /\ PerMilli * StatementTimeout(c) < ClientTimeout(c.operation)
      /\ PerMilli * WaitTimeoutSetting(c) < ClientTimeout(c.wait)
  <2>1. \A d \in Nat : PerMilli * Millis(d) < d + Grace
    <3> SUFFICES ASSUME NEW d \in Nat PROVE PerMilli * Millis(d) < d + Grace
      OBVIOUS
    <3>1. PerMilli * Millis(d) \in Int /\ PerMilli * Millis(d) <= d
      BY <1>1, <1>2
    <3> QED
      BY <1>1, <3>1
  <2> QED
    BY <1>1, <2>1 DEF StatementTimeout, WaitTimeoutSetting, ClientTimeout
<1>5. LockTimeoutSetting(c) \in 1..StatementTimeout(c)
  <2> DEFINE least == Min({LockTimeout, c.operation})
  <2>1. least = IF LockTimeout <= c.operation THEN LockTimeout ELSE c.operation
    BY <1>1, OfTwo
  <2>2. least \in Nat /\ least <= c.operation
    BY <1>1, <2>1
  <2> HIDE DEF least
  <2>3. Millis(least) \in Nat /\ Millis(least) <= StatementTimeout(c)
    BY <1>1, <2>2, MillisMonotonic DEF StatementTimeout
  <2>4. CASE least = c.operation
    BY <1>1, <1>3, <2>3, <2>4 DEF LockTimeoutSetting, StatementTimeout, least
  <2>5. CASE least = LockTimeout
    <3>1. Millis(LockTimeout) # 0
      BY <1>1, Quotient DEF Millis
    <3> QED
      BY <1>3, <2>3, <2>5, <3>1 DEF LockTimeoutSetting, least
  <2> QED
    BY <2>1, <2>4, <2>5
<1>6. Millis(c.startup) >= 1
  BY <1>1, <1>2 DEF Accepted, ValidMillis
<1>7. c.startup <= EngineTimeout(c)
  <2>1. EngineTimeout(c) = IF c.startup >= EngineFloor THEN c.startup ELSE EngineFloor
    BY <1>1, OfTwo DEF EngineTimeout
  <2> QED
    BY <1>1, <2>1
<1> QED
  BY <1>3, <1>4, <1>5, <1>6, <1>7

\* A size that the setter let through survives the cast.
LEMMA SizeSurvives ==
    ASSUME NEW c \in Config, Accepted(c), c.tmpfs # Unset
    PROVE  TmpfsMountSize(c.tmpfs) = c.tmpfs
BY ConfigAssumption DEF Accepted, TmpfsMountSize

-----------------------------------------------------------------------------
(***************************************************************************)
(* ImageReference::parse.                                                  *)
(***************************************************************************)

\* The digest begins after the first @.
LEMMA DigestFirst ==
    ASSUME NEW S, NEW s \in Seq(S)
    PROVE  \/ /\ \A i \in 1 .. Len(s) : s[i] # "@"
              /\ SplitDigest(s) = [name |-> s, digest |-> Unset]
           \/ \E a \in 1 .. Len(s) :
                 /\ s[a] = "@" /\ \A i \in 1 .. a - 1 : s[i] # "@"
                 /\ SplitDigest(s) = [name |-> SubSeq(s, 1, a - 1),
                                      digest |-> SubSeq(s, a + 1, Len(s))]
<1> DEFINE I == {i \in 1 .. Len(s) : s[i] = "@"}
           at == IF I # {} THEN Min(I) ELSE 0
<1>0. Len(s) \in Nat
  OBVIOUS
<1>1. SplitDigest(s) = IF at = 0
                       THEN [name |-> s, digest |-> Unset]
                       ELSE [name |-> SubSeq(s, 1, at - 1),
                             digest |-> SubSeq(s, at + 1, Len(s))]
  BY DEF SplitDigest, SelectInSeq
<1>2. CASE I = {}
  BY <1>1, <1>2
<1>3. CASE I # {}
  <2>1. Min(I) \in I /\ \A y \in I : Min(I) <= y
    <3>1. I \subseteq Nat
      BY <1>0
    <3> HIDE DEF I
    <3> QED
      BY <1>3, <3>1, LeastOf
  <2>2. at \in 1 .. Len(s) /\ s[at] = "@" /\ at # 0
    BY <1>0, <1>3, <2>1
  <2>3. \A i \in 1 .. at - 1 : s[i] # "@"
    BY <1>0, <1>3, <2>1, <2>2
  <2> HIDE DEF at
  <2> QED
    BY <1>1, <2>2, <2>3
<1> QED
  BY <1>2, <1>3

\* The tag begins after the last colon, and no slash follows.
LEMMA TagLast ==
    ASSUME NEW T, NEW n \in Seq(T), TagSeparator(n) # 0
    PROVE  /\ TagSeparator(n) \in 1 .. Len(n) /\ n[TagSeparator(n)] = ":"
           /\ \A i \in TagSeparator(n) + 1 .. Len(n) : n[i] # "/"
<1> DEFINE S == {i \in 1 .. Len(n) : n[i] = "/"}
           C == {i \in 1 .. Len(n) : n[i] = ":"}
           slash == IF S # {} THEN Max(S) ELSE 0
           colon == IF C # {} THEN Max(C) ELSE 0
<1>0. Len(n) \in Nat
  OBVIOUS
<1>1. TagSeparator(n) = IF colon > slash THEN colon ELSE 0
  BY DEF TagSeparator, SelectLastInSeq
<1>2. C # {} => Max(C) \in C
  BY <1>0, GreatestOf
<1>3. /\ slash \in 0 .. Len(n)
      /\ \A i \in 1 .. Len(n) : n[i] = "/" => i <= slash
  <2>1. CASE S = {}
    BY <1>0, <2>1
  <2>2. CASE S # {}
    <3>1. Max(S) \in S /\ \A y \in S : Max(S) >= y
      BY <1>0, <2>2, GreatestOf
    <3> QED
      BY <1>0, <2>2, <3>1
  <2> QED
    BY <2>1, <2>2
<1>4. colon > slash /\ TagSeparator(n) = colon /\ colon # 0
  BY <1>1
<1>5. C # {} /\ colon \in 1 .. Len(n) /\ n[colon] = ":"
  BY <1>2, <1>4
<1> HIDE DEF slash, colon
<1>6. \A i \in colon + 1 .. Len(n) : n[i] # "/"
  BY <1>0, <1>3, <1>4, <1>5
<1> QED
  BY <1>4, <1>5, <1>6

\* A sequence is what comes before one of its elements, the element, and
\* what comes after it.
LEMMA CutAt ==
    ASSUME NEW S, NEW s \in Seq(S), NEW k \in 1 .. Len(s)
    PROVE  /\ SubSeq(s, 1, k - 1) \in Seq(S) /\ SubSeq(s, k + 1, Len(s)) \in Seq(S)
           /\ Len(SubSeq(s, 1, k - 1)) = k - 1
           /\ \A i \in 1 .. k - 1 : SubSeq(s, 1, k - 1)[i] = s[i]
           /\ Len(SubSeq(s, k + 1, Len(s))) = Len(s) - k
           /\ \A i \in 1 .. Len(s) - k : SubSeq(s, k + 1, Len(s))[i] = s[k + i]
           /\ s = (SubSeq(s, 1, k - 1) \o <<s[k]>>) \o SubSeq(s, k + 1, Len(s))
<1>0. Len(s) \in Nat /\ \A i \in 1 .. Len(s) : s[i] \in S
  BY ElementOfSeq
<1>1. /\ SubSeq(s, 1, k - 1) \in Seq(S)
      /\ Len(SubSeq(s, 1, k - 1)) = k - 1
      /\ \A i \in 1 .. k - 1 : SubSeq(s, 1, k - 1)[i] = s[i]
  OBVIOUS
<1>2. /\ SubSeq(s, k + 1, Len(s)) \in Seq(S)
      /\ Len(SubSeq(s, k + 1, Len(s))) = Len(s) - k
      /\ \A i \in 1 .. Len(s) - k : SubSeq(s, k + 1, Len(s))[i] = s[k + i]
  OBVIOUS
<1>3. SubSeq(s, 1, k) = SubSeq(s, 1, k - 1) \o <<s[k]>>
  BY <1>0, SubSeqRecursiveSecond
<1>4. SubSeq(s, 1, k) \o SubSeq(s, k + 1, Len(s)) = SubSeq(s, 1, Len(s))
  BY <1>0, ConcatAdjacentSubSeq
<1>5. SubSeq(s, 1, Len(s)) = s
  BY SubSeqFull
<1> QED
  BY <1>1, <1>2, <1>3, <1>4, <1>5

\* What ParseImage makes of the part before the digest.
Repository(n) == IF TagSeparator(n) = 0 THEN n ELSE SubSeq(n, 1, TagSeparator(n) - 1)
Tag(n) == IF TagSeparator(n) = 0 THEN <<"latest">> ELSE SubSeq(n, TagSeparator(n) + 1, Len(n))

Join(repository, tag) == repository \o <<":">> \o tag

\* A sequence of one word.
LEMMA OneWord ==
    ASSUME NEW S, NEW e \in S
    PROVE  /\ <<e>> \in Seq(S) /\ Len(<<e>>) = 1
           /\ \A i \in 1 .. 1 : <<e>>[i] = e
<1>1. \A i \in 1 .. 1 : i = 1
  OBVIOUS
<1>2. <<e>> \in Seq(S) /\ Len(<<e>>) = 1 /\ <<e>>[1] = e
  OBVIOUS
<1> QED
  BY <1>1, <1>2

\* Only a missing tag is added; no tag contains a slash or a digest.
LEMMA NameSplit ==
    ASSUME NEW n \in Seq(ImageSymbol), \A i \in 1 .. Len(n) : n[i] # "@"
    PROVE  /\ Repository(n) \in Seq(ImageSymbol) /\ Tag(n) \in Seq(ImageSymbol)
           /\ \A i \in 1 .. Len(Tag(n)) : Tag(n)[i] \notin {"@", "/"}
           /\ \/ Repository(n) = n /\ Tag(n) = <<"latest">>
              \/ Join(Repository(n), Tag(n)) = n
<1>1. CASE TagSeparator(n) = 0
  <2>1. Repository(n) = n /\ Tag(n) = <<"latest">>
    BY <1>1 DEF Repository, Tag
  <2>2. /\ Tag(n) \in Seq(ImageSymbol)
        /\ \A i \in 1 .. Len(Tag(n)) : Tag(n)[i] = "latest"
    <3>1. "latest" \in ImageSymbol
      BY DEF ImageSymbol
    <3>2. /\ <<"latest">> \in Seq(ImageSymbol) /\ Len(<<"latest">>) = 1
          /\ \A i \in 1 .. 1 : <<"latest">>[i] = "latest"
      BY <3>1, OneWord, Zenon
    <3> QED
      BY <2>1, <3>2, Zenon
  <2> QED
    BY <2>1, <2>2
<1>2. CASE TagSeparator(n) # 0
  <2> DEFINE k == TagSeparator(n)
  <2>1. /\ k \in 1 .. Len(n) /\ n[k] = ":" /\ \A i \in k + 1 .. Len(n) : n[i] # "/"
    BY <1>2, TagLast
  <2>2. Repository(n) = SubSeq(n, 1, k - 1) /\ Tag(n) = SubSeq(n, k + 1, Len(n))
    BY <1>2 DEF Repository, Tag
  <2> HIDE DEF k
  <2>3. /\ Repository(n) \in Seq(ImageSymbol) /\ Tag(n) \in Seq(ImageSymbol)
        /\ Len(Tag(n)) = Len(n) - k
        /\ \A i \in 1 .. Len(n) - k : Tag(n)[i] = n[k + i]
        /\ n = (Repository(n) \o <<":">>) \o Tag(n)
    <3>1. /\ SubSeq(n, 1, k - 1) \in Seq(ImageSymbol) /\ SubSeq(n, k + 1, Len(n)) \in Seq(ImageSymbol)
          /\ Len(SubSeq(n, k + 1, Len(n))) = Len(n) - k
          /\ \A i \in 1 .. Len(n) - k : SubSeq(n, k + 1, Len(n))[i] = n[k + i]
          /\ n = (SubSeq(n, 1, k - 1) \o <<n[k]>>) \o SubSeq(n, k + 1, Len(n))
      BY <2>1, CutAt, Zenon
    <3> QED
      BY <2>1, <2>2, <3>1, Zenon
  <2>4. \A i \in 1 .. Len(Tag(n)) : Tag(n)[i] \notin {"@", "/"}
    <3> SUFFICES ASSUME NEW i \in 1 .. Len(Tag(n)) PROVE Tag(n)[i] \notin {"@", "/"}
      OBVIOUS
    <3>1. Len(n) \in Nat /\ k + i \in k + 1 .. Len(n) /\ k + i \in 1 .. Len(n)
      BY <2>1, <2>3
    <3> QED
      BY <2>1, <2>3, <3>1
  <2> QED
    BY <2>3, <2>4 DEF Join
<1> QED
  BY <1>1, <1>2

\* The two shapes of a parsed image.
LEMMA ParsedShape ==
    ASSUME NEW s \in Seq(ImageSymbol), ParseImage(s) # Unset
    PROVE  \/ /\ \A i \in 1 .. Len(s) : s[i] # "@"
              /\ ParseImage(s).repository = Repository(s) /\ ParseImage(s).tag = Tag(s)
           \/ \E a \in 1 .. Len(s) :
                 LET n == SubSeq(s, 1, a - 1)  d == SubSeq(s, a + 1, Len(s))
                 IN  /\ s[a] = "@" /\ \A i \in 1 .. a - 1 : s[i] # "@"
                     /\ ParseImage(s).repository = Repository(n)
                     /\ ParseImage(s).tag = Tag(n) \o <<"@">> \o d
<1>1. CASE /\ \A i \in 1 .. Len(s) : s[i] # "@"
           /\ SplitDigest(s) = [name |-> s, digest |-> Unset]
  <2>1. SplitDigest(s).name = s /\ SplitDigest(s).digest = Unset
    BY <1>1
  <2>2. ParseImage(s) = [repository |-> Repository(s), tag |-> Tag(s)]
    BY <2>1 DEF ParseImage, Repository, Tag
  <2> QED
    BY <1>1, <2>2
<1>2. ASSUME NEW a \in 1 .. Len(s), s[a] = "@", \A i \in 1 .. a - 1 : s[i] # "@",
             SplitDigest(s) = [name |-> SubSeq(s, 1, a - 1),
                               digest |-> SubSeq(s, a + 1, Len(s))]
      PROVE  /\ ParseImage(s).repository = Repository(SubSeq(s, 1, a - 1))
             /\ ParseImage(s).tag =
                   Tag(SubSeq(s, 1, a - 1)) \o <<"@">> \o SubSeq(s, a + 1, Len(s))
  <2> DEFINE n == SubSeq(s, 1, a - 1)  d == SubSeq(s, a + 1, Len(s))
  <2>1. SplitDigest(s).name = n /\ SplitDigest(s).digest = d
    BY <1>2
  <2>2. d # Unset
    BY CutAt, ConfigAssumption
  <2> HIDE DEF n, d
  <2>3. ParseImage(s) = [repository |-> Repository(n), tag |-> Tag(n) \o <<"@">> \o d]
    BY <2>1, <2>2 DEF ParseImage, Repository, Tag
  <2>4. ParseImage(s).repository = Repository(n) /\ ParseImage(s).tag = Tag(n) \o <<"@">> \o d
    BY <2>3
  <2> QED
    BY <2>4, Zenon DEF n, d
<1> QED
  BY <1>1, <1>2, DigestFirst

\* Joining adds nothing but the tag that was missing.
SameImage(s, joined) ==
    \/ joined = s
    \/ \E i \in 0..Len(s) :
          joined = SubSeq(s, 1, i) \o <<":", "latest">> \o SubSeq(s, i + 1, Len(s))

\* The words that parse adds.
LEMMA AddedWords ==
    /\ <<":">> \in Seq(ImageSymbol) /\ <<"@">> \in Seq(ImageSymbol)
    /\ <<"latest">> \in Seq(ImageSymbol)
    /\ <<":", "latest">> \in Seq(ImageSymbol)
    /\ <<":">> \o <<"latest">> = <<":", "latest">>
<1>1. ":" \in ImageSymbol /\ "latest" \in ImageSymbol /\ "@" \in ImageSymbol
  BY DEF ImageSymbol
<1>2. /\ <<":">> \in Seq(ImageSymbol) /\ <<"@">> \in Seq(ImageSymbol)
      /\ <<"latest">> \in Seq(ImageSymbol)
  BY <1>1, OneWord, Zenon
<1>3. ASSUME NEW S, NEW a \in S, NEW b \in S
      PROVE  <<a, b>> \in Seq(S) /\ <<a>> \o <<b>> = <<a, b>>
  <2>1. <<a, b>> \in Seq(S) /\ Len(<<a, b>>) = 2
    OBVIOUS
  <2>2. <<a>> \in Seq(S) /\ <<b>> \in Seq(S) /\ Len(<<a>>) = 1 /\ Len(<<b>>) = 1
    OBVIOUS
  <2>3. /\ <<a>> \o <<b>> \in Seq(S) /\ Len(<<a>> \o <<b>>) = Len(<<a>>) + Len(<<b>>)
        /\ \A i \in 1 .. Len(<<a>>) + Len(<<b>>) :
              (<<a>> \o <<b>>)[i] = IF i <= Len(<<a>>) THEN <<a>>[i] ELSE <<b>>[i - Len(<<a>>)]
    BY <2>2, ConcatProperties
  <2>4. \A i \in 1 .. 2 : (<<a>> \o <<b>>)[i] = <<a, b>>[i]
    <3>1. \A i \in 1 .. 2 : i = 1 \/ i = 2
      OBVIOUS
    <3>2. (<<a>> \o <<b>>)[1] = a /\ (<<a>> \o <<b>>)[2] = b
      BY <2>2, <2>3
    <3> QED
      BY <3>1, <3>2
  <2> DEFINE u == <<a>> \o <<b>>  v == <<a, b>>
  <2>5. u \in Seq(S) /\ v \in Seq(S) /\ Len(u) = 2 /\ Len(v) = 2 /\ \A i \in 1 .. 2 : u[i] = v[i]
    BY <2>1, <2>2, <2>3, <2>4
  <2> HIDE DEF u, v
  <2>6. u = v
    BY <2>5, SeqEqual
  <2> QED
    BY <2>1, <2>6 DEF u, v
<1> QED
  BY <1>1, <1>2, <1>3, Zenon

\* An image survives its split, and its tag has no slash, for images of any
\* length and with any separators.
LEMMA ImageKept ==
    ASSUME NEW s \in Seq(ImageSymbol), ParseImage(s) # Unset
    PROVE  /\ SameImage(s, Join(ParseImage(s).repository, ParseImage(s).tag))
           /\ "/" \notin Range(SplitDigest(ParseImage(s).tag).name)
<1> DEFINE p == ParseImage(s)
<1>0. s \in Seq(ImageSymbol) /\ Len(s) \in Nat
  OBVIOUS
<1>1. CASE /\ \A i \in 1 .. Len(s) : s[i] # "@"
           /\ p.repository = Repository(s) /\ p.tag = Tag(s)
  <2> DEFINE r == Repository(s)  t == Tag(s)
  <2>1. /\ r \in Seq(ImageSymbol) /\ t \in Seq(ImageSymbol)
        /\ \A i \in 1 .. Len(t) : t[i] \notin {"@", "/"}
        /\ (r = s /\ t = <<"latest">>) \/ Join(r, t) = s
    BY <1>0, <1>1, NameSplit
  <2> HIDE DEF p, r, t
  <2>2. SameImage(s, Join(r, t))
    <3>1. CASE r = s /\ t = <<"latest">>
      <4>1. Join(r, t) = s \o <<":", "latest">>
        BY <1>0, <3>1, AddedWords, ConcatAssociative DEF Join
      <4>2. SubSeq(s, 1, Len(s)) = s /\ SubSeq(s, Len(s) + 1, Len(s)) = << >>
        BY <1>0, SubSeqFull, SubSeqEmpty
      <4>3. s \o <<":", "latest">> \in Seq(ImageSymbol)
        BY <1>0, AddedWords, ConcatProperties
      <4>4. (s \o <<":", "latest">>) \o << >> = s \o <<":", "latest">>
        BY <4>3, ConcatEmptySeq
      <4>5. Join(r, t) = SubSeq(s, 1, Len(s)) \o <<":", "latest">> \o SubSeq(s, Len(s) + 1, Len(s))
        BY <4>1, <4>2, <4>4
      <4>6. Len(s) \in 0 .. Len(s)
        BY <1>0
      <4> QED
        BY <4>5, <4>6 DEF SameImage
    <3>2. CASE Join(r, t) = s
      BY <3>2 DEF SameImage
    <3> QED
      BY <2>1, <3>1, <3>2
  <2>3. SplitDigest(t).name = t
    <3>1. ~ \E a \in 1 .. Len(t) : t[a] = "@"
      BY <2>1
    <3>2. SplitDigest(t) = [name |-> t, digest |-> Unset]
      BY <2>1, <3>1, DigestFirst
    <3> QED
      BY <3>2
  <2>4. Range(t) = {t[i] : i \in 1 .. Len(t)}
    BY <2>1, RangeEquality
  <2>5. "/" \notin Range(t)
    BY <2>1, <2>4
  <2> QED
    BY <1>1, <2>2, <2>3, <2>5 DEF p, r, t
<1>2. ASSUME NEW a \in 1 .. Len(s), s[a] = "@", \A i \in 1 .. a - 1 : s[i] # "@",
             p.repository = Repository(SubSeq(s, 1, a - 1)),
             p.tag = Tag(SubSeq(s, 1, a - 1)) \o <<"@">> \o SubSeq(s, a + 1, Len(s))
      PROVE  /\ SameImage(s, Join(p.repository, p.tag))
             /\ "/" \notin Range(SplitDigest(p.tag).name)
  <2> DEFINE n == SubSeq(s, 1, a - 1)  d == SubSeq(s, a + 1, Len(s))
             r == Repository(n)  t == Tag(n)  tag == t \o <<"@">> \o d
  <2>1. /\ n \in Seq(ImageSymbol) /\ d \in Seq(ImageSymbol) /\ Len(n) = a - 1
        /\ \A i \in 1 .. a - 1 : n[i] = s[i]
        /\ s = (n \o <<"@">>) \o d
    BY <1>0, <1>2, CutAt
  <2>2. \A i \in 1 .. Len(n) : n[i] # "@"
    BY <1>2, <2>1
  <2>3. /\ r \in Seq(ImageSymbol) /\ t \in Seq(ImageSymbol)
        /\ \A i \in 1 .. Len(t) : t[i] \notin {"@", "/"}
        /\ (r = n /\ t = <<"latest">>) \/ Join(r, t) = n
    <3> HIDE DEF n
    <3> QED
      BY <2>1, <2>2, NameSplit
  <2>4. SubSeq(s, a, Len(s)) = <<"@">> \o d
    <3>1. Len(s) \in a .. Len(s)
      BY <1>0
    <3>2. SubSeq(s, a, Len(s)) = <<s[a]>> \o SubSeq(s, a + 1, Len(s))
      BY <1>0, <3>1, SubSeqRecursiveFirst
    <3> QED
      BY <1>2, <3>2
  <2> HIDE DEF p, r, t, d
  <2>5. Join(r, tag) = (((r \o <<":">>) \o t) \o <<"@">>) \o d
    <3>1. (r \o <<":">>) \o ((t \o <<"@">>) \o d) = (((r \o <<":">>) \o t) \o <<"@">>) \o d
      <4> DEFINE c == <<":">>  m == <<"@">>
      <4>1. c \in Seq(ImageSymbol) /\ m \in Seq(ImageSymbol)
        BY AddedWords
      <4>2. r \in Seq(ImageSymbol) /\ t \in Seq(ImageSymbol) /\ d \in Seq(ImageSymbol)
        BY <2>1, <2>3
      <4> HIDE DEF c, m
      <4> DEFINE rc == r \o c  tm == t \o m
      <4>3. rc \in Seq(ImageSymbol) /\ tm \in Seq(ImageSymbol)
        BY <4>1, <4>2
      <4> HIDE DEF rc
      <4>4. (rc \o t) \o m = rc \o (t \o m)
        BY <4>1, <4>2, <4>3
      <4> HIDE DEF tm
      <4>5. (rc \o tm) \o d = rc \o (tm \o d)
        BY <4>2, <4>3
      <4> QED
        BY <4>4, <4>5 DEF c, m, rc, tm
    <3> QED
      BY <3>1 DEF Join
  <2>6. SameImage(s, Join(r, tag))
    <3>1. CASE Join(r, t) = n
      BY <2>1, <2>5, <3>1 DEF Join, SameImage
    <3>2. CASE r = n /\ t = <<"latest">>
      <4>1. (n \o <<":">>) \o <<"latest">> = n \o <<":", "latest">>
        BY <2>1, AddedWords, ConcatAssociative
      <4>2. n \o <<":", "latest">> \in Seq(ImageSymbol)
        BY <2>1, AddedWords, ConcatProperties
      <4>3. ((n \o <<":", "latest">>) \o <<"@">>) \o d = (n \o <<":", "latest">>) \o (<<"@">> \o d)
        <5> DEFINE u == n \o <<":", "latest">>  m == <<"@">>
        <5>1. u \in Seq(ImageSymbol) /\ m \in Seq(ImageSymbol) /\ d \in Seq(ImageSymbol)
          BY <2>1, <4>2, AddedWords
        <5> HIDE DEF u, m
        <5>2. (u \o m) \o d = u \o (m \o d)
          BY <5>1
        <5> QED
          BY <5>2 DEF u, m
      <4>4. Join(r, tag) = (n \o <<":", "latest">>) \o SubSeq(s, a, Len(s))
        BY <2>4, <2>5, <3>2, <4>1, <4>3
      <4>5. a - 1 \in 0 .. Len(s) /\ (a - 1) + 1 = a
        BY <1>0
      <4> QED
        BY <4>4, <4>5 DEF SameImage
    <3> QED
      BY <2>3, <3>1, <3>2
  <2>7. tag \in Seq(ImageSymbol) /\ Len(t) \in Nat /\ Len(tag) \in Nat /\ Len(t) + 1 \in 1 .. Len(tag)
        /\ tag[Len(t) + 1] = "@" /\ \A i \in 1 .. Len(t) : tag[i] = t[i]
    <3> DEFINE u == t \o <<"@">>
    <3>1. Len(t) \in Nat /\ Len(d) \in Nat /\ <<"@">> \in Seq(ImageSymbol)
          /\ Len(<<"@">>) = 1 /\ <<"@">>[1] = "@"
      BY <2>1, <2>3, AddedWords
    <3>2. u \in Seq(ImageSymbol) /\ Len(u) = Len(t) + 1
          /\ \A i \in 1 .. Len(t) + 1 : u[i] = IF i <= Len(t) THEN t[i] ELSE <<"@">>[i - Len(t)]
      BY <2>3, <3>1, ConcatProperties
    <3>3. u[Len(t) + 1] = "@" /\ \A i \in 1 .. Len(t) : u[i] = t[i]
      BY <3>1, <3>2
    <3> HIDE DEF u
    <3>4. u \o d \in Seq(ImageSymbol) /\ Len(u \o d) = Len(u) + Len(d)
          /\ \A i \in 1 .. Len(u) + Len(d) : (u \o d)[i] = IF i <= Len(u) THEN u[i] ELSE d[i - Len(u)]
      BY <2>1, <3>2, ConcatProperties
    <3>5. tag = u \o d
      BY DEF u
    <3> HIDE DEF tag
    <3> QED
      BY <3>1, <3>2, <3>3, <3>4, <3>5
  <2> HIDE DEF tag
  <2>8. PICK b \in 1 .. Len(tag) : /\ \A i \in 1 .. b - 1 : tag[i] # "@"
                                  /\ SplitDigest(tag).name = SubSeq(tag, 1, b - 1)
    <3>1. ~ \A i \in 1 .. Len(tag) : tag[i] # "@"
      BY <2>7
    <3>2. PICK b \in 1 .. Len(tag) :
              /\ \A i \in 1 .. b - 1 : tag[i] # "@"
              /\ SplitDigest(tag) = [name |-> SubSeq(tag, 1, b - 1),
                                     digest |-> SubSeq(tag, b + 1, Len(tag))]
      BY <2>7, <3>1, DigestFirst
    <3>3. SplitDigest(tag).name = SubSeq(tag, 1, b - 1)
      BY <3>2
    <3> QED
      BY <3>2, <3>3
  <2>9. b <= Len(t) + 1
    BY <2>7, <2>8
  <2> DEFINE name == SubSeq(tag, 1, b - 1)
  <2>10. name \in Seq(ImageSymbol) /\ Len(name) = b - 1 /\ \A i \in 1 .. b - 1 : name[i] = tag[i]
    BY <2>7, CutAt
  <2>11. \A i \in 1 .. Len(name) : name[i] # "/"
    <3> SUFFICES ASSUME NEW i \in 1 .. Len(name) PROVE name[i] # "/"
      OBVIOUS
    <3> HIDE DEF name
    <3>1. i \in 1 .. b - 1 /\ i \in 1 .. Len(t)
      BY <2>7, <2>9, <2>10
    <3> QED
      BY <2>3, <2>7, <2>10, <3>1
  <2> HIDE DEF name
  <2>12. Range(name) = {name[i] : i \in 1 .. Len(name)}
    BY <2>10, RangeEquality
  <2>13. "/" \notin Range(name)
    BY <2>11, <2>12
  <2> QED
    BY <1>2, <2>6, <2>8, <2>13 DEF r, t, d, tag, name
<1> QED
  BY <1>1, <1>2, ParsedShape

-----------------------------------------------------------------------------
\* For any configuration, environment and server: deadlines, sizes and images
\* reach the server and the engine as they were given.
THEOREM ConfigurationArrives == Spec => []ConfigurationPreserved
<1>1. Init => ConfigInv /\ ConfigurationPreserved
  BY ConfigInit DEF Init, ConfigurationPreserved, TimeoutsEffective, TmpfsSizePreserved,
     ImageSurvivesParsing, Started
<1>2. ASSUME ConfigInv, ConfigurationPreserved, [Next]_vars
      PROVE  ConfigInv' /\ ConfigurationPreserved'
  <2>1. ConfigInv'
    BY <1>2, ConfigStep
  <2>2. CASE server' = Unset
    BY <2>1, <2>2 DEF ConfigurationPreserved, TimeoutsEffective, TmpfsSizePreserved,
       ImageSurvivesParsing, Started
  <2>3. CASE UNCHANGED vars
    BY <1>2, <2>1, <2>3 DEF ConfigurationPreserved, TimeoutsEffective, TmpfsSizePreserved,
       ImageSurvivesParsing, Started, vars, StatementTimeout, LockTimeoutSetting,
       WaitTimeoutSetting, ClientTimeout, EngineTimeout, ResolvedImage
  <2>4. ASSUME NEW setting \in Settings, Start(setting) PROVE ConfigurationPreserved'
    <3>1. /\ config' = config /\ environment' = environment /\ config \in Config
          /\ Accepted(config)
      BY <1>2, <2>4, StartResult
    <3>2. TimeoutsEffective'
      <4>1. /\ StatementTimeout(config) \in 1..MaxI32
            /\ LockTimeoutSetting(config) \in 1..StatementTimeout(config)
            /\ WaitTimeoutSetting(config) \in 1..MaxI32
            /\ PerMilli * StatementTimeout(config) < ClientTimeout(config.operation)
            /\ PerMilli * WaitTimeoutSetting(config) < ClientTimeout(config.wait)
            /\ Millis(config.startup) >= 1 /\ config.startup <= EngineTimeout(config)
        BY <3>1, DeadlinesWork, Zenon
      <4> QED
        BY <3>1, <4>1 DEF TimeoutsEffective, StatementTimeout, LockTimeoutSetting,
           WaitTimeoutSetting, ClientTimeout, EngineTimeout
    <3>3. CASE ~Started'
      BY <3>2, <3>3 DEF ConfigurationPreserved, TmpfsSizePreserved, ImageSurvivesParsing
    <3>4. CASE Started'
      <4>1. /\ ResolvedUrl(config) = Unset => ResolvedImage(config) # Unset
            /\ server'.mode = (IF ResolvedUrl(config) # Unset THEN "external" ELSE "owned")
            /\ server'.tmpfs = (IF config.tmpfs = Unset THEN Unset
                                ELSE TmpfsMountSize(config.tmpfs))
        <5>1. server'.mode \in {"external", "owned"}
          BY <3>4 DEF Started
        <5>2. ASSUME NEW x, x \notin {"external", "owned"} PROVE server' # [mode |-> x]
          <6> SUFFICES ASSUME server' = [mode |-> x] PROVE FALSE
            OBVIOUS
          <6>1. server'.mode = x
            OBVIOUS
          <6> QED
            BY <5>1, <5>2, <6>1
        <5>3. /\ server' # [mode |-> "invalid limits"] /\ server' # [mode |-> "invalid url"]
              /\ server' # [mode |-> "invalid image"]
          BY <5>2
        <5> QED
          BY <1>2, <2>4, <5>3, StartResult
      <4>2. TmpfsSizePreserved'
        BY <3>1, <4>1, SizeSurvives DEF TmpfsSizePreserved
      <4>3. ImageSurvivesParsing'
        <5> SUFFICES ASSUME server'.mode = "owned" PROVE ImageSurvivesParsing'
          BY DEF ImageSurvivesParsing
        <5> DEFINE source == IF config.image # Unset THEN config.image
                             ELSE IF environment.image # Unset THEN environment.image
                             ELSE DefaultImage
        <5>1. ResolvedImage(config) # Unset /\ ResolvedImage(config) = ParseImage(source)
          BY <4>1 DEF ResolvedImage
        <5>2. source \in Seq(ImageSymbol)
          <6>1. DefaultImage \in Seq(ImageSymbol)
            <7>1. ASSUME NEW S, NEW x \in S, NEW y \in S PROVE <<x, y, x>> \in Seq(S)
              OBVIOUS
            <7>2. "word" \in ImageSymbol /\ ":" \in ImageSymbol
              BY DEF ImageSymbol
            <7> QED
              BY <7>1, <7>2 DEF DefaultImage
          <6>2. /\ config.image # Unset => config.image \in Images
                /\ environment.image # Unset => environment.image \in Images
            BY <1>2, <3>1 DEF Config, ConfigInv, TypeOK
          <6> QED
            BY <6>1, <6>2, ConfigAssumption
        <5> HIDE DEF source
        <5>3. /\ SameImage(source, Join(ParseImage(source).repository, ParseImage(source).tag))
              /\ "/" \notin Range(SplitDigest(ParseImage(source).tag).name)
          BY <5>1, <5>2, ImageKept
        <5> QED
          BY <3>1, <5>1, <5>3 DEF ImageSurvivesParsing, SameImage, Join, ResolvedImage, source
      <4> QED
        BY <3>2, <4>2, <4>3 DEF ConfigurationPreserved
    <3> QED
      BY <3>3, <3>4
  <2> QED
    BY <1>2, <2>1, <2>2, <2>3, <2>4, StartsOnce
<1> QED
  BY <1>1, <1>2, PTL DEF Spec
=============================================================================
