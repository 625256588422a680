----------------------------- MODULE HarnessConfig -----------------------------
(***************************************************************************)
(* The configuration of a harness (src/config.rs) and the sizes that the   *)
(* start of a server computes from it (src/server.rs, src/admin.rs): the   *)
(* setters validate one value each, connection_limits what they amount to  *)
(* together, and finish_start_with_client sizes the session pool and the   *)
(* cleanup queue for the server it finds.                                  *)
(*                                                                         *)
(* An image reference is a sequence of words and the separators that       *)
(* ImageReference::parse looks for.  The constants MaxU32 and MaxI32 stand *)
(* for the ends of those integer types.                                    *)
(***************************************************************************)
EXTENDS Integers, Sequences, SequencesExt

CONSTANTS
    Permits,       \* arguments of the connection setters
    Durations,     \* arguments of the timeout setters, in ticks
    Images,        \* arguments of with_image and values of its variable
    Settings,      \* <<max_connections, reserved, superuser_reserved>> of servers
    MaxCalls,      \* bound: calls of setters before the start
    PerMilli,      \* ticks in a millisecond
    LockTimeout, Grace,          \* LOCK_TIMEOUT, CLIENT_OPERATION_TIMEOUT_GRACE
    EngineFloor,                 \* CONTAINER_ENGINE_STARTUP_TIMEOUT_FLOOR
    DefaultBudget, DefaultPerDatabase, DefaultTimeout,
    MaxU32, MaxI32, MaxI64,      \* with MaxU64 = 2 * MaxI64 + 1
    Unset

\* The words and separators of an image reference: strings, those among them
\* that the code itself writes or looks for by name.
ImageSymbol == STRING \cup {"word", "latest", "blank", "@", ":", "/"}

ASSUME ConfigAssumption ==
    /\ Permits \subseteq Nat /\ Durations \subseteq Nat /\ MaxCalls \in Nat
    /\ Settings \subseteq Int \X Int \X Int
    /\ Images \subseteq Seq(ImageSymbol) /\ Unset \notin Seq(ImageSymbol)
    /\ {PerMilli, LockTimeout, Grace, DefaultTimeout, MaxU32, MaxI32} \subseteq Nat
    /\ PerMilli > 0 /\ LockTimeout >= PerMilli /\ Grace >= PerMilli
    /\ DefaultBudget \in 1..MaxU32 /\ DefaultPerDatabase \in 1..MaxU32
    /\ DefaultTimeout \div PerMilli \in 1..MaxI32
    /\ MaxI64 \in Nat \ {0} /\ EngineFloor \in Nat

VARIABLES
    config,     \* the HarnessConfig, or Unset after a setter's error
    environment,\* POSTGRES_TEST_ADMIN_URL and POSTGRES_TEST_IMAGE
    server,     \* what the start resolved, or how it failed
    calls       \* setters called so far

vars == <<config, environment, server, calls>>

\* A URL is kept as it is given and read at the start.
Urls == {"valid", "invalid"}

(***************************************************************************)
(* Mistakes the code could plausibly contain, each replacing the operator  *)
(* whose name it starts with.                                              *)
(***************************************************************************)
PerDatabase_Unclamped(c) ==
    IF c.perDatabase # Unset THEN c.perDatabase ELSE DefaultPerDatabase
ValidMillis_NotZero(d) == d > 0

-----------------------------------------------------------------------------
(* ImageReference::parse *)

\* The part before the first @, and the digest.
SplitDigest(image) ==
    LET at == SelectInSeq(image, LAMBDA x : x = "@")
    IN  IF at = 0
        THEN [name |-> image, digest |-> Unset]
        ELSE [name |-> SubSeq(image, 1, at - 1), digest |-> SubSeq(image, at + 1, Len(image))]

\* The last colon, unless a slash follows it: then it belongs to the port of
\* a registry.
TagSeparator(name) ==
    LET slash == SelectLastInSeq(name, LAMBDA x : x = "/")
        colon == SelectLastInSeq(name, LAMBDA x : x = ":")
    IN  IF colon > slash THEN colon ELSE 0

ParseImage(image) ==
    LET split == SplitDigest(image)
        at == TagSeparator(split.name)
        repository == IF at = 0 THEN split.name ELSE SubSeq(split.name, 1, at - 1)
        tag == IF at = 0 THEN <<"latest">> ELSE SubSeq(split.name, at + 1, Len(split.name))
    IN  IF \/ "blank" \in Range(image)
           \/ image = <<>> \/ split.name = <<>> \/ split.digest = <<>>
           \/ repository = <<>> \/ tag = <<>>
        THEN Unset
        ELSE [repository |-> repository,
              tag |-> IF split.digest = Unset THEN tag ELSE tag \o <<"@">> \o split.digest]

-----------------------------------------------------------------------------
(* The setters of HarnessConfig. *)

Millis(d) == d \div PerMilli
ValidMillis(d) == Millis(d) # 0
ValidPostgresTimeout(d) == ValidMillis(d) /\ Millis(d) <= MaxI32

\* OwnedContainerProfile::performance
Profile == [noSync |-> TRUE, tmpfs |-> MaxI64 \div 2]

Init ==
    /\ config = [budget |-> Unset, perDatabase |-> Unset, operation |-> DefaultTimeout,
                 startup |-> DefaultTimeout, wait |-> DefaultTimeout, stale |-> DefaultTimeout,
                 image |-> Unset, url |-> Unset, cleanupOnStart |-> TRUE,
                 noSync |-> Profile.noSync, tmpfs |-> Profile.tmpfs]
    /\ environment \in [url : Urls \cup {Unset}, image : Images \cup {Unset}]
    /\ server = Unset
    /\ calls = 0

Configuring == config # Unset /\ server = Unset

\* A setter takes the configuration by value: after an error there is none.
Set(valid, field, value) ==
    /\ Configuring /\ calls < MaxCalls
    /\ calls' = calls + 1
    /\ config' = IF valid THEN [config EXCEPT ![field] = value] ELSE Unset
    /\ UNCHANGED <<environment, server>>

ValidBudget(n) == n \in 1..MaxU32
WithConnectionBudget(n) == Set(ValidBudget(n), "budget", n)
WithConnectionsPerDatabase(n) == n <= MaxU32 /\ Set(n # 0, "perDatabase", n)
WithOperationTimeout(d) == Set(ValidPostgresTimeout(d), "operation", d)
WithStartupTimeout(d) == Set(ValidMillis(d), "startup", d)
WithTemplateWaitTimeout(d) == Set(ValidPostgresTimeout(d), "wait", d)
WithImage(image) == Set(ParseImage(image) # Unset, "image", image)
WithAdminDatabaseUrl(url) == Set(TRUE, "url", url)
WithStaleAfter(d) == Set(TRUE, "stale", d)
WithCleanupOnStart(enabled) == Set(TRUE, "cleanupOnStart", enabled)

\* with_owned_container_profile, after the profile's own setters.
ValidTmpfsSize(n) == n \in 1..MaxI64
WithTmpfsSizeBytes(n) == n <= 2 * MaxI64 + 1 /\ Set(ValidTmpfsSize(n), "tmpfs", n)
WithoutTmpfs == Set(TRUE, "tmpfs", Unset)
WithInitdbNoSync(enabled) == Set(TRUE, "noSync", enabled)

-----------------------------------------------------------------------------
(* What the start makes of it. *)

Budget(c) == IF c.budget # Unset THEN c.budget ELSE DefaultBudget
PerDatabase(c) ==
    IF c.perDatabase # Unset THEN c.perDatabase ELSE Min({DefaultPerDatabase, Budget(c)})
ValidLimits(c) == PerDatabase(c) <= Budget(c)
MaxSimultaneousLeases(c) == Budget(c) \div PerDatabase(c)

\* regular_connection_slots_from_settings
SaturatingSub(a, b) == Max({0, a - b})
SlotsFrom(max, reserved, superuser) ==
    SaturatingSub(SaturatingSub(Max({0, max}), Max({0, reserved})), Max({0, superuser}))

AdminPoolSize(leases, slots) == Max({1, Min({leases, Max({1, slots \div 4})})})
CleanupWorkers(pool) == Max({1, Min({pool \div 2, 4})})

\* configure_session_timeouts and the client's own deadline for a request.
StatementTimeout(c) == Millis(c.operation)
LockTimeoutSetting(c) == Millis(Min({LockTimeout, c.operation}))
ClientTimeout(d) == d + Grace
\* configure_coordination_timeouts, while a template lock is waited for.
WaitTimeoutSetting(c) == Millis(c.wait)
\* The engine's own deadline for a container, which the caller's one precedes.
EngineTimeout(c) == Max({c.startup, EngineFloor})
\* size_bytes as i64
TmpfsMountSize(n) == IF n > MaxI64 THEN n - (2 * MaxI64 + 2) ELSE n

ResolvedUrl(c) == IF c.url # Unset THEN c.url ELSE environment.url
ValidUrl(url) == url # "invalid"
\* "postgres:18"
DefaultImage == <<"word", ":", "word">>
ResolvedImage(c) ==
    ParseImage(IF c.image # Unset THEN c.image
               ELSE IF environment.image # Unset THEN environment.image ELSE DefaultImage)

\* An external server is used when a URL is known; otherwise the image decides
\* whether there can be a container.
Start(setting) ==
    /\ Configuring
    /\ LET slots == SlotsFrom(setting[1], setting[2], setting[3])
           pool == AdminPoolSize(MaxSimultaneousLeases(config), slots)
           workers == CleanupWorkers(pool)
       IN  server' =
             IF ~ValidLimits(config)
             THEN [mode |-> "invalid limits"]
             ELSE IF ~ValidUrl(ResolvedUrl(config))
             THEN [mode |-> "invalid url"]
             ELSE IF ResolvedUrl(config) = Unset /\ ResolvedImage(config) = Unset
             THEN [mode |-> "invalid image"]
             ELSE [mode |-> IF ResolvedUrl(config) # Unset THEN "external" ELSE "owned",
                   tmpfs |-> IF config.tmpfs = Unset THEN Unset ELSE TmpfsMountSize(config.tmpfs),
                   leases |-> MaxSimultaneousLeases(config), slots |-> slots,
                   pool |-> pool, workers |-> workers, capacity |-> workers]
    /\ UNCHANGED <<config, environment, calls>>

Next ==
    \/ \E n \in Permits : WithConnectionBudget(n) \/ WithConnectionsPerDatabase(n)
    \/ \E d \in Durations : WithOperationTimeout(d) \/ WithStartupTimeout(d)
                           \/ WithTemplateWaitTimeout(d) \/ WithStaleAfter(d)
    \/ \E image \in Images : WithImage(image)
    \/ WithoutTmpfs \/ \E url \in Urls : WithAdminDatabaseUrl(url)
    \/ \E n \in Permits : WithTmpfsSizeBytes(n)
    \/ \E enabled \in BOOLEAN : WithInitdbNoSync(enabled) \/ WithCleanupOnStart(enabled)
    \/ \E setting \in Settings : Start(setting)

Spec == Init /\ [][Next]_vars

-----------------------------------------------------------------------------
TypeOK ==
    /\ config = Unset \/ config \in [budget : 1..MaxU32 \cup {Unset},
                                     perDatabase : 1..MaxU32 \cup {Unset},
                                     operation : Durations \cup {DefaultTimeout},
                                     startup : Durations \cup {DefaultTimeout},
                                     wait : Durations \cup {DefaultTimeout},
                                     noSync : BOOLEAN, tmpfs : Nat \cup {Unset},
                                     stale : Durations \cup {DefaultTimeout},
                                     cleanupOnStart : BOOLEAN,
                                     image : Images \cup {Unset}, url : Urls \cup {Unset}]
    /\ environment \in [url : Urls \cup {Unset}, image : Images \cup {Unset}]
    /\ calls \in 0..MaxCalls

Started == server # Unset /\ server.mode \in {"external", "owned"}

\* docs/operations.md: L = floor(B / P) leases whose permits fit the budget,
\* at least one of them, whatever order of setters and defaults led to B and P;
\* a default never makes them contradict: limits are refused only where the
\* caller's own share is larger than the budget.
LeasesFitBudget ==
    server # Unset =>
        IF Started
        THEN /\ server.leases >= 1
             /\ server.leases * PerDatabase(config) <= Budget(config)
             /\ Budget(config) < (server.leases + 1) * PerDatabase(config)
        ELSE server.mode = "invalid limits" =>
                 config.perDatabase # Unset /\ config.perDatabase > Budget(config)

\* docs/operations.md: A = max(1, min(L, floor(R / 4))), where R is what
\* max_connections leaves after both reservations; a pool of several sessions
\* keeps at least half of them from the cleanup workers, and the lifecycle
\* sessions of one harness leave three quarters of a usable server alone.
SessionsLeaveHeadroom ==
    Started =>
        /\ server.pool \in 1..server.leases
        /\ server.slots >= 4 => 4 * server.pool <= server.slots
        /\ server.pool < server.leases => server.pool >= (server.slots \div 4)
        /\ server.workers \in 1..4 /\ server.workers <= server.pool
        /\ server.pool >= 2 => 2 * (server.pool - server.workers) >= server.pool

\* The deadlines the setters let through work on the server: PostgreSQL reads
\* a setting of 0 as "no timeout" and refuses one above i32::MAX, a lock wait
\* ends no later than its statement, and the client outlasts both.
TimeoutsEffective ==
    Started => /\ StatementTimeout(config) \in 1..MaxI32
               /\ LockTimeoutSetting(config) \in 1..StatementTimeout(config)
               /\ WaitTimeoutSetting(config) \in 1..MaxI32
               /\ PerMilli * StatementTimeout(config) < ClientTimeout(config.operation)
               /\ PerMilli * WaitTimeoutSetting(config) < ClientTimeout(config.wait)
               /\ Millis(config.startup) >= 1 /\ config.startup <= EngineTimeout(config)

\* The size of a tmpfs mount is the one asked for: the setter keeps it where
\* the cast to the engine's i64 preserves it.
TmpfsSizePreserved == Started => server.tmpfs = config.tmpfs

\* The repository and the tag into which an image is split name that image
\* when the engine joins them again; only a missing tag is added, and the port
\* of a registry is not taken for one.
ImageSurvivesParsing ==
    Started /\ server.mode = "owned" =>
        LET source == IF config.image # Unset THEN config.image
                      ELSE IF environment.image # Unset THEN environment.image ELSE DefaultImage
            parsed == ResolvedImage(config)
            joined == parsed.repository \o <<":">> \o parsed.tag
        IN  /\ \/ joined = source
               \/ \E i \in 0..Len(source) :
                     joined = SubSeq(source, 1, i) \o <<":", "latest">>
                              \o SubSeq(source, i + 1, Len(source))
            /\ "/" \notin Range(SplitDigest(parsed.tag).name)
\* What the builder and the server's settings are turned into fits both.
SizesFit == TypeOK /\ LeasesFitBudget /\ SessionsLeaveHeadroom

\* What a caller configured is what the server and the engine are told,
\* through every narrowing cast, rounding and split.
ConfigurationPreserved ==
    TimeoutsEffective /\ TmpfsSizePreserved /\ ImageSurvivesParsing

=============================================================================
