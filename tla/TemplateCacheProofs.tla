------------------------- MODULE TemplateCacheProofs -------------------------
(***************************************************************************)
(* Proofs about TemplateCache for any finite sets of callers and           *)
(* fingerprints and at least as many allocations as callers.               *)
(***************************************************************************)
EXTENDS TemplateCache, FiniteSetTheorems, TLAPS

(***************************************************************************)
(* The inductive invariant.  It says what the weak entries, the published  *)
(* flights and the callers know of each other.                             *)
(***************************************************************************)

\* A caller has a fingerprint from the beginning of its call to the end, and
\* callers that refer to one flight want the same fingerprint.
Wanted ==
    /\ \A c \in Caller : want[c] \in Fingerprint <=> pc[c] # "idle"
    /\ \A c, d \in Caller :
          flight[c] = flight[d] /\ flight[c] # NoFlight => want[c] = want[d]

Initializer == {"initialize", "abandon"}

\* A flight has one initializer, and publishes only when that one succeeds.
OneInitializer ==
    /\ \A c, d \in Caller :
          pc[c] \in Initializer /\ pc[d] \in Initializer /\ flight[c] = flight[d] => c = d
    /\ \A c \in Caller : pc[c] \in Initializer => flight[c] \notin published
    /\ \A c \in Caller : pc[c] = "initialize" => OwnsEntry(c)

\* A flight in the cache is somebody's, and a ready one is published.
EntriesBacked ==
    /\ \A f \in Fingerprint, n \in Flight : entries[f] = Initializing(n) =>
          \E c \in Caller : pc[c] = "initialize" /\ want[c] = f /\ flight[c] = n
    /\ \A f \in Fingerprint, n \in Flight : entries[f] = Ready(n) =>
          n \in published /\ \E c \in Caller : want[c] = f /\ flight[c] = n

\* Whoever refers to a template finds it in the cache, and no trace is left of
\* flights that nobody refers to.
PublishedCached ==
    /\ \A c \in Caller : pc[c] \in {"complete", "holding"} => flight[c] \in published
    /\ \A c \in Caller : flight[c] \in published => entries[want[c]] = Ready(flight[c])
    /\ \A n \in published \cup completed : n \in Flight /\ \E c \in Caller : flight[c] = n

CacheInv == TypeOK /\ Wanted /\ OneInitializer /\ EntriesBacked /\ PublishedCached

-----------------------------------------------------------------------------
\* The three kinds of entries are told apart by their tags.
LEMMA EntryKinds ==
    /\ None.tag = "none"
    /\ \A n : /\ Initializing(n).tag = "initializing" /\ Initializing(n).flight = n
              /\ Ready(n).tag = "ready" /\ Ready(n).flight = n
BY DEF None, Initializing, Ready

LEMMA EntriesDiffer ==
    \A m, n : /\ Initializing(m) # Ready(n) /\ None # Initializing(n) /\ None # Ready(n)
              /\ Initializing(m) = Initializing(n) => m = n
              /\ Ready(m) = Ready(n) => m = n
BY EntryKinds

LEMMA EntryCases ==
    ASSUME NEW e \in TemplateCacheEntry
    PROVE  \/ e = None
           \/ \E n \in Flight : e = Initializing(n)
           \/ \E n \in Flight \cup {NoFlight} : e = Ready(n)
BY DEF TemplateCacheEntry

\* The flights of the callers other than c.
Others(c) == {flight[d] : d \in Caller \ {c}}

\* There is always an allocation for a caller that begins a flight: the other
\* callers refer to fewer allocations than there are, and the cache refers to
\* none that they do not.
LEMMA NewFlightExists ==
    ASSUME CacheInv, NEW c \in Caller, pc[c] = "lookup"
    PROVE  /\ NewFlight \in Flight
           /\ \A f \in Fingerprint : entries[f] \notin {Initializing(NewFlight), Ready(NewFlight)}
           /\ \A d \in Caller : flight[d] # NewFlight
<1>1. IsFiniteSet(Caller \ {c}) /\ Cardinality(Caller \ {c}) = Cardinality(Caller) - 1
  BY FS_RemoveElement, CacheAssumption
<1>2. IsFiniteSet(Others(c)) /\ Cardinality(Others(c)) <= Cardinality(Caller \ {c})
  <2> DEFINE g == [d \in Caller \ {c} |-> flight[d]]
  <2>1. g \in Surjection(Caller \ {c}, Others(c))
    BY DEF Surjection, Others
  <2> QED
    BY <1>1, <2>1, FS_Surjection
<1>3. Cardinality(Others(c)) < Cardinality(Flight)
  <2>1. /\ Cardinality(Caller) \in Nat /\ Cardinality(Flight) \in Nat
        /\ Cardinality(Others(c)) \in Nat
    BY <1>2, CacheAssumption, FS_CardinalityType
  <2> QED
    BY <1>1, <1>2, <2>1, CacheAssumption
<1>4. ~(Flight \subseteq Others(c))
  <2>1. Cardinality(Others(c)) \in Nat /\ Cardinality(Flight) \in Nat
    BY <1>2, CacheAssumption, FS_CardinalityType
  <2>2. Flight \subseteq Others(c) => Cardinality(Flight) <= Cardinality(Others(c))
    BY <1>2, FS_Subset
  <2> QED
    BY <1>3, <2>1, <2>2
<1>5. PICK n \in Flight : n \notin Others(c)
  BY <1>4
<1>6. \A d \in Caller : flight[d] # n
  BY <1>5, CacheAssumption DEF Others, CacheInv, TypeOK
<1>7. \A f \in Fingerprint : entries[f] \notin {Initializing(n), Ready(n)}
  BY <1>6 DEF CacheInv, EntriesBacked
<1> QED
  BY <1>6, <1>7 DEF NewFlight

\* Strong references are to published flights, and the entry shows them.
LEMMA StrongIsPublished ==
    ASSUME CacheInv, NEW n, Strong(n)
    PROVE  n \in published /\ \E c \in Caller : flight[c] = n /\ entries[want[c]] = Ready(n)
BY DEF CacheInv, PublishedCached, Strong

\* Conversely, a published flight of a caller is strong.
LEMMA PublishedIsStrong ==
    ASSUME CacheInv, NEW c \in Caller, flight[c] \in published
    PROVE  Strong(flight[c])
<1>1. flight[c] # NoFlight
  BY CacheAssumption DEF CacheInv, PublishedCached
<1>2. pc[c] \in {"complete", "holding", "wait"}
  BY <1>1 DEF CacheInv, TypeOK, CallerState, OneInitializer, Initializer
<1> QED
  BY <1>2 DEF Strong

-----------------------------------------------------------------------------
LEMMA BeginStep ==
    ASSUME CacheInv, NEW c \in Caller, NEW f \in Fingerprint, BeginTemplate(c, f)
    PROVE  CacheInv'
<1>1. /\ UNCHANGED <<entries, published, completed, flight>> /\ pc[c] = "idle"
      /\ pc' = [pc EXCEPT ![c] = "lookup"] /\ want' = [want EXCEPT ![c] = f]
      /\ flight[c] = NoFlight
  BY DEF BeginTemplate, Go, cacheVars, CacheInv, TypeOK
<1>2. TypeOK'
  BY <1>1 DEF CacheInv, TypeOK, CallerState
<1>3. Wanted' /\ OneInitializer' /\ EntriesBacked' /\ PublishedCached'
  BY <1>1, CacheAssumption DEF CacheInv, TypeOK, Wanted, OneInitializer, Initializer, OwnsEntry,
         EntriesBacked, PublishedCached
<1> QED
  BY <1>2, <1>3 DEF CacheInv

\* A caller that refers to no flight backs no entry, so whatever it joins
\* leaves the entries backed.
LEMMA JoinKeepsBacked ==
    ASSUME CacheInv, NEW c \in Caller, flight[c] = NoFlight, pc[c] # "initialize",
           UNCHANGED <<entries, published, want>>,
           \A d \in Caller \ {c} : pc'[d] = pc[d] /\ flight'[d] = flight[d]
    PROVE  EntriesBacked'
<1>1. ASSUME NEW f \in Fingerprint, NEW m \in Flight, entries'[f] = Initializing(m)
      PROVE  \E d \in Caller : pc'[d] = "initialize" /\ want'[d] = f /\ flight'[d] = m
  BY <1>1 DEF CacheInv, EntriesBacked
<1>2. ASSUME NEW f \in Fingerprint, NEW m \in Flight, entries'[f] = Ready(m)
      PROVE  m \in published' /\ \E d \in Caller : want'[d] = f /\ flight'[d] = m
  <2>1. PICK d \in Caller : m \in published /\ want[d] = f /\ flight[d] = m
    BY <1>2 DEF CacheInv, EntriesBacked
  <2>2. d # c
    BY <2>1, CacheAssumption
  <2> QED
    BY <2>1, <2>2
<1> QED
  BY <1>1, <1>2 DEF EntriesBacked

LEMMA LookupReadyStep ==
    ASSUME CacheInv, NEW c \in Caller, LookupReady(c)
    PROVE  CacheInv'
<1> DEFINE n == entries[want[c]].flight
<1>1. /\ UNCHANGED <<entries, published, completed, want>> /\ pc[c] = "lookup"
      /\ pc' = [pc EXCEPT ![c] = "holding"] /\ flight' = [flight EXCEPT ![c] = n]
      /\ Strong(n) /\ entries[want[c]].tag = "ready"
  BY DEF LookupReady, Go, cacheVars
<1>2. want[c] \in Fingerprint
  BY <1>1 DEF CacheInv, Wanted
<1>3. entries[want[c]] = Ready(n)
  <2>1. entries[want[c]] \in TemplateCacheEntry
    BY <1>2 DEF CacheInv, TypeOK
  <2> QED
    BY <1>1, <2>1, EntryCases, EntryKinds
<1> HIDE DEF n
<1>4. n \in published /\ n \in Flight /\ n # NoFlight
  BY <1>1, StrongIsPublished, CacheAssumption DEF CacheInv, TypeOK
<1>5. \A d \in Caller : flight[d] = n => want[d] = want[c]
  <2>1. PICK e \in Caller : want[e] = want[c] /\ flight[e] = n
    BY <1>2, <1>3, <1>4 DEF CacheInv, EntriesBacked
  <2> QED
    BY <1>4, <2>1 DEF CacheInv, Wanted
<1>6. TypeOK'
  BY <1>1, <1>4 DEF CacheInv, TypeOK, CallerState
<1>7. Wanted'
  BY <1>1, <1>5 DEF CacheInv, TypeOK, Wanted
<1>8. OneInitializer'
  BY <1>1, <1>4 DEF CacheInv, TypeOK, OneInitializer, Initializer, OwnsEntry
<1>9. EntriesBacked'
  BY <1>1, JoinKeepsBacked DEF CacheInv, TypeOK
<1>10. PublishedCached'
  BY <1>1, <1>3, <1>4, CacheAssumption DEF CacheInv, TypeOK, PublishedCached
<1> QED
  BY <1>6, <1>7, <1>8, <1>9, <1>10 DEF CacheInv

LEMMA LookupWaitStep ==
    ASSUME CacheInv, NEW c \in Caller, LookupWait(c)
    PROVE  CacheInv'
<1> DEFINE n == entries[want[c]].flight
<1>1. /\ UNCHANGED <<entries, published, completed, want>> /\ pc[c] = "lookup"
      /\ pc' = [pc EXCEPT ![c] = "wait"] /\ flight' = [flight EXCEPT ![c] = n]
      /\ entries[want[c]].tag = "initializing"
  BY DEF LookupWait, Joinable, Go, cacheVars
<1>2. want[c] \in Fingerprint
  BY <1>1 DEF CacheInv, Wanted
<1>3. entries[want[c]] = Initializing(n) /\ n \in Flight
  <2>1. entries[want[c]] \in TemplateCacheEntry
    BY <1>2 DEF CacheInv, TypeOK
  <2> QED
    BY <1>1, <2>1, EntryCases, EntryKinds
<1> HIDE DEF n
<1>4. PICK e \in Caller : pc[e] = "initialize" /\ want[e] = want[c] /\ flight[e] = n
  BY <1>2, <1>3 DEF CacheInv, EntriesBacked
<1>5. n \notin published /\ n # NoFlight
  BY <1>3, <1>4, CacheAssumption DEF CacheInv, OneInitializer, Initializer
<1>6. TypeOK'
  BY <1>1, <1>3, <1>5 DEF CacheInv, TypeOK, CallerState
<1>7. Wanted'
  BY <1>1, <1>4, <1>5 DEF CacheInv, TypeOK, Wanted
<1>8. OneInitializer'
  BY <1>1 DEF CacheInv, TypeOK, OneInitializer, Initializer, OwnsEntry
<1>9. EntriesBacked'
  BY <1>1, JoinKeepsBacked DEF CacheInv, TypeOK
<1>10. PublishedCached'
  BY <1>1, <1>5, CacheAssumption DEF CacheInv, TypeOK, PublishedCached
<1> QED
  BY <1>6, <1>7, <1>8, <1>9, <1>10 DEF CacheInv

LEMMA LookupInitializeStep ==
    ASSUME CacheInv, NEW c \in Caller, LookupInitialize(c)
    PROVE  /\ CacheInv'
           /\ \A f \in Fingerprint : entries'[f] # None => \E d \in Caller : want'[d] = f
<1> DEFINE n == NewFlight
<1>1. /\ UNCHANGED <<published, completed, want>> /\ pc[c] = "lookup"
      /\ pc' = [pc EXCEPT ![c] = "initialize"] /\ flight' = [flight EXCEPT ![c] = n]
      /\ entries' = [f \in Fingerprint |->
                        IF f = want[c] THEN Initializing(n)
                        ELSE IF Expired(entries[f]) THEN None ELSE entries[f]]
      /\ entries[want[c]].tag # "initializing"
      /\ ~(entries[want[c]].tag = "ready" /\ Strong(entries[want[c]].flight))
  BY DEF LookupInitialize, Joinable, Go
<1>2. /\ n \in Flight /\ n # NoFlight /\ \A d \in Caller : flight[d] # n
      /\ \A f \in Fingerprint : entries[f] # Initializing(n) /\ entries[f] # Ready(n)
  BY <1>1, NewFlightExists, CacheAssumption
<1> HIDE DEF n
<1>3. want[c] \in Fingerprint /\ flight[c] = NoFlight
  BY <1>1 DEF CacheInv, Wanted, TypeOK
<1>4. n \notin published
  BY <1>2 DEF CacheInv, PublishedCached
<1>5. ASSUME NEW d \in Caller, flight[d] \in published
      PROVE  want[d] \in Fingerprint /\ want[d] # want[c] /\ entries'[want[d]] = Ready(flight[d])
  <2>1. entries[want[d]] = Ready(flight[d]) /\ Strong(flight[d]) /\ flight[d] # NoFlight
    BY <1>5, PublishedIsStrong, CacheAssumption DEF CacheInv, PublishedCached
  <2>2. want[d] \in Fingerprint
    BY <2>1 DEF CacheInv, Wanted, TypeOK
  <2>3. want[d] # want[c] /\ ~Expired(entries[want[d]])
    BY <1>1, <2>1, EntryKinds DEF Expired
  <2> QED
    BY <1>1, <2>1, <2>2, <2>3
<1>6. ASSUME NEW d \in Caller, pc[d] = "initialize"
      PROVE  want[d] \in Fingerprint /\ want[d] # want[c] /\ entries'[want[d]] = Initializing(flight[d])
  <2>1. entries[want[d]] = Initializing(flight[d]) /\ want[d] \in Fingerprint
    BY <1>6 DEF CacheInv, OneInitializer, OwnsEntry, Wanted
  <2>2. want[d] # want[c] /\ ~Expired(entries[want[d]])
    BY <1>1, <2>1, EntryKinds DEF Expired
  <2> QED
    BY <1>1, <2>1, <2>2
<1>7. TypeOK'
  <2>1. entries' \in [Fingerprint -> TemplateCacheEntry]
    BY <1>1, <1>2 DEF CacheInv, TypeOK, TemplateCacheEntry
  <2> QED
    BY <1>1, <1>2, <2>1 DEF CacheInv, TypeOK, CallerState
<1>8. Wanted'
  BY <1>1, <1>2 DEF CacheInv, TypeOK, Wanted
<1>9. OneInitializer'
  <2>1. \A d \in Caller : pc'[d] = "initialize" => OwnsEntry(d)'
    BY <1>1, <1>3, <1>6 DEF CacheInv, TypeOK, OwnsEntry
  <2> QED
    BY <1>1, <1>2, <1>4, <2>1 DEF CacheInv, TypeOK, OneInitializer, Initializer
<1>10. EntriesBacked'
  <2>1. ASSUME NEW f \in Fingerprint, NEW m \in Flight, entries'[f] = Initializing(m)
        PROVE  \E d \in Caller : pc'[d] = "initialize" /\ want'[d] = f /\ flight'[d] = m
    <3>1. CASE f = want[c]
      BY <1>1, <1>3, <2>1, <3>1, EntriesDiffer DEF CacheInv, TypeOK
    <3>2. CASE f # want[c]
      <4>1. entries[f] = Initializing(m)
        BY <1>1, <2>1, <3>2, EntriesDiffer
      <4> QED
        BY <1>1, <4>1 DEF CacheInv, TypeOK, EntriesBacked
    <3> QED
      BY <3>1, <3>2
  <2>2. ASSUME NEW f \in Fingerprint, NEW m \in Flight, entries'[f] = Ready(m)
        PROVE  m \in published' /\ \E d \in Caller : want'[d] = f /\ flight'[d] = m
    <3>1. entries[f] = Ready(m)
      BY <1>1, <2>2, EntriesDiffer
    <3>2. PICK d \in Caller : m \in published /\ want[d] = f /\ flight[d] = m
      BY <3>1 DEF CacheInv, EntriesBacked
    <3>3. d # c
      BY <1>3, <3>2, CacheAssumption
    <3> QED
      BY <1>1, <3>2, <3>3 DEF CacheInv, TypeOK
  <2> QED
    BY <2>1, <2>2 DEF EntriesBacked
<1>11. PublishedCached'
  BY <1>1, <1>3, <1>4, <1>5, CacheAssumption DEF CacheInv, TypeOK, PublishedCached
<1>12. ASSUME NEW f \in Fingerprint, entries'[f] # None
       PROVE  \E d \in Caller : want'[d] = f
  <2>1. CASE f = want[c]
    BY <1>1, <2>1
  <2>2. CASE f # want[c]
    <3>1. entries[f] # None /\ ~Expired(entries[f]) /\ entries[f] \in TemplateCacheEntry
      BY <1>1, <1>12, <2>2 DEF CacheInv, TypeOK
    <3>2. CASE \E m \in Flight : entries[f] = Initializing(m)
      BY <1>1, <3>2 DEF CacheInv, EntriesBacked
    <3>3. CASE \E m \in Flight \cup {NoFlight} : entries[f] = Ready(m)
      <4>1. PICK m \in Flight \cup {NoFlight} : entries[f] = Ready(m)
        BY <3>3
      <4>2. Strong(m)
        BY <3>1, <4>1, EntryKinds DEF Expired
      <4>3. m \in Flight
        BY <4>2, StrongIsPublished DEF CacheInv, TypeOK
      <4> QED
        BY <1>1, <4>1, <4>3 DEF CacheInv, EntriesBacked
    <3> QED
      BY <3>1, <3>2, <3>3, EntryCases
  <2> QED
    BY <2>1, <2>2
<1> QED
  BY <1>7, <1>8, <1>9, <1>10, <1>11, <1>12 DEF CacheInv

LEMMA InstallStep ==
    ASSUME CacheInv, NEW c \in Caller, InstallTemplate(c)
    PROVE  CacheInv'
<1> DEFINE n == flight[c]
           f == want[c]
<1>1. OwnsEntry(c) /\ n \notin published /\ f \in Fingerprint /\ n \in Flight /\ n # NoFlight
  BY CacheAssumption
  DEF InstallTemplate, CacheInv, TypeOK, Wanted, OneInitializer, Initializer
<1>2. /\ UNCHANGED <<completed, want, flight>> /\ pc[c] = "initialize"
      /\ pc' = [pc EXCEPT ![c] = "complete"] /\ published' = published \cup {n}
      /\ entries' = [entries EXCEPT ![f] = Ready(n)] /\ entries[f] = Initializing(n)
  BY <1>1 DEF InstallTemplate, Publish, Go, OwnsEntry
<1>3. ASSUME NEW d \in Caller, pc[d] = "initialize", d # c
      PROVE  want[d] # f
  BY <1>2, <1>3, EntriesDiffer DEF CacheInv, OneInitializer, OwnsEntry, Initializer
<1>4. ASSUME NEW d \in Caller, flight[d] \in published
      PROVE  want[d] # f
  BY <1>2, <1>4, EntriesDiffer DEF CacheInv, PublishedCached
<1>5. \A d \in Caller : flight[d] = n => want[d] = f
  BY <1>1 DEF CacheInv, Wanted
<1>6. Ready(n) \in TemplateCacheEntry
  BY <1>1 DEF TemplateCacheEntry
<1> HIDE DEF n, f
<1>7. TypeOK'
  BY <1>1, <1>2, <1>6 DEF CacheInv, TypeOK, CallerState
<1>8. Wanted'
  BY <1>2 DEF CacheInv, TypeOK, Wanted
<1>9. OneInitializer'
  <2>1. \A d \in Caller : pc'[d] \in Initializer => pc[d] \in Initializer /\ d # c
    BY <1>2 DEF CacheInv, TypeOK, Initializer
  <2>2. \A d \in Caller : pc'[d] \in Initializer => flight'[d] \notin published'
    BY <1>2, <2>1 DEF CacheInv, OneInitializer, Initializer, n
  <2>3. \A d \in Caller : pc'[d] = "initialize" => OwnsEntry(d)'
    BY <1>1, <1>2, <1>3 DEF CacheInv, TypeOK, OneInitializer, OwnsEntry, Wanted
  <2> QED
    BY <1>2, <2>1, <2>2, <2>3 DEF CacheInv, OneInitializer
<1>10. EntriesBacked'
  <2>1. ASSUME NEW g \in Fingerprint, NEW m \in Flight, entries'[g] = Initializing(m)
        PROVE  \E d \in Caller : pc'[d] = "initialize" /\ want'[d] = g /\ flight'[d] = m
    <3>1. g # f /\ entries[g] = Initializing(m)
      BY <1>1, <1>2, <2>1, EntriesDiffer DEF CacheInv, TypeOK
    <3>2. PICK d \in Caller : pc[d] = "initialize" /\ want[d] = g /\ flight[d] = m
      BY <3>1 DEF CacheInv, EntriesBacked
    <3> QED
      BY <1>2, <3>1, <3>2 DEF CacheInv, TypeOK, f
  <2>2. ASSUME NEW g \in Fingerprint, NEW m \in Flight, entries'[g] = Ready(m)
        PROVE  m \in published' /\ \E d \in Caller : want'[d] = g /\ flight'[d] = m
    <3>1. CASE g = f
      BY <1>1, <1>2, <2>2, <3>1, EntriesDiffer DEF CacheInv, TypeOK, n, f
    <3>2. CASE g # f
      BY <1>2, <2>2, <3>2 DEF CacheInv, TypeOK, EntriesBacked
    <3> QED
      BY <3>1, <3>2
  <2> QED
    BY <2>1, <2>2 DEF EntriesBacked
<1>11. PublishedCached'
  <2>1. \A d \in Caller : pc'[d] \in {"complete", "holding"} => flight'[d] \in published'
    BY <1>2 DEF CacheInv, TypeOK, PublishedCached, n
  <2>2. ASSUME NEW d \in Caller, flight'[d] \in published'
        PROVE  entries'[want'[d]] = Ready(flight'[d])
    <3>1. CASE flight[d] = n
      BY <1>1, <1>2, <1>5, <3>1 DEF CacheInv, TypeOK
    <3>2. CASE flight[d] # n
      <4>1. flight[d] \in published /\ entries[want[d]] = Ready(flight[d])
        BY <1>2, <2>2, <3>2 DEF CacheInv, PublishedCached
      <4>2. want[d] \in Fingerprint /\ want[d] # f
        BY <1>4, <4>1, CacheAssumption DEF CacheInv, TypeOK, Wanted
      <4> QED
        BY <1>2, <4>1, <4>2 DEF CacheInv, TypeOK
    <3> QED
      BY <3>1, <3>2
  <2>3. \A m \in published' \cup completed' : m \in Flight /\ \E d \in Caller : flight'[d] = m
    BY <1>1, <1>2 DEF CacheInv, PublishedCached, n
  <2> QED
    BY <2>1, <2>2, <2>3 DEF PublishedCached
<1> QED
  BY <1>7, <1>8, <1>9, <1>10, <1>11 DEF CacheInv

LEMMA AbandonStep ==
    ASSUME CacheInv, NEW c \in Caller, AbandonFlight(c)
    PROVE  CacheInv'
<1> DEFINE f == want[c]
<1>1. OwnsEntry(c) /\ f \in Fingerprint
  BY DEF AbandonFlight, CacheInv, TypeOK, Wanted, OneInitializer
<1>2. /\ UNCHANGED <<completed, published, want, flight>> /\ pc[c] = "initialize"
      /\ pc' = [pc EXCEPT ![c] = "abandon"]
      /\ entries' = [entries EXCEPT ![f] = None] /\ entries[f] = Initializing(flight[c])
  BY <1>1 DEF AbandonFlight, AfterAbandon, Go, OwnsEntry
<1>3. ASSUME NEW d \in Caller, pc[d] = "initialize", d # c
      PROVE  want[d] # f
  BY <1>2, <1>3, EntriesDiffer DEF CacheInv, OneInitializer, OwnsEntry, Initializer
<1>4. ASSUME NEW d \in Caller, flight[d] \in published
      PROVE  want[d] # f
  BY <1>2, <1>4, EntriesDiffer DEF CacheInv, PublishedCached
<1> HIDE DEF f
<1>5. TypeOK'
  BY <1>1, <1>2 DEF CacheInv, TypeOK, CallerState, TemplateCacheEntry
<1>6. Wanted'
  BY <1>2 DEF CacheInv, TypeOK, Wanted
<1>7. OneInitializer'
  <2>1. \A d \in Caller : pc'[d] \in Initializer <=> pc[d] \in Initializer
    BY <1>2 DEF CacheInv, TypeOK, Initializer
  <2>2. \A d \in Caller : pc'[d] = "initialize" => OwnsEntry(d)'
    BY <1>1, <1>2, <1>3 DEF CacheInv, TypeOK, OneInitializer, OwnsEntry, Wanted
  <2> QED
    BY <1>2, <2>1, <2>2 DEF CacheInv, OneInitializer
<1>8. EntriesBacked'
  <2>1. \A g \in Fingerprint : entries'[g] # None => g # f /\ entries'[g] = entries[g]
    BY <1>1, <1>2 DEF CacheInv, TypeOK
  <2>2. ASSUME NEW g \in Fingerprint, NEW m \in Flight, entries'[g] = Initializing(m)
        PROVE  \E d \in Caller : pc'[d] = "initialize" /\ want'[d] = g /\ flight'[d] = m
    BY <1>2, <2>1, <2>2, EntriesDiffer DEF CacheInv, TypeOK, EntriesBacked, f
  <2>3. ASSUME NEW g \in Fingerprint, NEW m \in Flight, entries'[g] = Ready(m)
        PROVE  m \in published' /\ \E d \in Caller : want'[d] = g /\ flight'[d] = m
    BY <1>2, <2>1, <2>3, EntriesDiffer DEF CacheInv, EntriesBacked
  <2> QED
    BY <2>2, <2>3 DEF EntriesBacked
<1>9. PublishedCached'
  <2>1. \A d \in Caller : flight[d] \in published => want[d] \in Fingerprint
    BY CacheAssumption DEF CacheInv, TypeOK, Wanted
  <2> QED
    BY <1>1, <1>2, <1>4, <2>1 DEF CacheInv, TypeOK, PublishedCached
<1> QED
  BY <1>5, <1>6, <1>7, <1>8, <1>9 DEF CacheInv

\* What a caller frees is what nobody else refers to.
LEMMA FreedAlone ==
    \A c \in Caller : \A m :
        m \in Freed(c) <=> m = flight[c] /\ \A d \in Caller \ {c} : flight[d] # m
BY DEF Freed

\* A caller may let go of a flight that published nothing: no entry is ready
\* with it, and whoever is left on it keeps it.
LEMMA ReleaseKeepsBacked ==
    ASSUME CacheInv, NEW c \in Caller, flight[c] \notin published, pc[c] # "initialize",
           UNCHANGED <<entries, published>>,
           completed' \subseteq (completed \cup {flight[c]}) \ Freed(c),
           pc'[c] \in {"idle", "lookup"}, flight'[c] = NoFlight,
           flight[c] \in Flight,
           \A d \in Caller \ {c} : pc'[d] = pc[d] /\ flight'[d] = flight[d] /\ want'[d] = want[d]
    PROVE  EntriesBacked' /\ PublishedCached'
<1>1. ASSUME NEW f \in Fingerprint, NEW m \in Flight, entries'[f] = Initializing(m)
      PROVE  \E d \in Caller : pc'[d] = "initialize" /\ want'[d] = f /\ flight'[d] = m
  BY <1>1 DEF CacheInv, EntriesBacked
<1>2. ASSUME NEW f \in Fingerprint, NEW m \in Flight, entries'[f] = Ready(m)
      PROVE  m \in published' /\ \E d \in Caller : want'[d] = f /\ flight'[d] = m
  BY <1>2 DEF CacheInv, EntriesBacked
<1>3. \A d \in Caller : pc'[d] \in {"complete", "holding"} => flight'[d] \in published'
  BY DEF CacheInv, PublishedCached
<1>4. \A d \in Caller : flight'[d] \in published' => entries'[want'[d]] = Ready(flight'[d])
  BY CacheAssumption DEF CacheInv, TypeOK, PublishedCached
<1>5. \A m \in published' : m \in Flight /\ \E d \in Caller : flight'[d] = m
  BY DEF CacheInv, PublishedCached
<1>6. ASSUME NEW m \in completed'
      PROVE  m \in Flight /\ \E d \in Caller : flight'[d] = m
  <2>1. CASE m = flight[c]
    BY <1>6, <2>1, FreedAlone
  <2>2. CASE m # flight[c]
    BY <1>6, <2>2 DEF CacheInv, PublishedCached
  <2> QED
    BY <2>1, <2>2
<1> QED
  BY <1>1, <1>2, <1>3, <1>4, <1>5, <1>6 DEF EntriesBacked, PublishedCached

LEMMA CompleteStep ==
    ASSUME CacheInv, NEW c \in Caller, CompleteFlight(c)
    PROVE  CacheInv'
<1>1. CASE pc[c] = "complete"
  <2>1. /\ UNCHANGED <<entries, published, want, flight>>
        /\ completed' = completed \cup {flight[c]} /\ pc' = [pc EXCEPT ![c] = "holding"]
    BY <1>1 DEF CompleteFlight, Go
  <2>2. flight[c] \in Flight
    BY <1>1 DEF CacheInv, TypeOK, PublishedCached
  <2>3. TypeOK'
    BY <1>1, <2>1, <2>2 DEF CacheInv, TypeOK, CallerState
  <2>4. Wanted' /\ OneInitializer'
    BY <1>1, <2>1 DEF CacheInv, TypeOK, Wanted, OneInitializer, Initializer, OwnsEntry
  <2>5. EntriesBacked'
    BY <1>1, <2>1 DEF CacheInv, TypeOK, EntriesBacked
  <2>6. PublishedCached'
    BY <1>1, <2>1, <2>2 DEF CacheInv, TypeOK, PublishedCached
  <2> QED
    BY <2>3, <2>4, <2>5, <2>6 DEF CacheInv
<1>2. CASE pc[c] = "abandon"
  <2>1. /\ UNCHANGED <<entries, published>>
        /\ completed' = (completed \cup {flight[c]}) \ Freed(c)
        /\ pc' = [pc EXCEPT ![c] = "idle"] /\ want' = [want EXCEPT ![c] = NoFingerprint]
        /\ flight' = [flight EXCEPT ![c] = NoFlight]
    BY <1>2 DEF CompleteFlight, Go, Leave
  <2>2. flight[c] \in Flight /\ flight[c] \notin published
    BY <1>2 DEF CacheInv, TypeOK, OneInitializer, Initializer
  <2>3. TypeOK'
    BY <2>1, <2>2 DEF CacheInv, TypeOK, CallerState
  <2>4. Wanted'
    BY <2>1, CacheAssumption DEF CacheInv, TypeOK, Wanted
  <2>5. OneInitializer'
    BY <2>1 DEF CacheInv, TypeOK, OneInitializer, Initializer, OwnsEntry
  <2>6. EntriesBacked' /\ PublishedCached'
    BY <1>2, <2>1, <2>2, ReleaseKeepsBacked DEF CacheInv, TypeOK
  <2> QED
    BY <2>3, <2>4, <2>5, <2>6 DEF CacheInv
<1> QED
  BY <1>1, <1>2 DEF CompleteFlight

LEMMA FinishWaitStep ==
    ASSUME CacheInv, NEW c \in Caller, FinishWait(c)
    PROVE  CacheInv'
<1>1. UNCHANGED <<entries, published, want>> /\ pc[c] = "wait" /\ flight[c] \in Flight
  BY DEF FinishWait, CacheInv, TypeOK
<1>2. CASE flight[c] \in published
  <2>1. UNCHANGED <<completed, flight>> /\ pc' = [pc EXCEPT ![c] = "holding"]
    BY <1>2 DEF FinishWait, Go
  <2>2. TypeOK'
    BY <1>1, <2>1 DEF CacheInv, TypeOK, CallerState
  <2>3. Wanted' /\ OneInitializer'
    BY <1>1, <2>1 DEF CacheInv, TypeOK, Wanted, OneInitializer, Initializer, OwnsEntry
  <2>4. EntriesBacked' /\ PublishedCached'
    BY <1>1, <1>2, <2>1 DEF CacheInv, TypeOK, EntriesBacked, PublishedCached
  <2> QED
    BY <2>2, <2>3, <2>4 DEF CacheInv
<1>3. CASE flight[c] \notin published
  <2>1. /\ completed' = completed \ Freed(c) /\ pc' = [pc EXCEPT ![c] = "lookup"]
        /\ flight' = [flight EXCEPT ![c] = NoFlight]
    BY <1>3 DEF FinishWait, Go
  <2>2. TypeOK'
    BY <1>1, <2>1 DEF CacheInv, TypeOK, CallerState
  <2>3. Wanted' /\ OneInitializer'
    BY <1>1, <2>1 DEF CacheInv, TypeOK, Wanted, OneInitializer, Initializer, OwnsEntry
  <2>4. EntriesBacked' /\ PublishedCached'
    BY <1>1, <1>3, <2>1, ReleaseKeepsBacked DEF CacheInv, TypeOK
  <2> QED
    BY <2>2, <2>3, <2>4 DEF CacheInv
<1> QED
  BY <1>2, <1>3

LEMMA DropStep ==
    ASSUME CacheInv, NEW c \in Caller, DropReference(c)
    PROVE  CacheInv'
<1>1. /\ published' = published \ Freed(c) /\ completed' = completed \ Freed(c)
      /\ entries' = [f \in Fingerprint |->
                        IF \E n \in Freed(c) : entries[f] = Ready(n)
                        THEN Ready(NoFlight) ELSE entries[f]]
      /\ pc' = [pc EXCEPT ![c] = "idle"] /\ want' = [want EXCEPT ![c] = NoFingerprint]
      /\ flight' = [flight EXCEPT ![c] = NoFlight] /\ pc[c] \in {"wait", "holding"}
  BY DEF DropReference, Leave, Go
<1>2. flight[c] \in Flight /\ flight[c] # NoFlight /\ want[c] \in Fingerprint
  BY <1>1, CacheAssumption DEF CacheInv, TypeOK, Wanted
<1>3. \A d \in Caller \ {c} : flight[d] \notin Freed(c)
  BY FreedAlone
<1>4. /\ \A d \in Caller \ {c} : pc'[d] = pc[d] /\ flight'[d] = flight[d] /\ want'[d] = want[d]
      /\ pc'[c] = "idle" /\ flight'[c] = NoFlight /\ want'[c] = NoFingerprint
  BY <1>1 DEF CacheInv, TypeOK
<1>5. \A f \in Fingerprint : \A n :
          n \notin Freed(c) /\ entries[f] = Ready(n) => entries'[f] = Ready(n)
  BY <1>1, EntriesDiffer
<1>6. \A f \in Fingerprint : \A n : entries[f] = Initializing(n) <=> entries'[f] = Initializing(n)
  BY <1>1, EntriesDiffer
<1>7. \A f \in Fingerprint, n \in Flight :
          entries'[f] = Ready(n) => entries[f] = Ready(n) /\ n \notin Freed(c)
  BY <1>1, EntriesDiffer, CacheAssumption
<1>8. TypeOK'
  <2>1. entries' \in [Fingerprint -> TemplateCacheEntry]
    BY <1>1 DEF CacheInv, TypeOK, TemplateCacheEntry
  <2> QED
    BY <1>1, <2>1 DEF CacheInv, TypeOK, CallerState
<1>9. Wanted'
  BY <1>4, CacheAssumption DEF CacheInv, Wanted
<1>10. OneInitializer'
  <2>1. \A d \in Caller : pc'[d] \in Initializer => d # c
    BY <1>4 DEF Initializer
  <2>2. \A d \in Caller : pc'[d] = "initialize" => OwnsEntry(d)'
    BY <1>4, <1>6 DEF CacheInv, OneInitializer, OwnsEntry, Wanted
  <2> QED
    BY <1>1, <1>4, <2>1, <2>2 DEF CacheInv, OneInitializer
<1>11. EntriesBacked'
  <2>1. ASSUME NEW f \in Fingerprint, NEW m \in Flight, entries'[f] = Initializing(m)
        PROVE  \E d \in Caller : pc'[d] = "initialize" /\ want'[d] = f /\ flight'[d] = m
    BY <1>1, <1>4, <1>6, <2>1 DEF CacheInv, EntriesBacked
  <2>2. ASSUME NEW f \in Fingerprint, NEW m \in Flight, entries'[f] = Ready(m)
        PROVE  m \in published' /\ \E d \in Caller : want'[d] = f /\ flight'[d] = m
    <3>1. m \in published /\ m \notin Freed(c)
      BY <1>7, <2>2 DEF CacheInv, EntriesBacked
    <3>2. PICK d \in Caller : want[d] = f /\ flight[d] = m
      BY <1>7, <2>2 DEF CacheInv, EntriesBacked
    <3>3. CASE d # c
      BY <1>1, <1>4, <3>1, <3>2, <3>3
    <3>4. CASE d = c
      <4>1. PICK e \in Caller \ {c} : flight[e] = m
        BY <3>1, <3>2, <3>4, FreedAlone
      <4>2. want[e] = f
        BY <1>2, <3>2, <3>4, <4>1 DEF CacheInv, Wanted
      <4> QED
        BY <1>1, <1>4, <3>1, <4>1, <4>2
    <3> QED
      BY <3>3, <3>4
  <2> QED
    BY <2>1, <2>2 DEF EntriesBacked
<1>12. PublishedCached'
  <2>1. \A d \in Caller : pc'[d] \in {"complete", "holding"} => flight'[d] \in published'
    BY <1>1, <1>3, <1>4 DEF CacheInv, PublishedCached
  <2>2. ASSUME NEW d \in Caller, flight'[d] \in published'
        PROVE  entries'[want'[d]] = Ready(flight'[d])
    <3>1. d # c /\ flight[d] \in published /\ flight[d] \notin Freed(c)
      BY <1>1, <1>4, <2>2, CacheAssumption DEF CacheInv, TypeOK
    <3>2. entries[want[d]] = Ready(flight[d]) /\ want[d] \in Fingerprint
      BY <3>1, CacheAssumption DEF CacheInv, TypeOK, Wanted, PublishedCached
    <3> QED
      BY <1>4, <1>5, <3>1, <3>2
  <2>3. ASSUME NEW m \in published' \cup completed'
        PROVE  m \in Flight /\ \E d \in Caller : flight'[d] = m
    <3>1. m \in published \cup completed /\ m \notin Freed(c)
      BY <1>1, <2>3
    <3>2. PICK d \in Caller : m \in Flight /\ flight[d] = m
      BY <3>1 DEF CacheInv, PublishedCached
    <3> QED
      BY <1>4, <3>1, <3>2, FreedAlone
  <2> QED
    BY <2>1, <2>2, <2>3 DEF PublishedCached
<1> QED
  BY <1>8, <1>9, <1>10, <1>11, <1>12 DEF CacheInv

-----------------------------------------------------------------------------
LEMMA CacheInvInit == Init => CacheInv
BY CacheAssumption
DEF Init, CacheInv, TypeOK, TemplateCacheEntry, CallerState, Wanted, OneInitializer, Initializer,
    EntriesBacked, None, Initializing, Ready, PublishedCached

LEMMA CacheInvStep ==
    ASSUME CacheInv, [Next]_vars
    PROVE  CacheInv'
<1>1. CASE UNCHANGED vars
  BY <1>1 DEF vars, cacheVars, CacheInv, TypeOK, Wanted, OneInitializer, OwnsEntry, EntriesBacked,
              PublishedCached
<1>2. ASSUME NEW c \in Caller, NEW f \in Fingerprint, BeginTemplate(c, f)
      PROVE  CacheInv'
  BY <1>2, BeginStep
<1>3. ASSUME NEW c \in Caller, LookupStep(c)
      PROVE  CacheInv'
  BY <1>3, LookupReadyStep, LookupWaitStep, LookupInitializeStep DEF LookupStep
<1>4. ASSUME NEW c \in Caller, InstallTemplate(c) \/ AbandonFlight(c)
      PROVE  CacheInv'
  BY <1>4, InstallStep, AbandonStep
<1>5. ASSUME NEW c \in Caller, CompleteFlight(c) \/ FinishWait(c) \/ DropReference(c)
      PROVE  CacheInv'
  BY <1>5, CompleteStep, FinishWaitStep, DropStep
<1> QED
  BY <1>1, <1>2, <1>3, <1>4, <1>5 DEF Next

LEMMA CacheInvariant == Spec => []CacheInv
BY CacheInvInit, CacheInvStep, PTL DEF Spec

\* However calls for one fingerprint begin, join, fail, are cancelled and are
\* retried, the templates that callers of one fingerprint hold are one
\* allocation, and a running initializer owns its entry of the cache.
THEOREM OneTemplateEach == Spec => []OneTemplate
<1>1. CacheInv => OneTemplate
  <2> SUFFICES ASSUME CacheInv PROVE OneTemplate
    OBVIOUS
  <2>1. ASSUME NEW c \in Caller, NEW d \in Caller, want[c] = want[d],
               pc[c] \in {"complete", "holding"}, pc[d] \in {"complete", "holding"}
        PROVE  flight[c] = flight[d]
    <3>1. entries[want[c]] = Ready(flight[c]) /\ entries[want[d]] = Ready(flight[d])
      BY <2>1 DEF CacheInv, PublishedCached
    <3> QED
      BY <2>1, <3>1, EntriesDiffer
  <2> QED
    BY <2>1 DEF CacheInv, OneInitializer, OneTemplate
<1> QED
  BY <1>1, CacheInvariant, PTL

-----------------------------------------------------------------------------
\* Only a caller that begins a flight adds an entry to the cache.
LEMMA OthersAddNone ==
    ASSUME CacheInv, [Next]_vars, \A c \in Caller : ~LookupInitialize(c)
    PROVE  \A f \in Fingerprint : entries[f] = None => entries'[f] = None
<1>1. CASE UNCHANGED entries
  BY <1>1
<1>2. ASSUME NEW c \in Caller, InstallTemplate(c)
      PROVE  \A f \in Fingerprint : entries[f] = None => entries'[f] = None
  BY <1>2, EntriesDiffer DEF InstallTemplate, OwnsEntry, CacheInv, TypeOK
<1>3. ASSUME NEW c \in Caller, AbandonFlight(c)
      PROVE  \A f \in Fingerprint : entries[f] = None => entries'[f] = None
  BY <1>3 DEF AbandonFlight, CacheInv, TypeOK
<1>4. ASSUME NEW c \in Caller, DropReference(c)
      PROVE  \A f \in Fingerprint : entries[f] = None => entries'[f] = None
  BY <1>4, EntriesDiffer DEF DropReference
<1>5. UNCHANGED vars => UNCHANGED entries
  BY DEF vars, cacheVars
<1>6. \A c \in Caller : LookupStep(c) \/ CompleteFlight(c) \/ FinishWait(c) => UNCHANGED entries
  BY DEF LookupStep, LookupReady, LookupWait, CompleteFlight, FinishWait, cacheVars
<1>7. \A c \in Caller, f \in Fingerprint : BeginTemplate(c, f) => UNCHANGED entries
  BY DEF BeginTemplate, cacheVars
<1> QED
  BY <1>1, <1>2, <1>3, <1>4, <1>5, <1>6, <1>7 DEF Next

\* A set whose members all are what some caller wants is no larger than the
\* set of callers.
LEMMA WantedBound ==
    ASSUME NEW S, NEW w, \A f \in S : \E c \in Caller : w[c] = f
    PROVE  IsFiniteSet(S) /\ Cardinality(S) <= Cardinality(Caller)
<1> DEFINE W == {w[c] : c \in Caller}
           g == [c \in Caller |-> w[c]]
<1>1. g \in Surjection(Caller, W)
  BY DEF Surjection
<1>2. IsFiniteSet(W) /\ Cardinality(W) <= Cardinality(Caller)
  BY <1>1, FS_Surjection, CacheAssumption
<1>3. S \subseteq W
  OBVIOUS
<1> HIDE DEF W
<1>4. IsFiniteSet(S) /\ Cardinality(S) <= Cardinality(W)
  BY <1>2, <1>3, FS_Subset
<1> QED
  BY <1>2, <1>4, CacheAssumption, FS_CardinalityType

LEMMA BoundStep ==
    ASSUME CacheInv, CacheBounded, [Next]_vars
    PROVE  CacheBounded'
<1> DEFINE S == {f \in Fingerprint : entries[f] # None}
<1>1. CASE \E c \in Caller : LookupInitialize(c)
  <2>1. \A f \in S' : \E d \in Caller : want'[d] = f
    BY <1>1, LookupInitializeStep
  <2> QED
    BY <2>1, WantedBound DEF CacheBounded
<1>2. CASE \A c \in Caller : ~LookupInitialize(c)
  <2>1. S' \subseteq S
    BY <1>2, OthersAddNone
  <2>2. S \subseteq Fingerprint
    OBVIOUS
  <2>3. Cardinality(S) <= Cardinality(Caller)
    BY DEF CacheBounded
  <2> HIDE DEF S
  <2>4. /\ Cardinality(S') <= Cardinality(S) /\ Cardinality(S') \in Nat
        /\ Cardinality(S) \in Nat /\ Cardinality(Caller) \in Nat
    BY <2>1, <2>2, CacheAssumption, FS_Subset, FS_CardinalityType
  <2>5. Cardinality(S') <= Cardinality(Caller)
    BY <2>3, <2>4
  <2> QED
    BY <2>5 DEF CacheBounded, S
<1> QED
  BY <1>1, <1>2

\* The cache never has more entries than there are callers, however many
\* fingerprints come and go: pruning at the beginning of a flight leaves only
\* what some caller wants, and nothing else adds an entry.
THEOREM CacheStaysSmall == Spec => []CacheBounded
<1>1. Init => CacheBounded
  <2> SUFFICES ASSUME Init PROVE CacheBounded
    OBVIOUS
  <2>1. {f \in Fingerprint : entries[f] # None} = {}
    BY DEF Init
  <2> QED
    BY <2>1, FS_EmptySet, FS_CardinalityType, CacheAssumption DEF CacheBounded
<1>2. CacheInv /\ CacheBounded /\ [Next]_vars => CacheBounded'
  BY BoundStep
<1> QED
  BY <1>1, <1>2, CacheInvariant, PTL DEF Spec

-----------------------------------------------------------------------------
\* A waiter goes back to look for another flight only when nobody has the
\* template of its own, and the template its flight published is not freed by
\* anybody's drop while it waits.
THEOREM WaitersGetTheWinner == Spec => WaiterGetsWinner
<1> DEFINE Has(c, d) == flight[d] = flight[c] /\ pc[d] \in {"complete", "holding"}
           A == \A c \in Caller : pc[c] = "wait" =>
                   /\ (\E d \in Caller : flight[d] = flight[c] /\ pc[d] \in {"complete", "holding"})
                      => pc'[c] # "lookup"
                   /\ (flight[c] \in published /\ pc'[c] = "wait") => flight[c] \in published'
<1>1. ASSUME CacheInv, Next, NEW c \in Caller, NEW d \in Caller,
             pc[c] = "wait", Has(c, d)
      PROVE  pc'[c] # "lookup"
  <2> SUFFICES ASSUME pc'[c] = "lookup" PROVE FALSE
    OBVIOUS
  <2>1. \A e \in Caller, f \in Fingerprint : ~BeginTemplate(e, f)
    BY <1>1 DEF BeginTemplate, Go, CacheInv, TypeOK
  <2>2. \A e \in Caller : /\ ~LookupReady(e) /\ ~LookupWait(e) /\ ~LookupInitialize(e)
                         /\ ~InstallTemplate(e) /\ ~AbandonFlight(e)
    BY <1>1 DEF LookupReady, LookupWait, LookupInitialize, InstallTemplate, AbandonFlight,
                AfterAbandon, Go, CacheInv, TypeOK
  <2>3. \A e \in Caller : ~CompleteFlight(e) /\ ~DropReference(e)
    BY <1>1 DEF CompleteFlight, DropReference, Leave, Go, CacheInv, TypeOK
  <2>4. PICK e \in Caller : FinishWait(e)
    BY <1>1, <2>1, <2>2, <2>3 DEF Next, LookupStep
  <2>5. flight[c] \notin published
    BY <1>1, <2>4 DEF FinishWait, Go, CacheInv, TypeOK
  <2> QED
    BY <1>1, <2>5 DEF CacheInv, PublishedCached
<1>2. ASSUME CacheInv, Next, NEW c \in Caller,
             pc[c] = "wait", pc'[c] = "wait", flight[c] \in published
      PROVE  flight[c] \in published'
  <2>1. CASE \E e \in Caller : DropReference(e)
    <3>1. PICK e \in Caller : DropReference(e)
      BY <2>1
    <3>2. e # c
      BY <1>2, <3>1 DEF DropReference, Leave, Go, CacheInv, TypeOK
    <3>3. flight[c] \notin Freed(e)
      BY <3>2 DEF Freed
    <3> QED
      BY <1>2, <3>1, <3>3 DEF DropReference
  <2>2. CASE ~\E e \in Caller : DropReference(e)
    BY <1>2, <2>2 DEF Next, LookupStep, BeginTemplate, LookupReady, LookupWait, LookupInitialize,
                      InstallTemplate, Publish, AbandonFlight, CompleteFlight, FinishWait, cacheVars
  <2> QED
    BY <2>1, <2>2
<1>3. CacheInv /\ [Next]_vars => [A]_vars
  BY <1>1, <1>2
<1> QED
  BY <1>3, CacheInvariant, PTL DEF Spec, WaiterGetsWinner

=============================================================================
