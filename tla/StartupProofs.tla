---- MODULE StartupProofs ----
(* What main builds is what Forwarder assumes, and what the file asks for, for every
   configuration file. *)
EXTENDS Startup, SequenceTheorems, FiniteSetTheorems, WellFoundedInduction, TLAPS

-----------------------------------------------------------------------------
(* Places                                                                    *)

\* Every set of natural numbers that is not empty has a least element.
LEMMA LeastNumber ==
    ASSUME NEW T, T \subseteq Nat, T # {}
    PROVE  \E x \in T : \A y \in T : x <= y
<1>1. PICK x \in T : \A y \in T : ~(<<y, x>> \in OpToRel(<, Nat))
  BY NatLessThanWellFounded, WFMin
<1>2. \A y \in T : ~(y < x)
  BY <1>1 DEF OpToRel
<1>3. \A y \in T : x <= y
  BY <1>2
<1> QED
  BY <1>3

\* The count grows by one at each place, from none to all of them.
LEMMA Counts ==
    ASSUME NEW n \in Nat, NEW S \in SUBSET (1 .. n)
    PROVE  /\ IsFiniteSet(S) /\ Cardinality(S) \in Nat
           /\ CountUpTo(S, 0) = 0 /\ CountUpTo(S, n) = Cardinality(S)
           /\ \A p \in Nat :
                /\ CountUpTo(S, p) \in Nat
                /\ p + 1 \in S => CountUpTo(S, p + 1) = CountUpTo(S, p) + 1
                /\ p + 1 \notin S => CountUpTo(S, p + 1) = CountUpTo(S, p)
<1>0. \A q \in S : q \in Nat /\ 0 < q /\ q <= n
  OBVIOUS
<1>1. IsFiniteSet(1 .. n)
  BY FS_Interval
<1>2. IsFiniteSet(S)
  BY <1>1, FS_Subset
<1>3. \A p \in Nat : IsFiniteSet({q \in S : q <= p})
  BY <1>2, FS_Subset
<1>4. \A p \in Nat : CountUpTo(S, p) \in Nat
  BY <1>3, FS_CardinalityType DEF CountUpTo
<1>5. CountUpTo(S, 0) = 0
  <2>1. \A q \in S : ~(q <= 0)
    BY <1>0
  <2>2. {q \in S : q <= 0} = {}
    BY <2>1, Zenon
  <2> QED
    BY <2>2, FS_EmptySet DEF CountUpTo
<1>6. CountUpTo(S, n) = Cardinality(S)
  <2>1. {q \in S : q <= n} = S
    BY <1>0
  <2> QED
    BY <2>1 DEF CountUpTo
<1>7. ASSUME NEW p \in Nat
      PROVE  /\ p + 1 \in S => CountUpTo(S, p + 1) = CountUpTo(S, p) + 1
             /\ p + 1 \notin S => CountUpTo(S, p + 1) = CountUpTo(S, p)
  <2> DEFINE B == {q \in S : q <= p}
  <2>1. IsFiniteSet(B) /\ p + 1 \notin B /\ Cardinality(B) \in Nat
    BY <1>3, FS_CardinalityType
  <2>2. CASE p + 1 \in S
    <3>0. \A q \in S : q <= p + 1 <=> q <= p \/ q = p + 1
      BY <1>0
    <3>1. {q \in S : q <= p + 1} = B \union {p + 1}
      BY <2>2, <3>0, p + 1 <= p + 1, Zenon
    <3> HIDE DEF B
    <3>2. Cardinality(B \union {p + 1}) = Cardinality(B) + 1
      BY <2>1, FS_AddElement
    <3>3. CountUpTo(S, p + 1) = Cardinality(B \union {p + 1}) /\ CountUpTo(S, p) = Cardinality(B)
      BY <3>1 DEF CountUpTo, B
    <3>4. CountUpTo(S, p + 1) = CountUpTo(S, p) + 1
      BY <3>2, <3>3, Zenon
    <3> QED
      BY <2>2, <3>4, Zenon
  <2>3. CASE p + 1 \notin S
    <3>0. \A q \in S : q <= p + 1 <=> q <= p
      BY <1>0, <2>3
    <3>1. {q \in S : q <= p + 1} = B
      BY <3>0, Zenon
    <3> QED
      BY <2>1, <2>3, <3>1 DEF CountUpTo
  <2> QED
    BY <2>2, <2>3
<1> QED
  BY <1>2, <1>4, <1>5, <1>6, <1>7, FS_CardinalityType

LEMMA CountIsMonotone ==
    ASSUME NEW n \in Nat, NEW S \in SUBSET (1 .. n), NEW p \in Nat, NEW q \in Nat
    PROVE  /\ p <= q => CountUpTo(S, p) <= CountUpTo(S, q)
           /\ p < q /\ q \in S => CountUpTo(S, p) < CountUpTo(S, q)
<1>1. ASSUME NEW a \in Nat, NEW b \in Nat, a <= b
      PROVE  CountUpTo(S, a) <= CountUpTo(S, b)
  <2>1. IsFiniteSet({i \in S : i <= b})
    BY Counts, FS_Subset
  <2>2. {i \in S : i <= a} \in SUBSET {i \in S : i <= b}
    <3>1. \A i \in S : i \in Nat
      OBVIOUS
    <3>2. \A i \in S : i <= a => i <= b
      BY <1>1, <3>1
    <3> QED
      BY <3>2, Zenon
  <2> QED
    BY <2>1, <2>2, FS_Subset DEF CountUpTo
<1>2. ASSUME p < q, q \in S
      PROVE  CountUpTo(S, p) < CountUpTo(S, q)
  <2>1. PICK r \in Nat : p <= r /\ r + 1 = q
    <3>1. q - 1 \in Nat /\ p <= q - 1 /\ (q - 1) + 1 = q
      BY <1>2
    <3> QED
      BY <3>1
  <2>2. CountUpTo(S, r + 1) = CountUpTo(S, r) + 1
    BY <1>2, <2>1, Counts
  <2>3. CountUpTo(S, p) \in Nat /\ CountUpTo(S, r) \in Nat /\ CountUpTo(S, p) <= CountUpTo(S, r)
    BY <1>1, <2>1, Counts
  <2>4. CountUpTo(S, q) = CountUpTo(S, r) + 1
    BY <2>1, <2>2
  <2> QED
    BY <2>3, <2>4
<1> QED
  BY <1>1, <1>2

\* The k-th place is one of the places, and the only one with that count.
LEMMA KthIsPlace ==
    ASSUME NEW n \in Nat, NEW S \in SUBSET (1 .. n), NEW k \in 1 .. Cardinality(S)
    PROVE  KthOf(S, k) \in S /\ CountUpTo(S, KthOf(S, k)) = k
<1> DEFINE T == {p \in 0 .. n : CountUpTo(S, p) >= k}
<1>1. n \in T /\ T \subseteq Nat
  BY Counts
<1>2. PICK x \in T : \A y \in T : x <= y
  BY <1>1, LeastNumber
<1>3. x \in 0 .. n /\ x \in Nat /\ CountUpTo(S, x) >= k
  BY <1>2
<1>4. x # 0
  <2>1. CountUpTo(S, 0) = 0
    BY Counts
  <2> HIDE DEF T
  <2> QED
    BY <1>3, <2>1
<1>5. PICK y \in 0 .. n : y + 1 = x
  <2>1. x - 1 \in 0 .. n /\ (x - 1) + 1 = x
    BY <1>3, <1>4
  <2> QED
    BY <2>1
<1>6. CountUpTo(S, y) \in Nat /\ CountUpTo(S, y) < k
  <2>1. y \notin T
    BY <1>2, <1>5
  <2> QED
    BY <2>1, Counts
<1>7. /\ x \in S => CountUpTo(S, x) = CountUpTo(S, y) + 1
      /\ x \notin S => CountUpTo(S, x) = CountUpTo(S, y)
  <2>1. /\ y + 1 \in S => CountUpTo(S, y + 1) = CountUpTo(S, y) + 1
        /\ y + 1 \notin S => CountUpTo(S, y + 1) = CountUpTo(S, y)
    BY Counts
  <2> QED
    BY <1>5, <2>1
<1> HIDE DEF T
<1>8. x \in S
  BY <1>3, <1>6, <1>7
<1>9. CountUpTo(S, x) = k
  BY <1>3, <1>6, <1>7, <1>8
<1> QED
  BY <1>8, <1>9 DEF KthOf

LEMMA KthIsUnique ==
    ASSUME NEW n \in Nat, NEW S \in SUBSET (1 .. n), NEW p \in S
    PROVE  /\ CountUpTo(S, p) \in 1 .. Cardinality(S)
           /\ KthOf(S, CountUpTo(S, p)) = p
<1>1. p \in Nat /\ 0 < p /\ p <= n
  OBVIOUS
<1>2. CountUpTo(S, p) \in 1 .. Cardinality(S)
  <2>1. CountUpTo(S, 0) < CountUpTo(S, p) /\ CountUpTo(S, p) <= CountUpTo(S, n)
    BY <1>1, CountIsMonotone
  <2> QED
    BY <1>1, <2>1, Counts
<1> DEFINE k == CountUpTo(S, p)
           r == KthOf(S, k)
<1>3. r \in S /\ CountUpTo(S, r) = k
  BY <1>2, KthIsPlace
<1> HIDE DEF r
<1>4. r \in Nat
  BY <1>3
<1>5. r < p => CountUpTo(S, r) < k
  BY <1>1, <1>4, CountIsMonotone
<1>6. p < r => k < CountUpTo(S, r)
  BY <1>1, <1>3, <1>4, CountIsMonotone
<1>7. r = p
  <2>1. k \in Nat
    BY <1>2
  <2> HIDE DEF k
  <2> QED
    BY <1>1, <1>3, <1>4, <1>5, <1>6, <2>1
<1> QED
  BY <1>2, <1>7 DEF r

\* Collecting the elements at these places yields each of them, and nothing else.
LEMMA Collected ==
    ASSUME NEW T, NEW s \in Seq(T), NEW S \in SUBSET (1 .. Len(s))
    PROVE  /\ ElementsAt(s, S) \in Seq(T)
           /\ Cardinality(S) \in Nat /\ Len(ElementsAt(s, S)) = Cardinality(S)
           /\ \A k \in 1 .. Cardinality(S) :
                ElementsAt(s, S)[k] = s[KthOf(S, k)] /\ KthOf(S, k) \in S
           /\ ToSet(ElementsAt(s, S)) = {s[i] : i \in S}
           /\ S # {} => ElementsAt(s, S) # <<>>
<1> DEFINE e == ElementsAt(s, S)
           c == Cardinality(S)
<1>1. Len(s) \in Nat
  OBVIOUS
<1>2. c \in Nat /\ IsFiniteSet(S)
  BY <1>1, Counts
<1>3. \A k \in 1 .. c : KthOf(S, k) \in S
  BY <1>1, KthIsPlace
<1>11. \A i \in S : s[i] \in T
  OBVIOUS
<1>4. \A k \in 1 .. c : s[KthOf(S, k)] \in T
  BY <1>3, <1>11, Zenon
<1>5. e = [k \in 1 .. c |-> s[KthOf(S, k)]]
  BY DEF ElementsAt
<1> HIDE DEF c, e
<1>6. e \in Seq(T) /\ Len(e) = c /\ \A k \in 1 .. c : e[k] = s[KthOf(S, k)]
  BY <1>2, <1>4, <1>5
<1>7. ToSet(e) = {e[k] : k \in 1 .. c}
  BY <1>2, <1>6 DEF ToSet
<1>8. \A i \in S : \E k \in 1 .. c : e[k] = s[i]
  <2> SUFFICES ASSUME NEW i \in S PROVE \E k \in 1 .. c : e[k] = s[i]
    OBVIOUS
  <2>1. CountUpTo(S, i) \in 1 .. c /\ KthOf(S, CountUpTo(S, i)) = i
    BY <1>1, KthIsUnique DEF c
  <2> QED
    BY <1>6, <2>1
<1>9. ToSet(e) = {s[i] : i \in S}
  <2>1. \A v \in ToSet(e) : v \in {s[i] : i \in S}
    BY <1>3, <1>6, <1>7
  <2>2. \A v \in {s[i] : i \in S} : v \in ToSet(e)
    BY <1>7, <1>8
  <2> QED
    BY <2>1, <2>2, Zenon
<1>10. S # {} => e # <<>>
  <2>1. S # {} => c # 0
    BY <1>2, FS_EmptySet DEF c
  <2> QED
    BY <1>2, <1>6, <2>1
<1> QED
  BY <1>2, <1>3, <1>6, <1>9, <1>10 DEF c, e

-----------------------------------------------------------------------------
(* Startup                                                                   *)

\* c has the fields of a configuration; nothing is said of what most of them hold.
IsConfig(c) ==
    c = [port |-> c.port, cport |-> c.cport, ip |-> c.ip, sni |-> c.sni, method |-> c.method,
         endpoints |-> c.endpoints, listeners |-> c.listeners, probe |-> c.probe, lb |-> c.lb,
         auto |-> c.auto, retries |-> c.retries, bad |-> c.bad]

Scalars(c) == /\ c.lb \in LoadBalanceModes
              /\ c.auto \in BOOLEAN
              /\ c.auto => c.retries > 0

Fits(r) == /\ r.method \in Methods /\ r.endpoints # <<>>
           /\ r.injector => Len(r.endpoints) = 1 /\ r.method # "fragment"
           /\ r.method = "wrong_seq" => r.injector
           /\ r.lb \in LoadBalanceModes
           /\ r.auto => r.retries > 0

Inv ==
    /\ file \in Configs
    /\ IsConfig(cfg)
    /\ stage \in {"probe", "settle", "build", "serving"} => Scalars(cfg)
    /\ \E S : runtimes \in Seq(S)
    /\ \A i \in 1 .. Len(runtimes) : Fits(runtimes[i])

\* What is read has the fields.
LEMMA ConfigsAreConfigs == ASSUME NEW c \in Configs PROVE IsConfig(c)
BY DEF Configs, IsConfig

\* Normalize changes no field but by replacing it, and settles the scalar ones first.
LEMMA NormalizeSettles ==
    ASSUME NEW c \in Configs
    PROVE  IsConfig(Normalize(c)) /\ Scalars(Normalize(c))
<1> DEFINE n == NormalizeScalars(c)
           l == NormalizeListeners(n)
           e == NormalizeEndpoints(l)
<1>1. IsConfig(n) /\ Scalars(n)
  <2>1. IsConfig(c)
    BY ConfigsAreConfigs
  <2>2. c.auto \in BOOLEAN /\ c.retries \in Int
    BY DEF Configs
  <2> DEFINE lb == IF c.lb \in LoadBalanceModes THEN c.lb ELSE "failover"
             retries == IF c.auto /\ c.retries <= 0 THEN 2 ELSE c.retries
  <2>3. lb \in LoadBalanceModes /\ (c.auto => retries > 0)
    BY <2>2 DEF LoadBalanceModes
  <2>4. n = [[c EXCEPT !.lb = lb] EXCEPT !.retries = retries]
    BY DEF NormalizeScalars
  <2> HIDE DEF lb, retries, n
  <2>5. IsConfig(n) /\ n.lb = lb /\ n.auto = c.auto /\ n.retries = retries
    BY <2>1, <2>4 DEF IsConfig
  <2> QED BY <2>2, <2>3, <2>5 DEF Scalars
<1>2. IsConfig(l) /\ Scalars(l)
  <2> HIDE DEF n
  <2> QED BY <1>1 DEF NormalizeListeners, IsConfig, Scalars
<1>3. IsConfig(e) /\ Scalars(e)
  <2> HIDE DEF n, l
  <2> QED BY <1>2 DEF NormalizeEndpoints, IsConfig, Scalars
<1> QED BY <1>3 DEF Normalize

\* A sequence stays one when an element of any kind is appended.
LEMMA AppendedSequence ==
    ASSUME NEW S, NEW s \in Seq(S), NEW x
    PROVE  /\ \E T : Append(s, x) \in Seq(T)
           /\ Len(Append(s, x)) = Len(s) + 1
           /\ \A i \in 1 .. Len(s) : Append(s, x)[i] = s[i]
           /\ Append(s, x)[Len(s) + 1] = x
<1> DEFINE T == S \union {x}
<1>1. s \in Seq(T)
  OBVIOUS
<1>2. x \in T
  OBVIOUS
<1>3. Append(s, x) \in Seq(T)
  BY <1>1, <1>2
<1> QED BY <1>1, <1>2, <1>3

\* The record a call of buildSingleRuntime returns.
NewRuntime(i, injector) ==
    [endpoints |-> RuntimeEndpoints(i),
     method |-> RuntimeMethod(i), injector |-> injector,
     lb |-> cfg.lb, auto |-> cfg.auto, retries |-> cfg.retries,
     criticalFailures |-> IF Len(RuntimeEndpoints(i)) > 1 THEN 8 ELSE 20]

LEMMA NewRuntimeFits ==
    ASSUME NEW i, NEW injector \in {FALSE, WantsInjector(i)},
           RuntimeMethod(i) = "wrong_seq" => injector,
           Scalars(cfg), RuntimeEndpoints(i) # <<>>
    PROVE  Fits(NewRuntime(i, injector))
<1>1. RuntimeMethod(i) \in Methods
  BY DEF RuntimeMethod, Methods
<1>2. injector => Len(RuntimeEndpoints(i)) = 1 /\ RuntimeMethod(i) # "fragment"
  BY Zenon DEF WantsInjector
<1> QED BY <1>1, <1>2, Zenon DEF Fits, NewRuntime, Scalars

LEMMA InvInit == StartupInit => Inv
<1> SUFFICES ASSUME StartupInit PROVE Inv
  OBVIOUS
<1>1. DefaultConfig \in Configs
  BY DEF DefaultConfig, Configs, Hosts, Names, MethodTexts, Methods
<1>2. file \in Configs
  BY <1>1, FilesAssumption DEF StartupInit
<1>3. IsConfig(cfg)
  <2>1. cfg = DefaultConfig
    BY Zenon DEF StartupInit
  <2> QED BY <1>1, <2>1, ConfigsAreConfigs
<1>4. runtimes \in Seq(Nat) /\ Len(runtimes) = 0
  <2>1. runtimes = <<>>
    BY Zenon DEF StartupInit
  <2> QED BY <2>1
<1>5. stage = "load"
  BY Zenon DEF StartupInit
<1> QED BY <1>2, <1>3, <1>4, <1>5 DEF Inv

LEMMA InvNext == Inv /\ [StartupNext]_startupVars => Inv'
<1> SUFFICES ASSUME Inv, [StartupNext]_startupVars PROVE Inv'
  OBVIOUS
<1> USE DEF Inv
<1>1. CASE LoadFails
  BY <1>1 DEF LoadFails, Die, IsConfig, Scalars, Fits
<1>2. CASE PortsFail \/ NoEndpoints
  BY <1>2 DEF PortsFail, NoEndpoints, Die, IsConfig, Scalars, Fits
<1>3. CASE LoadNormalized
  <2>1. IsConfig(cfg') /\ Scalars(cfg')
    BY <1>3, NormalizeSettles DEF LoadNormalized
  <2>2. stage' \in {"probe", "settle"} /\ UNCHANGED <<file, runtimes>>
    BY <1>3 DEF LoadNormalized
  <2> QED BY <2>1, <2>2 DEF IsConfig, Scalars, Fits
<1>4. ASSUME NEW i \in 1 .. Len(active), ProbeEndpoint(i) PROVE Inv'
  BY <1>4 DEF ProbeEndpoint, IsConfig, Scalars, Fits
<1>5. CASE ProbesDone
  BY <1>5 DEF ProbesDone, IsConfig, Scalars, Fits
<1>6. CASE SettleFails
  BY <1>6 DEF SettleFails, Die, IsConfig, Scalars, Fits
<1>7. CASE Settle
  <2>1. cfg' = Settled /\ stage = "settle" /\ stage' = "build"
    BY <1>7 DEF Settle
  <2>2. IsConfig(cfg') /\ Scalars(cfg')
    BY <2>1 DEF Settled, IsConfig, Scalars
  <2>3. UNCHANGED <<file, runtimes>>
    BY <1>7 DEF Settle
  <2> QED BY <2>1, <2>2, <2>3 DEF IsConfig, Scalars, Fits
<1>8. ASSUME NEW i \in 1 .. RuntimeCount, BuildFails(i) PROVE Inv'
  BY <1>8 DEF BuildFails, Die, IsConfig, Scalars, Fits
<1>9. ASSUME NEW i \in 1 .. RuntimeCount, BuildSingleRuntime(i) PROVE Inv'
  <2>1. PICK injector \in {FALSE, WantsInjector(i)} :
            /\ RuntimeMethod(i) = "wrong_seq" => injector
            /\ runtimes' = Append(runtimes, NewRuntime(i, injector))
    BY <1>9, Zenon DEF BuildSingleRuntime, NewRuntime
  <2>2. /\ stage = "build" /\ stage' \in {"build", "serving"} /\ UNCHANGED <<file, cfg>>
        /\ RuntimeEndpoints(i) # <<>>
    BY <1>9 DEF BuildSingleRuntime
  <2>3. Fits(NewRuntime(i, injector))
    BY <2>1, <2>2, NewRuntimeFits
  <2>4. PICK S : runtimes \in Seq(S)
    OBVIOUS
  <2>5. /\ \E T : runtimes' \in Seq(T)
        /\ Len(runtimes') = Len(runtimes) + 1
        /\ \A j \in 1 .. Len(runtimes) : runtimes'[j] = runtimes[j]
        /\ runtimes'[Len(runtimes) + 1] = NewRuntime(i, injector)
    <3> DEFINE r == NewRuntime(i, injector)
    <3>1. runtimes' = Append(runtimes, r)
      BY <2>1
    <3> HIDE DEF r, Inv
    <3>2. /\ \E T : Append(runtimes, r) \in Seq(T)
          /\ Len(Append(runtimes, r)) = Len(runtimes) + 1
          /\ \A j \in 1 .. Len(runtimes) : Append(runtimes, r)[j] = runtimes[j]
          /\ Append(runtimes, r)[Len(runtimes) + 1] = r
      BY <2>4, AppendedSequence, Zenon
    <3> QED BY <3>1, <3>2, Zenon DEF r
  <2>6. \A j \in 1 .. Len(runtimes') : Fits(runtimes'[j])
    <3> SUFFICES ASSUME NEW j \in 1 .. Len(runtimes') PROVE Fits(runtimes'[j])
      OBVIOUS
    <3>1. CASE j \in 1 .. Len(runtimes)
      <4>1. runtimes'[j] = runtimes[j] /\ Fits(runtimes[j])
        BY <3>1, <2>5
      <4> QED BY <4>1, Zenon
    <3>2. CASE j = Len(runtimes) + 1
      <4>1. runtimes'[j] = NewRuntime(i, injector)
        BY <3>2, <2>5
      <4> QED BY <4>1, <2>3, Zenon
    <3>3. Len(runtimes) \in Nat
      BY <2>4
    <3> QED BY <3>1, <3>2, <3>3, <2>5
  <2>7. (\A j \in 1 .. Len(runtimes) : Fits(runtimes[j]))'
    BY <2>6, Zenon DEF Fits
  <2> QED BY <2>2, <2>5, <2>7, Zenon DEF IsConfig, Scalars
<1>10. CASE Rebuild
  <2>1. runtimes' \in Seq(Nat) /\ Len(runtimes') = 0
    BY <1>10 DEF Rebuild
  <2> QED BY <2>1, <1>10 DEF Rebuild, IsConfig, Scalars
<1>11. CASE UNCHANGED startupVars
  BY <1>11 DEF startupVars, IsConfig, Scalars, Fits
<1> QED BY <1>1, <1>2, <1>3, <1>4, <1>5, <1>6, <1>7, <1>8, <1>9, <1>10, <1>11 DEF StartupNext

\* Every server that main or a rebuild builds has an injector only for one endpoint and a
\* method that uses it, never lacks one under wrong_seq, and has settled failover settings,
\* whatever configuration file was read.
THEOREM ServersFitForwarder == StartupSpec => []RuntimesFitForwarder
<1>1. Inv => RuntimesFitForwarder
  BY DEF Inv, RuntimesFitForwarder, Fits
<1> QED BY InvInit, InvNext, <1>1, PTL DEF StartupSpec

\* The method main goes on with.
Kept(m) == IF m \in Methods THEN m ELSE "fragment"

\* Normalize keeps the method, and fills the listeners' own in.
LEMMA NormalizeMethods ==
    ASSUME NEW c \in Configs
    PROVE  /\ Normalize(c).method = c.method
           /\ c.listeners = <<>> => Normalize(c).listeners = <<>>
           /\ c.listeners # <<>> =>
                /\ Normalize(c).listeners # <<>>
                /\ Len(Normalize(c).listeners) = Len(c.listeners)
                /\ \A i \in 1 .. Len(c.listeners) :
                     Normalize(c).listeners[i].method =
                        IF c.listeners[i].method = "" THEN c.method ELSE c.listeners[i].method
<1> DEFINE n == NormalizeScalars(c)
           l == NormalizeListeners(n)
           e == NormalizeEndpoints(l)
           filled == [i \in 1 .. Len(c.listeners) |-> FilledListener(n, c.listeners[i])]
<1>1. IsConfig(n) /\ n.method = c.method /\ n.listeners = c.listeners
  <2>1. IsConfig(c)
    BY ConfigsAreConfigs
  <2> DEFINE lb == IF c.lb \in LoadBalanceModes THEN c.lb ELSE "failover"
             retries == IF c.auto /\ c.retries <= 0 THEN 2 ELSE c.retries
  <2>2. n = [[c EXCEPT !.lb = lb] EXCEPT !.retries = retries]
    BY DEF NormalizeScalars
  <2> HIDE DEF lb, retries, n
  <2> QED BY <2>1, <2>2 DEF IsConfig
<1>2. c.listeners \in Seq(Listeners)
  BY DEF Configs
<1>3. /\ IsConfig(l) /\ l.method = c.method
      /\ l.listeners = IF c.listeners = <<>> THEN <<>> ELSE filled
  <2> HIDE DEF n
  <2>1. CASE c.listeners = <<>>
    BY <1>1, <2>1 DEF NormalizeListeners
  <2>2. CASE c.listeners # <<>>
    <3>1. l = [n EXCEPT !.listeners = filled, !.port = filled[1].port, !.ip = filled[1].ip,
                        !.cport = filled[1].cport, !.sni = filled[1].sni]
      BY <1>1, <2>2 DEF NormalizeListeners
    <3> HIDE DEF filled, l
    <3>2. IsConfig(l) /\ l.method = c.method /\ l.listeners = filled
      BY <1>1, <3>1 DEF IsConfig
    <3> QED BY <2>2, <3>2
  <2> QED BY <2>1, <2>2
<1>4. e.method = l.method /\ e.listeners = l.listeners
  <2> HIDE DEF n, l, filled
  <2> QED BY <1>3 DEF NormalizeEndpoints, IsConfig
<1>5. c.listeners # <<>> => filled # <<>> /\ Len(filled) = Len(c.listeners)
  BY <1>2
<1>6. \A i \in 1 .. Len(c.listeners) :
        filled[i].method = IF c.listeners[i].method = "" THEN c.method ELSE c.listeners[i].method
  <2> HIDE DEF n
  <2> QED BY <1>1 DEF FilledListener
<1> QED BY <1>3, <1>4, <1>5, <1>6 DEF Normalize

\* What is asked for, in terms of the normalized configuration.
LEMMA AskedAndNormalized ==
    ASSUME file \in Configs, cfg.listeners = Normalize(file).listeners,
           cfg.method = Kept(file.method), NEW i \in 1 .. RuntimeCount, AsksForWrongSeq(i),
           file.listeners = <<>> => file.method = "wrong_seq"
    PROVE  RuntimeMethod(i) = "wrong_seq"
<1> DEFINE own == file.listeners[i].method
           given == IF own = "" THEN file.method ELSE own
<1>1. file.listeners \in Seq(Listeners)
  BY DEF Configs
<1>2. CASE file.listeners = <<>>
  <2>1. cfg.listeners = <<>> /\ file.method = "wrong_seq"
    BY <1>2, NormalizeMethods
  <2> QED BY <2>1 DEF RuntimeMethod, Kept, Methods, ToLower
<1>3. CASE file.listeners # <<>>
  <2>1. cfg.listeners # <<>> /\ i \in 1 .. Len(file.listeners)
    BY <1>3, NormalizeMethods DEF RuntimeCount
  <2>2. cfg.listeners[i].method = given
    BY <1>3, <2>1, NormalizeMethods
  <2>3. ToLower(given) = "wrong_seq"
    BY <1>3 DEF AsksForWrongSeq
  <2>4. given # ""
    BY <2>3 DEF ToLower
  <2> QED BY <2>1, <2>2, <2>3, <2>4 DEF RuntimeMethod, Methods
<1> QED BY <1>2, <1>3

\* cfg follows the file through main's stages.
CfgFollows ==
    /\ stage \in {"probe", "settle"} => cfg = Normalize(file)
    /\ stage \in {"build", "serving"} => /\ cfg.listeners = Normalize(file).listeners
                                        /\ cfg.method = Kept(file.method)

LEMMA FollowsInit == StartupInit => CfgFollows
BY DEF StartupInit, CfgFollows

LEMMA FollowsNext == ASSUME Inv, CfgFollows, [StartupNext]_startupVars PROVE CfgFollows'
<1> USE DEF CfgFollows
<1>1. CASE LoadFails \/ PortsFail \/ NoEndpoints \/ SettleFails
         \/ \E i \in 1 .. RuntimeCount : BuildFails(i)
  BY <1>1 DEF LoadFails, PortsFail, NoEndpoints, SettleFails, BuildFails, Die
<1>2. CASE LoadNormalized
  BY <1>2 DEF LoadNormalized
<1>3. CASE ProbesDone \/ \E i \in 1 .. Len(active) : ProbeEndpoint(i)
  BY <1>3 DEF ProbesDone, ProbeEndpoint
<1>4. CASE Settle
  <2>1. IsConfig(cfg) /\ cfg' = Settled /\ cfg = Normalize(file) /\ file' = file /\ stage' = "build"
    BY <1>4 DEF Settle, Inv
  <2>2. Settled.listeners = cfg.listeners /\ Settled.method = Kept(cfg.method)
    BY <2>1 DEF Settled, IsConfig, Kept
  <2>3. Normalize(file).method = file.method
    BY NormalizeMethods DEF Inv
  <2> HIDE DEF CfgFollows
  <2>4. cfg'.listeners = Normalize(file).listeners /\ cfg'.method = Kept(file.method)
    BY <2>1, <2>2, <2>3
  <2> QED BY <2>1, <2>4 DEF CfgFollows
<1>5. CASE Rebuild \/ \E i \in 1 .. RuntimeCount : BuildSingleRuntime(i)
  BY <1>5 DEF Rebuild, BuildSingleRuntime
<1>6. CASE UNCHANGED startupVars
  BY <1>6 DEF startupVars
<1> QED BY <1>1, <1>2, <1>3, <1>4, <1>5, <1>6 DEF StartupNext

\* The runtimes are those that were, or none, or one more.
LEMMA StrictNext ==
    ASSUME Inv, CfgFollows, StrictStaysStrict, [StartupNext]_startupVars
    PROVE  StrictStaysStrict'
<1>1. UNCHANGED file
  BY DEF StartupNext, LoadFails, PortsFail, NoEndpoints, LoadNormalized, ProbeEndpoint,
         ProbesDone, SettleFails, Settle, BuildFails, BuildSingleRuntime, Rebuild, startupVars
<1>2. ASSUME UNCHANGED runtimes PROVE StrictStaysStrict'
  BY <1>1, <1>2 DEF StrictStaysStrict, AsksForWrongSeq, ServedStrictly
<1>3. CASE Rebuild
  <2>1. Len(runtimes') = 0
    BY <1>3 DEF Rebuild
  <2> QED BY <2>1 DEF StrictStaysStrict
<1>4. ASSUME NEW i \in 1 .. RuntimeCount, BuildSingleRuntime(i) PROVE StrictStaysStrict'
  <2>1. PICK injector \in {FALSE, WantsInjector(i)} :
            /\ RuntimeMethod(i) = "wrong_seq" => injector
            /\ runtimes' = Append(runtimes, NewRuntime(i, injector))
    BY <1>4, Zenon DEF BuildSingleRuntime, NewRuntime
  <2>2. stage = "build" /\ i = Len(runtimes) + 1
    BY <1>4 DEF BuildSingleRuntime
  <2>3. PICK S : runtimes \in Seq(S)
    BY DEF Inv
  <2> DEFINE r == NewRuntime(i, injector)
  <2>4. r.method = RuntimeMethod(i) /\ r.injector = injector
    BY DEF NewRuntime
  <2>5. AsksForWrongSeq(i) /\ (file.listeners = <<>> => file.method = "wrong_seq")
          => r.method = "wrong_seq" /\ r.injector
    BY <2>1, <2>2, <2>4, AskedAndNormalized DEF Inv, CfgFollows
  <2> HIDE DEF r
  <2>6. /\ Len(runtimes') = Len(runtimes) + 1
        /\ \A j \in 1 .. Len(runtimes) : runtimes'[j] = runtimes[j]
        /\ runtimes'[Len(runtimes) + 1] = r
    <3>1. runtimes' = Append(runtimes, r)
      BY <2>1 DEF r
    <3>2. /\ Len(Append(runtimes, r)) = Len(runtimes) + 1
          /\ \A j \in 1 .. Len(runtimes) : Append(runtimes, r)[j] = runtimes[j]
          /\ Append(runtimes, r)[Len(runtimes) + 1] = r
      BY <2>3, AppendedSequence
    <3> QED BY <3>1, <3>2, Zenon
  <2> SUFFICES ASSUME NEW j \in 1 .. Len(runtimes'), AsksForWrongSeq(j)',
                      file'.listeners = <<>> => file'.method = "wrong_seq"
               PROVE  runtimes'[j].method = "wrong_seq" /\ runtimes'[j].injector
    BY DEF StrictStaysStrict, ServedStrictly
  <2>7. AsksForWrongSeq(j) /\ (file.listeners = <<>> => file.method = "wrong_seq")
    BY <1>1 DEF AsksForWrongSeq
  <2>8. Len(runtimes) \in Nat
    BY <2>3
  <2>9. CASE j = Len(runtimes) + 1
    BY <2>2, <2>5, <2>6, <2>7, <2>9
  <2>10. CASE j \in 1 .. Len(runtimes)
    BY <2>6, <2>7, <2>10 DEF StrictStaysStrict, ServedStrictly
  <2> QED BY <2>6, <2>8, <2>9, <2>10
<1>5. UNCHANGED runtimes \/ Rebuild \/ \E i \in 1 .. RuntimeCount : BuildSingleRuntime(i)
  BY DEF StartupNext, LoadFails, PortsFail, NoEndpoints, LoadNormalized, ProbeEndpoint,
         ProbesDone, SettleFails, Settle, BuildFails, startupVars
<1> QED BY <1>2, <1>3, <1>4, <1>5

\* A listener that asks for wrong_seq, in any spelling, itself or by inheritance, and a file
\* without listeners that writes it in lowercase, is served by it and with an injector or
\* not at all, whatever configuration file was read.
THEOREM WrongSeqOrNothing == StartupSpec => []StrictStaysStrict
<1>1. StartupInit => StrictStaysStrict
  <2> SUFFICES ASSUME StartupInit PROVE StrictStaysStrict
    OBVIOUS
  <2>1. runtimes = <<>>
    BY Zenon DEF StartupInit
  <2> QED BY <2>1 DEF StrictStaysStrict
<1>2. Inv /\ CfgFollows /\ StrictStaysStrict /\ [StartupNext]_startupVars
        => (Inv /\ CfgFollows /\ StrictStaysStrict)'
  BY InvNext, FollowsNext, StrictNext
<1> QED BY InvInit, FollowsInit, <1>1, <1>2, PTL DEF StartupSpec

-----------------------------------------------------------------------------
(* What probing leaves, and why main ends                                    *)

All == EnabledEndpoints(Normalize(file).endpoints)

Up == {k \in 1 .. Len(All) : [of |-> k, ok |-> TRUE] \in ToSet(answers)}

\* All usable endpoints if none answered, else those that did, each once.
Narrowed(es) ==
    /\ DOMAIN es = 1 .. Len(es)
    /\ IF Up = {} THEN es = All
       ELSE Len(es) = Cardinality(Up) /\ ToSet(es) = {All[k] : k \in Up}

\* What the i-th server has in use.
Served(i, es) ==
    IF Normalize(file).listeners = <<>> THEN Narrowed(es)
    ELSE /\ i \in 1 .. Len(Normalize(file).listeners)
         /\ es = <<Upstream(Normalize(file).listeners[i])>>

ProbeInv ==
    /\ answers \in Seq([of : 1 .. Len(All), ok : BOOLEAN])
    /\ \A i, j \in 1 .. Len(answers) : answers[i].of = answers[j].of => i = j
    /\ stage = "load" => answers = <<>>
    /\ stage \in {"load", "probe", "settle"} => runtimes = <<>>
    /\ stage = "probe" => active = All
    /\ stage = "probe" \/ answers # <<>> => Len(All) > 1
    /\ stage \in {"settle", "build", "serving"} => Narrowed(active)
    /\ stage \in {"build", "serving"} => cfg.endpoints = active

ServedInv == \A i \in 1 .. Len(runtimes) : Served(i, runtimes[i].endpoints)

\* Each way to end leaves behind what led to it.
EndInv ==
    /\ found \in {"missing", "broken", "read"}
    /\ stage = "fatal" <=> fatal # ""
    /\ stage # "load" /\ stage # "fatal" => found = "read"
    /\ fatal \in {"", "load", "ports", "endpoints", "guardrails", "wrong_seq"}
    /\ fatal = "load" => found # "read"
    /\ fatal = "ports" => ~IsValidPort(file.port) \/ ~IsValidPort(file.cport)
    /\ fatal = "endpoints" => All = <<>> \/ (active = <<>> /\ Narrowed(active))
    /\ fatal = "guardrails" => /\ cfg = Normalize(file) /\ Narrowed(active)
                               /\ ~ValidateSNIGuardrails(Settled)
    /\ fatal = "wrong_seq" => /\ cfg.listeners = Normalize(file).listeners
                              /\ cfg.method = Kept(file.method)
                              /\ cfg.endpoints = active /\ Narrowed(active)
                              /\ RuntimeMethod(Len(runtimes) + 1) = "wrong_seq"

\* NormalizeListeners leaves the endpoints alone.
LEMMA NormalizedListeners ==
    ASSUME NEW c \in Configs
    PROVE  LET l == NormalizeListeners(NormalizeScalars(c))
           IN IsConfig(l) /\ l.endpoints = c.endpoints
<1> DEFINE n == NormalizeScalars(c)
           filled == [i \in 1 .. Len(n.listeners) |-> FilledListener(n, n.listeners[i])]
<1>1. IsConfig(n) /\ n.endpoints = c.endpoints
  <2>1. IsConfig(c)
    BY ConfigsAreConfigs
  <2> DEFINE lb == IF c.lb \in LoadBalanceModes THEN c.lb ELSE "failover"
             retries == IF c.auto /\ c.retries <= 0 THEN 2 ELSE c.retries
  <2>2. n = [[c EXCEPT !.lb = lb] EXCEPT !.retries = retries]
    BY DEF NormalizeScalars
  <2> HIDE DEF lb, retries, n
  <2> QED BY <2>1, <2>2 DEF IsConfig
<1>2. NormalizeListeners(n) =
        IF n.listeners = <<>> THEN n
        ELSE [n EXCEPT !.listeners = filled, !.port = filled[1].port, !.ip = filled[1].ip,
                       !.cport = filled[1].cport, !.sni = filled[1].sni]
  BY DEF NormalizeListeners
<1> HIDE DEF n, filled
<1>3. IsConfig(NormalizeListeners(n)) /\ NormalizeListeners(n).endpoints = c.endpoints
  BY <1>1, <1>2 DEF IsConfig
<1> QED BY <1>3 DEF n

\* Normalize yields at least one endpoint.
LEMMA NormalizedEndpoints ==
    ASSUME NEW c \in Configs
    PROVE  (\E T : Normalize(c).endpoints \in Seq(T)) /\ Normalize(c).endpoints # <<>>
<1> DEFINE l == NormalizeListeners(NormalizeScalars(c))
           own == [ip |-> l.ip, port |-> l.cport, sni |-> l.sni, enabled |-> TRUE]
           given == IF l.endpoints = <<>> THEN <<own>> ELSE l.endpoints
           es == [i \in 1 .. Len(given) |-> FilledEndpoint(l, given[i])]
<1>1. IsConfig(l) /\ l.endpoints = c.endpoints
  BY NormalizedListeners
<1>2. c.endpoints \in Seq(Endpoints)
  BY DEF Configs
<1>3. Len(given) \in Nat /\ Len(given) # 0
  <2> HIDE DEF own, l
  <2>1. CASE l.endpoints = <<>>
    BY <2>1
  <2>2. CASE l.endpoints # <<>>
    BY <1>1, <1>2, <2>2
  <2> QED BY <2>1, <2>2
<1> HIDE DEF given
<1>4. es \in Seq({es[i] : i \in 1 .. Len(given)}) /\ Len(es) = Len(given)
  <2>1. \A i \in 1 .. Len(given) : es[i] \in {es[j] : j \in 1 .. Len(given)}
    OBVIOUS
  <2>2. es = [i \in 1 .. Len(given) |-> es[i]]
    OBVIOUS
  <2> HIDE DEF es
  <2> QED BY <1>3, <2>1, <2>2
<1>5. es # <<>>
  <2> HIDE DEF es
  <2> QED BY <1>3, <1>4
<1>6. Normalize(c).endpoints = es
  <2> USE DEF given
  <2> HIDE DEF l
  <2>1. IsConfig(l)
    BY <1>1
  <2>2. NormalizeEndpoints(l).endpoints = es
    <3> HIDE DEF own
    <3>1. NormalizeEndpoints(l) =
            IF l.listeners # <<>> THEN [l EXCEPT !.endpoints = es]
            ELSE [l EXCEPT !.endpoints = es, !.ip = es[1].ip, !.cport = es[1].port, !.sni = es[1].sni]
      BY DEF NormalizeEndpoints, own
    <3> HIDE DEF es, given
    <3> QED BY <2>1, <3>1 DEF IsConfig
  <2> QED BY <2>2 DEF Normalize, l
<1> HIDE DEF es
<1> QED BY <1>4, <1>5, <1>6

LEMMA AllIsSequence ==
    ASSUME file \in Configs
    PROVE  (\E T : All \in Seq(T)) /\ Len(All) \in Nat
<1> DEFINE es == Normalize(file).endpoints
           places == {i \in 1 .. Len(es) : Usable(es[i])}
<1>1. PICK T : es \in Seq(T)
  BY NormalizedEndpoints
<1>2. All = ElementsAt(es, places)
  BY DEF All, EnabledEndpoints
<1>3. places \in SUBSET (1 .. Len(es))
  OBVIOUS
<1> HIDE DEF es, places
<1>4. ElementsAt(es, places) \in Seq(T)
  BY <1>1, <1>3, Collected
<1> QED BY <1>2, <1>4

LEMMA AnswersKept ==
    ASSUME UNCHANGED <<file, answers>>
    PROVE  All' = All /\ Up' = Up
<1>1. All' = All
  BY DEF All
<1> QED BY <1>1 DEF Up

\* The answers that came in, each of another endpoint.
Asked == /\ file \in Configs
         /\ answers \in Seq([of : 1 .. Len(All), ok : BOOLEAN])
         /\ \A i, j \in 1 .. Len(answers) : answers[i].of = answers[j].of => i = j

LEMMA AnswerIsYes ==
    ASSUME NEW A, NEW r \in [of : A, ok : BOOLEAN]
    PROVE  r.ok <=> r = [of |-> r.of, ok |-> TRUE]
<1>1. r = [of |-> r.of, ok |-> r.ok] /\ r.ok \in BOOLEAN
  OBVIOUS
<1>2. ASSUME r.ok PROVE r = [of |-> r.of, ok |-> TRUE]
  <2>1. r.ok = TRUE
    BY <1>1, <1>2
  <2> QED BY <1>1, <2>1
<1>3. ASSUME r = [of |-> r.of, ok |-> TRUE] PROVE r.ok
  BY <1>3
<1> QED BY <1>2, <1>3

\* Whatever the order and the outcome of the probes, what is left is narrowed.
LEMMA ProbingNarrows ==
    ASSUME Asked, active = All
    PROVE  Narrowed(IF Reachable = <<>> THEN active
                    ELSE [i \in 1 .. Len(Reachable) |-> active[Reachable[i].of]])
<1> DEFINE P == {i \in 1 .. Len(answers) : answers[i].ok}
           R == Reachable
           left == [i \in 1 .. Len(R) |-> active[R[i].of]]
           Rec == [of : 1 .. Len(All), ok : BOOLEAN]
<1>1. answers \in Seq(Rec) /\ P \in SUBSET (1 .. Len(answers)) /\ Len(answers) \in Nat
  BY DEF Asked
<1>2. \A i \in 1 .. Len(answers) : answers[i] \in Rec
  <2> HIDE DEF Rec, P
  <2> QED BY <1>1
<1>3. R = ElementsAt(answers, P)
  BY DEF Reachable
<1> HIDE DEF R
<1>4. /\ R \in Seq(Rec) /\ Len(R) = Cardinality(P) /\ Len(R) \in Nat
      /\ ToSet(R) = {answers[i] : i \in P}
      /\ P # {} => R # <<>>
  <2> HIDE DEF Rec, P
  <2>1. /\ ElementsAt(answers, P) \in Seq(Rec) /\ Len(ElementsAt(answers, P)) = Cardinality(P)
        /\ ToSet(ElementsAt(answers, P)) = {answers[i] : i \in P}
        /\ P # {} => ElementsAt(answers, P) # <<>>
    BY <1>1, Collected
  <2> QED BY <1>3, <2>1
<1>5. \A i \in 1 .. Len(answers) :
        i \in P <=> answers[i] = [of |-> answers[i].of, ok |-> TRUE]
  <2> SUFFICES ASSUME NEW i \in 1 .. Len(answers)
               PROVE  i \in P <=> answers[i] = [of |-> answers[i].of, ok |-> TRUE]
    OBVIOUS
  <2>1. answers[i] \in Rec
    BY <1>2
  <2>2. answers[i].ok <=> answers[i] = [of |-> answers[i].of, ok |-> TRUE]
    BY <2>1, AnswerIsYes
  <2> QED BY <2>2
<1>6. Up = {answers[i].of : i \in P}
  <2>1. ASSUME NEW k \in Up PROVE k \in {answers[i].of : i \in P}
    <3>0. ToSet(answers) = {answers[i] : i \in 1 .. Len(answers)}
      BY <1>1 DEF ToSet
    <3>1. PICK i \in 1 .. Len(answers) : answers[i] = [of |-> k, ok |-> TRUE]
      BY <2>1, <3>0 DEF Up
    <3> QED BY <3>1
  <2>2. ASSUME NEW i \in P PROVE answers[i].of \in Up
    <3>1. answers[i] = [of |-> answers[i].of, ok |-> TRUE] /\ i \in 1 .. Len(answers)
      BY <1>5, <2>2
    <3>2. answers[i] \in ToSet(answers)
      BY <1>1, <3>1 DEF ToSet
    <3>3. answers[i].of \in 1 .. Len(All)
      BY <1>2, <3>1
    <3> QED BY <3>1, <3>2, <3>3, Zenon DEF Up
  <2>3. \A v \in {answers[i].of : i \in P} : v \in Up
    BY <2>2
  <2> QED BY <2>1, <2>3, Zenon
<1>7. CASE P = {}
  <2>1. Up = {}
    BY <1>6, <1>7
  <2>2. Len(R) = 0
    BY <1>4, <1>7, FS_EmptySet
  <2>3. R = <<>>
    BY <1>4, <2>2
  <2>4. DOMAIN active = 1 .. Len(active)
    BY AllIsSequence DEF Asked
  <2> QED BY <2>1, <2>3, <2>4 DEF Narrowed, R
<1>8. CASE P # {}
  <2>1. R # <<>> /\ Up # {}
    BY <1>4, <1>6, <1>8
  <2>2. Len(left) = Len(R) /\ DOMAIN left = 1 .. Len(left)
    BY <1>4
  <2>3. Cardinality(P) = Cardinality(Up)
    <3>1. IsFiniteSet(P)
      BY <1>1, Counts
    <3> DEFINE f == [i \in P |-> answers[i].of]
    <3>2. f \in Bijection(P, Up)
      <4>1. f \in [P -> Up]
        BY <1>6
      <4>2. \A i, j \in P : f[i] = f[j] => i = j
        BY DEF Asked
      <4>3. \A v \in Up : \E i \in P : f[i] = v
        BY <1>6
      <4> HIDE DEF f
      <4> QED BY <4>1, <4>2, <4>3 DEF Bijection, Injection, Surjection, IsInjective
    <3>3. ExistsBijection(P, Up)
      BY <3>2 DEF ExistsBijection
    <3> HIDE DEF P
    <3> QED BY <3>1, <3>3, FS_Bijection
  <2>4. ToSet(left) = {All[k] : k \in Up}
    <3>1. ToSet(left) = {left[i] : i \in 1 .. Len(R)}
      BY <1>4 DEF ToSet
    <3>2. ToSet(R) = {R[i] : i \in 1 .. Len(R)}
      BY <1>4, SMTT(30) DEF ToSet
    <3>3. ASSUME NEW i \in 1 .. Len(R) PROVE left[i] \in {All[k] : k \in Up}
      <4>1. PICK j \in P : R[i] = answers[j]
        BY <1>4, <3>2
      <4>2. R[i].of \in Up
        BY <1>6, <4>1
      <4> QED BY <4>2
    <3>4. ASSUME NEW k \in Up PROVE All[k] \in {left[i] : i \in 1 .. Len(R)}
      <4>1. PICK j \in P : answers[j].of = k
        BY <1>6
      <4>2. answers[j] \in {R[i] : i \in 1 .. Len(R)}
        BY <1>4, <3>2, <4>1
      <4>3. PICK i \in 1 .. Len(R) : R[i] = answers[j]
        BY <4>2
      <4>4. left[i] = All[k]
        BY <4>1, <4>3
      <4> QED BY <4>4
    <3>5. \A v \in {All[k] : k \in Up} : v \in {left[i] : i \in 1 .. Len(R)}
      BY <3>4
    <3>6. \A v \in {left[i] : i \in 1 .. Len(R)} : v \in {All[k] : k \in Up}
      BY <3>3
    <3> QED BY <3>1, <3>5, <3>6, Zenon
  <2>5. Narrowed(left)
    <3> HIDE DEF left, P
    <3> QED BY <1>4, <2>1, <2>2, <2>3, <2>4 DEF Narrowed
  <2> QED BY <2>1, <2>5 DEF R
<1> QED BY <1>7, <1>8

LEMMA NotProbed == ASSUME file \in Configs, answers = <<>> PROVE Narrowed(All)
<1>1. ToSet(answers) = {}
  BY DEF ToSet
<1>2. DOMAIN All = 1 .. Len(All)
  BY AllIsSequence
<1> QED BY <1>1, <1>2 DEF Narrowed, Up

\* One more endpoint answers, and none has twice.
LEMMA OneMoreAnswer ==
    ASSUME Asked, active = All, NEW i \in 1 .. Len(active), ProbeEndpoint(i)
    PROVE  Asked'
<1> DEFINE Rec == [of : 1 .. Len(All), ok : BOOLEAN]
<1>1. PICK ok \in BOOLEAN : answers' = Append(answers, [of |-> i, ok |-> ok])
  BY DEF ProbeEndpoint
<1>2. answers \in Seq(Rec) /\ Len(answers) \in Nat /\ [of |-> i, ok |-> ok] \in Rec
  BY DEF Asked
<1>3. \A j \in 1 .. Len(answers) : answers[j].of # i
  BY DEF ProbeEndpoint, Probed
<1>4. All' = All /\ file' = file
  BY DEF ProbeEndpoint, All
<1> DEFINE r == [of |-> i, ok |-> ok]
<1>5. r.of = i
  OBVIOUS
<1> HIDE DEF Rec, r
<1>6. /\ answers' \in Seq(Rec) /\ Len(answers') = Len(answers) + 1
      /\ \A j \in 1 .. Len(answers) : answers'[j] = answers[j]
      /\ answers'[Len(answers) + 1] = r
  BY <1>1, <1>2, AppendProperties DEF r
<1>7. ASSUME NEW j \in 1 .. Len(answers'), NEW k \in 1 .. Len(answers'),
             answers'[j].of = answers'[k].of
      PROVE  j = k
  <2>1. \A m \in 1 .. Len(answers') : m \in 1 .. Len(answers) \/ m = Len(answers) + 1
    BY <1>2, <1>6
  <2>2. \A m \in 1 .. Len(answers) : answers'[m].of = answers[m].of /\ answers[m].of # i
    BY <1>3, <1>6
  <2>3. answers'[Len(answers) + 1].of = i
    BY <1>5, <1>6
  <2>4. \A m, n \in 1 .. Len(answers) : answers[m].of = answers[n].of => m = n
    BY DEF Asked
  <2> QED BY <1>7, <2>1, <2>2, <2>3, <2>4
<1> QED BY <1>4, <1>6, <1>7 DEF Asked, Rec

LEMMA ProbeNext ==
    ASSUME Inv, CfgFollows, ProbeInv, [StartupNext]_startupVars
    PROVE  ProbeInv'
<1>1. Asked /\ (\E T : All \in Seq(T)) /\ Len(All) \in Nat
  BY AllIsSequence DEF Inv, ProbeInv, Asked
<1>2. ASSUME UNCHANGED <<file, answers>> PROVE All' = All /\ Up' = Up
  BY <1>2, AnswersKept
<1> HIDE DEF All
<1> USE DEF ProbeInv
<1>3. CASE LoadFails \/ PortsFail \/ NoEndpoints \/ SettleFails
         \/ \E i \in 1 .. RuntimeCount : BuildFails(i)
  <2>1. UNCHANGED <<file, answers, active, runtimes, cfg>> /\ stage' = "fatal" /\ stage # "probe"
    BY <1>3 DEF LoadFails, PortsFail, NoEndpoints, SettleFails, BuildFails, Die
  <2> QED BY <1>2, <2>1
<1>4. CASE LoadNormalized
  <2>1. /\ UNCHANGED <<file, answers, runtimes>> /\ answers = <<>> /\ runtimes = <<>>
        /\ active' = All /\ stage' \in {"probe", "settle"}
        /\ stage' = "probe" => Len(active') > 1
    BY <1>4 DEF LoadNormalized, All
  <2>2. Narrowed(All)
    BY <2>1, NotProbed DEF Inv
  <2>3. Narrowed(active)'
    BY <1>2, <2>1, <2>2 DEF Narrowed
  <2> QED BY <1>2, <2>1, <2>3
<1>5. ASSUME NEW i \in 1 .. Len(active), ProbeEndpoint(i) PROVE ProbeInv'
  <2>1. stage = "probe" /\ UNCHANGED <<file, stage, cfg, active, runtimes>>
    BY <1>5 DEF ProbeEndpoint
  <2>2. Asked'
    BY <1>1, <1>5, <2>1, OneMoreAnswer
  <2>3. All' = All
    BY <2>1 DEF All
  <2> QED BY <2>1, <2>2, <2>3 DEF Asked
<1>6. CASE ProbesDone
  <2>1. UNCHANGED <<file, answers, runtimes>> /\ stage = "probe" /\ stage' = "settle"
    BY <1>6 DEF ProbesDone
  <2>2. active' = IF Reachable = <<>> THEN active
                  ELSE [i \in 1 .. Len(Reachable) |-> active[Reachable[i].of]]
    BY <1>6 DEF ProbesDone
  <2>3. Narrowed(active')
    BY <1>1, <2>1, <2>2, ProbingNarrows
  <2>4. Narrowed(active)'
    BY <1>2, <2>1, <2>3 DEF Narrowed
  <2> QED BY <1>2, <2>1, <2>4
<1>7. CASE Settle
  <2>1. /\ UNCHANGED <<file, answers, active>> /\ stage = "settle" /\ stage' = "build"
        /\ cfg' = Settled /\ IsConfig(cfg)
    BY <1>7 DEF Settle, Inv
  <2>2. Settled.endpoints = active
    BY <2>1 DEF Settled, IsConfig
  <2>3. Narrowed(active)'
    BY <1>2, <2>1 DEF Narrowed
  <2> QED BY <1>2, <2>1, <2>2, <2>3
<1>8. CASE Rebuild \/ \E i \in 1 .. RuntimeCount : BuildSingleRuntime(i)
  <2>1. /\ UNCHANGED <<file, answers, active, cfg>> /\ stage \in {"build", "serving"}
        /\ stage' \in {"build", "serving"}
    BY <1>8 DEF Rebuild, BuildSingleRuntime
  <2>2. Narrowed(active)'
    BY <1>2, <2>1 DEF Narrowed
  <2> QED BY <1>2, <2>1, <2>2
<1>9. CASE UNCHANGED startupVars
  <2>1. UNCHANGED <<file, answers, active, cfg, stage, runtimes>>
    BY <1>9 DEF startupVars
  <2>2. Narrowed(active)' <=> Narrowed(active)
    BY <1>2, <2>1 DEF Narrowed
  <2> QED BY <1>2, <2>1, <2>2
<1> QED BY <1>3, <1>4, <1>5, <1>6, <1>7, <1>8, <1>9 DEF StartupNext

LEMMA ServedNext ==
    ASSUME Inv, CfgFollows, ProbeInv, ServedInv, [StartupNext]_startupVars
    PROVE  ServedInv'
<1>1. UNCHANGED file
  BY DEF StartupNext, LoadFails, PortsFail, NoEndpoints, LoadNormalized, ProbeEndpoint,
         ProbesDone, SettleFails, Settle, BuildFails, BuildSingleRuntime, Rebuild, startupVars
<1>2. ASSUME UNCHANGED <<answers, runtimes>> PROVE ServedInv'
  <2>1. All' = All /\ Up' = Up
    BY <1>1, <1>2, AnswersKept
  <2> QED BY <1>1, <1>2, <2>1 DEF ServedInv, Served, Narrowed
<1>3. ASSUME Len(runtimes') = 0 PROVE ServedInv'
  BY <1>3 DEF ServedInv
<1>4. ASSUME NEW i \in 1 .. RuntimeCount, BuildSingleRuntime(i) PROVE ServedInv'
  <2>1. PICK injector \in {FALSE, WantsInjector(i)} :
            runtimes' = Append(runtimes, NewRuntime(i, injector))
    BY <1>4, Zenon DEF BuildSingleRuntime, NewRuntime
  <2>2. stage = "build" /\ i = Len(runtimes) + 1 /\ UNCHANGED answers
    BY <1>4 DEF BuildSingleRuntime
  <2>3. PICK S : runtimes \in Seq(S)
    BY DEF Inv
  <2> DEFINE r == NewRuntime(i, injector)
  <2>4. r.endpoints = RuntimeEndpoints(i)
    BY DEF NewRuntime
  <2>5. Served(i, RuntimeEndpoints(i))
    <3>1. cfg.listeners = Normalize(file).listeners /\ cfg.endpoints = active /\ Narrowed(active)
      BY <2>2 DEF CfgFollows, ProbeInv
    <3>2. CASE cfg.listeners = <<>>
      BY <3>1, <3>2 DEF Served, RuntimeEndpoints
    <3>3. CASE cfg.listeners # <<>>
      BY <3>1, <3>3 DEF Served, RuntimeEndpoints, RuntimeCount
    <3> QED BY <3>2, <3>3
  <2> HIDE DEF r
  <2>6. /\ Len(runtimes') = Len(runtimes) + 1
        /\ \A j \in 1 .. Len(runtimes) : runtimes'[j] = runtimes[j]
        /\ runtimes'[Len(runtimes) + 1] = r
    <3>1. runtimes' = Append(runtimes, r)
      BY <2>1 DEF r
    <3>2. /\ Len(Append(runtimes, r)) = Len(runtimes) + 1
          /\ \A j \in 1 .. Len(runtimes) : Append(runtimes, r)[j] = runtimes[j]
          /\ Append(runtimes, r)[Len(runtimes) + 1] = r
      BY <2>3, AppendedSequence
    <3> QED BY <3>1, <3>2, Zenon
  <2>7. \A j \in 1 .. Len(runtimes') : Served(j, runtimes'[j].endpoints)
    <3> SUFFICES ASSUME NEW j \in 1 .. Len(runtimes') PROVE Served(j, runtimes'[j].endpoints)
      OBVIOUS
    <3>1. Len(runtimes) \in Nat
      BY <2>3
    <3>2. CASE j = Len(runtimes) + 1
      BY <2>2, <2>4, <2>5, <2>6, <3>2
    <3>3. CASE j \in 1 .. Len(runtimes)
      BY <2>6, <3>3 DEF ServedInv
    <3> QED BY <2>6, <3>1, <3>2, <3>3
  <2>8. All' = All /\ Up' = Up
    BY <1>1, <2>2, AnswersKept
  <2> QED BY <1>1, <2>7, <2>8 DEF ServedInv, Served, Narrowed
<1>5. CASE Rebuild
  <2>1. Len(runtimes') = 0
    BY <1>5 DEF Rebuild
  <2> QED BY <1>3, <2>1
<1>6. ASSUME NEW i \in 1 .. Len(active), ProbeEndpoint(i) PROVE ServedInv'
  <2>1. runtimes' = runtimes /\ runtimes = <<>>
    BY <1>6 DEF ProbeEndpoint, ProbeInv
  <2>2. Len(runtimes') = 0
    BY <2>1
  <2> QED BY <1>3, <2>2
<1>7. \/ UNCHANGED <<answers, runtimes>> \/ Rebuild
      \/ \E i \in 1 .. RuntimeCount : BuildSingleRuntime(i)
      \/ \E i \in 1 .. Len(active) : ProbeEndpoint(i)
  BY DEF StartupNext, LoadFails, PortsFail, NoEndpoints, LoadNormalized, ProbesDone,
         SettleFails, Settle, BuildFails, startupVars
<1> QED BY <1>2, <1>4, <1>5, <1>6, <1>7

LEMMA EndNext ==
    ASSUME Inv, CfgFollows, ProbeInv, EndInv, [StartupNext]_startupVars
    PROVE  EndInv'
<1> USE DEF EndInv, Die
<1>1. CASE LoadFails
  BY <1>1 DEF LoadFails
<1>2. CASE PortsFail \/ NoEndpoints
  BY <1>2 DEF PortsFail, NoEndpoints, All
<1>3. CASE SettleFails
  <2>1. /\ UNCHANGED <<found, file, cfg, active, answers, runtimes>> /\ stage = "settle"
        /\ stage' = "fatal" /\ fatal' = "guardrails" /\ ~ValidateSNIGuardrails(Settled)
    BY <1>3 DEF SettleFails
  <2>2. Narrowed(active)' /\ cfg' = Normalize(file)'
    BY <2>1, AnswersKept, ZenonT(60) DEF ProbeInv, CfgFollows, Narrowed
  <2>3. Settled' = Settled
    BY <2>1 DEF Settled
  <2>4. ValidateSNIGuardrails(Settled)' = ValidateSNIGuardrails(Settled)
    BY <2>3 DEF ValidateSNIGuardrails, NamesUsed
  <2> QED BY <2>1, <2>2, <2>4
<1>4. ASSUME NEW i \in 1 .. RuntimeCount, BuildFails(i) PROVE EndInv'
  <2>1. /\ UNCHANGED <<found, file, cfg, active, answers, runtimes>> /\ stage = "build"
        /\ stage' = "fatal" /\ i = Len(runtimes) + 1
        /\ IF RuntimeEndpoints(i) = <<>> THEN fatal' = "endpoints"
           ELSE fatal' = "wrong_seq" /\ RuntimeMethod(i) = "wrong_seq"
    BY <1>4 DEF BuildFails
  <2>2. Narrowed(active)' /\ cfg'.endpoints = active'
    <3>1. Narrowed(active) /\ cfg.endpoints = active
      BY <2>1 DEF ProbeInv
    <3>2. All' = All /\ Up' = Up
      BY <2>1, AnswersKept
    <3> QED BY <2>1, <3>1, <3>2 DEF Narrowed
  <2>3. cfg'.listeners = Normalize(file').listeners /\ cfg'.method = Kept(file'.method)
    BY <2>1 DEF CfgFollows
  <2>4. CASE RuntimeEndpoints(i) = <<>>
    <3>1. cfg.listeners = <<>>
      <4> DEFINE u == Upstream(cfg.listeners[i])
      <4>1. cfg.listeners # <<>> => RuntimeEndpoints(i) = <<u>>
        BY DEF RuntimeEndpoints
      <4>2. <<u>> # <<>>
        <5> HIDE DEF u
        <5> QED OBVIOUS
      <4> QED BY <2>4, <4>1, <4>2
    <3>2. active' = <<>>
      BY <2>1, <2>2, <2>4, <3>1 DEF RuntimeEndpoints
    <3> QED BY <2>1, <2>2, <2>4, <3>2
  <2>5. CASE RuntimeEndpoints(i) # <<>>
    <3>1. RuntimeMethod(Len(runtimes) + 1)' = "wrong_seq"
      BY <2>1, <2>5 DEF RuntimeMethod
    <3> QED BY <2>1, <2>2, <2>3, <2>5, <3>1
  <2> QED BY <2>4, <2>5
<1>5. CASE UNCHANGED startupVars
  <2>1. UNCHANGED <<found, file, cfg, active, answers, runtimes, stage, fatal>>
    BY <1>5 DEF startupVars
  <2>2. All' = All /\ Narrowed(active)' = Narrowed(active) /\ Settled' = Settled
    BY <2>1, AnswersKept DEF Narrowed, Settled
  <2>3. ValidateSNIGuardrails(Settled)' = ValidateSNIGuardrails(Settled)
    BY <2>2 DEF ValidateSNIGuardrails, NamesUsed
  <2>4. RuntimeMethod(Len(runtimes) + 1)' = RuntimeMethod(Len(runtimes) + 1)
    BY <2>1 DEF RuntimeMethod
  <2> QED BY <2>1, <2>2, <2>3, <2>4
<1>6. ASSUME /\ stage # "fatal" /\ stage' # "fatal" /\ UNCHANGED <<found, fatal>>
             /\ stage = "load" => found = "read"
      PROVE  EndInv'
  BY <1>6
<1>7. \/ LoadNormalized \/ ProbesDone \/ Settle \/ Rebuild
      \/ \E i \in 1 .. RuntimeCount : BuildSingleRuntime(i)
      \/ \E i \in 1 .. Len(active) : ProbeEndpoint(i)
      => /\ stage # "fatal" /\ stage' # "fatal" /\ UNCHANGED <<found, fatal>>
         /\ stage = "load" => found = "read"
  BY DEF LoadNormalized, ProbesDone, Settle, Rebuild, BuildSingleRuntime, ProbeEndpoint
<1> QED BY <1>1, <1>2, <1>3, <1>4, <1>5, <1>6, <1>7 DEF StartupNext

LEMMA StartupInvariants == StartupSpec => [](Inv /\ CfgFollows /\ ProbeInv /\ ServedInv /\ EndInv)
<1>1. StartupInit => ProbeInv /\ ServedInv /\ EndInv
  <2> SUFFICES ASSUME StartupInit PROVE ProbeInv /\ ServedInv /\ EndInv
    OBVIOUS
  <2>1. answers = <<>> /\ runtimes = <<>> /\ stage = "load" /\ fatal = ""
    BY Zenon DEF StartupInit
  <2> DEFINE Rec == [of : 1 .. Len(All), ok : BOOLEAN]
  <2> HIDE DEF Rec
  <2>2. answers \in Seq(Rec) /\ Len(answers) = 0 /\ Len(runtimes) = 0
    BY <2>1, EmptySeq
  <2>3. (\A i \in 1 .. Len(answers) : FALSE) /\ (\A i \in 1 .. Len(runtimes) : FALSE)
    BY <2>2
  <2>4. stage # "probe" /\ stage \notin {"settle", "build", "serving"}
        /\ stage \notin {"build", "serving"} /\ stage # "fatal"
    BY <2>1
  <2>5. ProbeInv
    BY <2>1, <2>2, <2>3, <2>4, Zenon DEF ProbeInv, Rec
  <2>6. ServedInv
    BY <2>3, Zenon DEF ServedInv
  <2>7. EndInv
    <3>1. fatal = "" /\ stage = "load" /\ found \in {"missing", "broken", "read"}
      BY <2>1, Zenon DEF StartupInit
    <3> QED BY <3>1 DEF EndInv
  <2> QED BY <2>5, <2>6, <2>7
<1> QED BY InvInit, InvNext, FollowsInit, FollowsNext, <1>1, ProbeNext, ServedNext, EndNext, PTL
        DEF StartupSpec

\* Narrowing keeps endpoints of the file only, and never all of them out.
LEMMA NarrowedIsPart ==
    ASSUME file \in Configs, NEW es, Narrowed(es)
    PROVE  ToSet(es) \subseteq ToSet(All) /\ (es = <<>> => All = <<>>)
<1>1. PICK T : All \in Seq(T) /\ Len(All) \in Nat
  BY AllIsSequence
<1>2. CASE Up = {}
  BY <1>2 DEF Narrowed
<1>3. CASE Up # {}
  <2>1. ToSet(All) = {All[k] : k \in 1 .. Len(All)}
    BY <1>1 DEF ToSet
  <2>2. Up \in SUBSET (1 .. Len(All))
    BY DEF Up
  <2>3. Cardinality(Up) # 0
    BY <1>1, <1>3, <2>2, Counts, FS_EmptySet
  <2>4. es # <<>>
    BY <1>3, <2>3 DEF Narrowed
  <2>5. ToSet(es) = {All[k] : k \in Up}
    BY <1>3 DEF Narrowed
  <2>6. \A v \in {All[k] : k \in Up} : v \in {All[k] : k \in 1 .. Len(All)}
    BY <2>2
  <2> QED BY <2>1, <2>4, <2>5, <2>6, Zenon
<1> QED BY <1>2, <1>3

\* Whatever the file holds and however the probes end, a server has all usable endpoints,
\* or just those that answered, and probing alone never keeps main from serving.
THEOREM ProbingNeverEmpties == StartupSpec => []ProbingOnlyRemoves
<1>1. Inv /\ ServedInv /\ EndInv => ProbingOnlyRemoves
  <2> SUFFICES ASSUME Inv, ServedInv, EndInv PROVE ProbingOnlyRemoves
    OBVIOUS
  <2>1. fatal = "endpoints" => All = <<>>
    BY NarrowedIsPart DEF EndInv, Inv
  <2>2. ASSUME NEW i \in 1 .. Len(runtimes), file.listeners = <<>>
        PROVE  Narrowed(runtimes[i].endpoints)
    <3>1. Normalize(file).listeners = <<>>
      BY <2>2, NormalizeMethods DEF Inv
    <3> QED BY <3>1 DEF ServedInv, Served
  <2>3. ASSUME NEW i \in 1 .. Len(runtimes), file.listeners = <<>>
        PROVE  IF Up = {} THEN runtimes[i].endpoints = All
               ELSE /\ Len(runtimes[i].endpoints) = Cardinality(Up)
                    /\ ToSet(runtimes[i].endpoints) = {All[k] : k \in Up}
    BY <2>2, <2>3 DEF Narrowed
  <2> QED BY <2>1, <2>3, Zenon DEF ProbingOnlyRemoves, All, Up
<1> QED BY StartupInvariants, <1>1, PTL

\* Without listeners and endpoints of its own, a file keeps its top-level ports.
LEMMA PortsKept ==
    ASSUME NEW c \in Configs, c.listeners = <<>>, c.endpoints = <<>>
    PROVE  Normalize(c).port = c.port /\ Normalize(c).cport = c.cport
<1> DEFINE n == NormalizeScalars(c)
           own == [ip |-> n.ip, port |-> n.cport, sni |-> n.sni, enabled |-> TRUE]
           e == FilledEndpoint(n, own)
<1>1. /\ IsConfig(n) /\ n.port = c.port /\ n.cport = c.cport
      /\ n.listeners = c.listeners /\ n.endpoints = c.endpoints
  <2>1. IsConfig(c)
    BY ConfigsAreConfigs
  <2> DEFINE lb == IF c.lb \in LoadBalanceModes THEN c.lb ELSE "failover"
             retries == IF c.auto /\ c.retries <= 0 THEN 2 ELSE c.retries
  <2>2. n = [[c EXCEPT !.lb = lb] EXCEPT !.retries = retries]
    BY DEF NormalizeScalars
  <2> HIDE DEF lb, retries, n
  <2> QED BY <2>1, <2>2 DEF IsConfig
<1> HIDE DEF n
<1>2. e.port = n.cport
  BY DEF FilledEndpoint
<1>3. NormalizeListeners(n) = n
  BY <1>1 DEF NormalizeListeners
<1> DEFINE es == [i \in 1 .. 1 |-> FilledEndpoint(n, <<own>>[i])]
<1>4. es[1] = e
  <2> HIDE DEF own
  <2>1. <<own>>[1] = own
    OBVIOUS
  <2> QED BY <2>1
<1>5. NormalizeEndpoints(n) = [n EXCEPT !.endpoints = es, !.ip = es[1].ip, !.cport = es[1].port,
                                        !.sni = es[1].sni]
  <2>1. Len(<<own>>) = 1
    <3> HIDE DEF own
    <3> QED OBVIOUS
  <2> QED BY <1>1, <2>1 DEF NormalizeEndpoints
<1> HIDE DEF es, e
<1>6. NormalizeEndpoints(n).port = n.port /\ NormalizeEndpoints(n).cport = n.cport
  BY <1>1, <1>2, <1>4, <1>5 DEF IsConfig
<1> QED BY <1>1, <1>3, <1>6 DEF Normalize, n

\* What the doctor accepts, the guardrails accept when main comes to them: whatever the
\* probes left is part of what the doctor looked at.
LEMMA DoctorSatisfiesGuardrails ==
    ASSUME file \in Configs, DoctorAccepts(Normalize(file)), IsConfig(cfg),
           cfg = Normalize(file), Narrowed(active)
    PROVE  ValidateSNIGuardrails(Settled)
<1>1. /\ Settled.sni = cfg.sni /\ Settled.endpoints = active /\ Settled.listeners = cfg.listeners
  BY DEF Settled, IsConfig
<1>2. cfg.sni # "long"
  BY DEF DoctorAccepts
<1>3. \A i \in 1 .. Len(All) : All[i].sni # "long"
  BY DEF DoctorAccepts, All
<1>4. \A i \in 1 .. Len(cfg.listeners) : cfg.listeners[i].sni # "long"
  BY DEF DoctorAccepts
<1>5. PICK T : All \in Seq(T) /\ Len(All) \in Nat
  BY AllIsSequence
<1>6. \A i \in 1 .. Len(active) : active[i] \in ToSet(All)
  <2>1. ToSet(active) = {active[i] : i \in 1 .. Len(active)}
    BY DEF Narrowed, ToSet
  <2> QED BY <2>1, NarrowedIsPart
<1>7. ToSet(All) = {All[k] : k \in 1 .. Len(All)}
  BY <1>5 DEF ToSet
<1>8. \A i \in 1 .. Len(active) : active[i].sni # "long"
  BY <1>3, <1>6, <1>7
<1> QED BY <1>1, <1>2, <1>4, <1>8 DEF ValidateSNIGuardrails, NamesUsed

\* What the doctor accepts has one usable endpoint if it asks for wrong_seq, and main then
\* has nothing to probe.
LEMMA DoctorWantsOneEndpoint ==
    ASSUME file \in Configs, DoctorAccepts(Normalize(file)),
           Len(All) <= 1 => answers = <<>>, Narrowed(active),
           cfg.listeners = Normalize(file).listeners, cfg.method = Kept(file.method),
           cfg.endpoints = active, NEW i, RuntimeMethod(i) = "wrong_seq"
    PROVE  Len(RuntimeEndpoints(i)) = 1
<1>1. CASE cfg.listeners # <<>>
  <2> DEFINE u == Upstream(cfg.listeners[i])
  <2>1. RuntimeEndpoints(i) = <<u>>
    BY <1>1 DEF RuntimeEndpoints
  <2> HIDE DEF u
  <2> QED BY <2>1
<1>2. CASE cfg.listeners = <<>>
  <2>1. Normalize(file).method = file.method
    BY NormalizeMethods
  <2>2. file.method = "wrong_seq"
    BY <1>2 DEF RuntimeMethod, Kept, Methods, ToLower
  <2>3. Len(All) = 1
    BY <2>1, <2>2 DEF DoctorAccepts, All, ToLower
  <2>4. answers = <<>>
    BY <2>3
  <2>5. Up = {}
    <3>1. ToSet(answers) = {}
      BY <2>4 DEF ToSet
    <3> QED BY <3>1 DEF Up
  <2>6. RuntimeEndpoints(i) = All
    BY <1>2, <2>5 DEF RuntimeEndpoints, Narrowed
  <2> QED BY <2>3, <2>6
<1> QED BY <1>1, <1>2

\* A configuration that the control service accepts does not stop the core it starts, but
\* for a missing file, top-level ports that Normalize replaces, and raw injection that is
\* not available to a method that needs it.
THEOREM AcceptedFilesServe == StartupSpec => []ServiceVerdictHolds
<1>1. Inv /\ ProbeInv /\ EndInv => ServiceVerdictHolds
  <2> SUFFICES ASSUME Inv, ProbeInv, EndInv, stage = "fatal", ServiceAccepts
               PROVE  \/ fatal = "load" /\ found = "missing"
                      \/ fatal = "ports" /\ (file.listeners # <<>> \/ file.endpoints # <<>>)
                      \/ fatal = "wrong_seq" /\ Len(RuntimeEndpoints(Len(runtimes) + 1)) = 1
    BY DEF ServiceVerdictHolds
  <2>1. found # "broken" /\ DoctorAccepts(Normalize(file)) /\ file \in Configs /\ IsConfig(cfg)
    BY DEF ServiceAccepts, ServiceReads, ServiceConfig, Inv
  <2>2. CASE fatal = "load"
    BY <2>1, <2>2 DEF EndInv
  <2>3. CASE fatal = "ports"
    <3>1. IsValidPort(Normalize(file).port) /\ IsValidPort(Normalize(file).cport)
      BY <2>1 DEF DoctorAccepts
    <3> QED BY <2>1, <2>3, <3>1, PortsKept DEF EndInv
  <2>4. fatal # "endpoints"
    <3> SUFFICES ASSUME fatal = "endpoints" PROVE FALSE
      OBVIOUS
    <3>1. All = <<>>
      BY <2>1, NarrowedIsPart DEF EndInv
    <3>2. Normalize(file).endpoints # <<>>
      BY <2>1, NormalizedEndpoints
    <3> QED BY <2>1, <3>1, <3>2 DEF DoctorAccepts, All
  <2>5. fatal # "guardrails"
    BY <2>1, DoctorSatisfiesGuardrails DEF EndInv
  <2>6. CASE fatal = "wrong_seq"
    <3>1. Len(All) <= 1 => answers = <<>>
      BY <2>1, AllIsSequence DEF ProbeInv
    <3> QED BY <2>1, <2>6, <3>1, DoctorWantsOneEndpoint DEF EndInv
  <2>7. fatal # ""
    BY DEF EndInv
  <2> QED BY <2>2, <2>3, <2>4, <2>5, <2>6, <2>7 DEF EndInv
<1> QED BY StartupInvariants, <1>1, PTL
====
