---------------------------- MODULE Mapping_proofs ----------------------------
(***************************************************************************)
(* The sizes and CPUs a client is registered with, and which settings a    *)
(* load obeys: proofs for every width of a word, every host, every file    *)
(* and annotation, and every OCI specification.                            *)
(***************************************************************************)
EXTENDS Mapping, TLAPS

\* Where the files of a load come from.
Loading ==
    /\ place \in Places \cup {Forgotten}
    /\ anno \in Annotations
    /\ files \in Seq(Files) /\ at \in Nat
    /\ stage \in {"idle", "dead"} => at = 0
    /\ stage # "serving" => conf = NoConfig /\ client = NoClient

\* What there is of a configuration was made of some specification; the client is
\* that of the configuration.
Configured ==
    conf.made => /\ conf.shares \in Nat
                 /\ conf.threshold = calculateClientMemThreshold(
                        IF conf.limit # 0 THEN conf.limit ELSE conf.reservation)
Registered == client.made => conf.made /\ client = createMicaClientConf(conf)

IInv == LoadTypeOK /\ Loading /\ TypeOK /\ ReservationWithinLimit /\ Configured /\ Registered

-----------------------------------------------------------------------------
\* Arithmetic.

LEMMA Remainder == ASSUME NEW v \in Int, NEW w \in Nat, w > 0 PROVE v % w \in 0 .. w - 1
    BY SMT

LEMMA Quotient == ASSUME NEW v \in Int, NEW w \in Nat, w > 0 PROVE v \div w \in Int
    BY SMT

\* A quarter of the shares, kept within the weights of Xen.
LEMMA Quarter ==
    ASSUME NEW n \in Nat
    PROVE  /\ ShareToWeight(n) \in 1 .. MaxWeight
           /\ n \in 4 .. 4 * MaxWeight => n - 4 * ShareToWeight(n) \in 0 .. 3
<1>1. /\ n \div 4 \in Int /\ n \div 4 >= 0
      /\ 4 * (n \div 4) <= n /\ n - 4 * (n \div 4) <= 3
    BY SMT
<1>2. MaxWeight \in Int /\ MaxWeight >= 256
    BY DEF MaxWeight
<1>3. n \in 4 .. 4 * MaxWeight => n \div 4 \in 1 .. MaxWeight
    BY <1>1, <1>2
<1>4. CASE n = 0
    BY <1>2, <1>4 DEF ShareToWeight
<1>5. CASE n # 0
  <2>1. ShareToWeight(n) = Between(n \div 4, 1, MaxWeight)
      BY <1>5 DEF ShareToWeight
  <2>2. \A w \in Int : Between(w, 1, MaxWeight) \in 1 .. MaxWeight
                       /\ (w \in 1 .. MaxWeight => Between(w, 1, MaxWeight) = w)
      BY <1>2 DEF Between
  <2> QED
      BY <1>1, <1>2, <1>3, <2>1, <2>2
<1> QED
    BY <1>4, <1>5

\* Doubling neither overflows nor sinks below the memory, but for the last value.
LEMMA Doubling ==
    ASSUME NEW m \in Counts
    PROVE  /\ calculateClientMemThreshold(m) \in Counts
           /\ m <= calculateClientMemThreshold(m) \/ m = Word - 1
           /\ m # 0 => calculateClientMemThreshold(m) # 0
    BY WordAssumption DEF calculateClientMemThreshold, Counts, InitMem

-----------------------------------------------------------------------------
\* The settings.

LEMMA RawOf == ASSUME NEW f \in Files PROVE ParseINI(f) \in Raw
<1>1. Nothing \in Raw
    BY WordAssumption DEF Nothing, Raw, Numbers, Flags, Absent
<1> QED
    BY <1>1, FilesAssumption DEF ParseINI

RuntimeConfig ==
    [vcpus : 1 .. Word - 1, min : LowMem .. Word - 1,
     static : BOOLEAN, shared : BOOLEAN, dom0 : BOOLEAN]

LEMMA Defaults == NewRuntimeConfig \in RuntimeConfig
    BY WordAssumption DEF NewRuntimeConfig, RuntimeConfig, DefaultVcpus, InitMem, LowMem

\* What the setters make of any text.
LEMMA Setters ==
    ASSUME NEW v \in Numbers
    PROVE  SetCount(v) \in 1 .. Word - 1 /\ SetMemory(v) \in LowMem .. Word - 1
    BY WordAssumption DEF Numbers, SetCount, SetMemory, memoryOutOfRange,
       Absent, Bad, Over, DefaultVcpus, LowMem, InitMem

LEMMA Converted ==
    ASSUME NEW r \in RuntimeConfig, NEW raw \in Raw
    PROVE  convertRawConfig(r, raw) \in RuntimeConfig
<1>1. raw.vcpus \in Numbers /\ raw.min \in Numbers
    BY DEF Raw
<1>2. SetCount(raw.vcpus) \in 1 .. Word - 1 /\ SetMemory(raw.min) \in LowMem .. Word - 1
    BY <1>1, Setters
<1>3. /\ SetFlag(raw.static) \in BOOLEAN
      /\ KeepFlag(r.shared, raw.shared) \in BOOLEAN
      /\ KeepFlag(r.dom0, raw.dom0) \in BOOLEAN
    BY DEF SetFlag, KeepFlag, RuntimeConfig
<1> QED
    BY <1>2, <1>3 DEF convertRawConfig, RuntimeConfig

LEMMA Overlaid ==
    ASSUME NEW r \in RuntimeConfig, NEW a \in Annotations
    PROVE  ParseRuntimeConfigFromAnno(r, a) \in RuntimeConfig
<1>1. a.vcpus \in Numbers
    BY AnnotationsAssumption
<1>2. SetCount(a.vcpus) \in 1 .. Word - 1
    BY <1>1, Setters
<1>3. KeepFlag(r.dom0, a.dom0) \in BOOLEAN
    BY DEF KeepFlag, RuntimeConfig
<1> QED
    BY <1>2, <1>3 DEF ParseRuntimeConfigFromAnno, RuntimeConfig

\* A file that is named exists in the list of the place that names it.
LEMMA NamedFile ==
    ASSUME Loading, stage = "idle", ByAnnotation \/ ByOptions \/ ByEnv
    PROVE  Named \in Files
<1>1. place \in Places
    BY DEF Loading, ByAnnotation, ByOptions, ByEnv, Forgotten, Unset
<1>2. /\ place.anno \in Place /\ place.options \in Place /\ place.env \in Place
      /\ place.anno.set => place.anno.files # <<>>
      /\ place.env.set => place.env.files # <<>>
    BY <1>1, PlacesAssumption
<1>3. ASSUME NEW p \in Place, p.files # <<>> PROVE p.files[1] \in Files
    BY <1>3 DEF Place
<1> QED
    BY <1>2, <1>3 DEF Named, ByAnnotation, ByOptions, ByEnv

LEMMA DiscoveredFiles == ASSUME Loading PROVE Discovered \in Seq(Files)
<1>1. \A p \in Places : p.dir.files \in Seq(Files) /\ p.dropin.files \in Seq(Files)
                        /\ p.default.files \in Seq(Files)
    BY PlacesAssumption DEF Place
<1>2. /\ Forgotten.dir.files \in Seq(Files) /\ Forgotten.dropin.files \in Seq(Files)
      /\ Forgotten.default.files \in Seq(Files)
  <2>1. <<>> \in Seq(Files)
      OBVIOUS
  <2> QED
      BY <2>1 DEF Forgotten, Unset
<1>3. place.dir.files \in Seq(Files) /\ place.dropin.files \in Seq(Files)
      /\ place.default.files \in Seq(Files)
  <2>1. CASE place \in Places
      BY <1>1, <2>1
  <2>2. CASE place = Forgotten
      BY <1>2, <2>2
  <2>3. place \in Places \/ place = Forgotten
      BY DEF Loading
  <2> QED
      BY <2>1, <2>2, <2>3
<1>4. ASSUME NEW p, p.files \in Seq(Files), NEW below \in Seq(Files)
      PROVE  FilesOf(p, below) \in Seq(Files)
    BY <1>4 DEF FilesOf
<1>5. FilesOf(place.default, <<>>) \in Seq(Files)
  <2>1. <<>> \in Seq(Files)
      OBVIOUS
  <2> QED
      BY <1>3, <2>1 DEF FilesOf
<1>6. FilesOf(place.dropin, FilesOf(place.default, <<>>)) \in Seq(Files)
    BY <1>3, <1>4, <1>5
<1> QED
    BY <1>3, <1>4, <1>6 DEF Discovered

-----------------------------------------------------------------------------
LEMMA Initially == Init => IInv
    BY Defaults DEF Init, LoadInit, Fresh, IInv, LoadTypeOK, RuntimeConfig, Loading, TypeOK,
       ReservationWithinLimit, Configured, Registered, NoConfig, NoClient

\* A step of the load leaves the container alone.
LEMMA LoadKeeps == ASSUME IInv, Load PROVE IInv'
<1> USE DEF IInv
<1>1. UNCHANGED <<conf, client>>
    BY DEF Load
<1>2. ReservationWithinLimit' /\ Configured' /\ Registered'
    BY <1>1 DEF ReservationWithinLimit, Configured, Registered
<1>3. (LoadTypeOK /\ Loading)' => IInv'
    BY <1>1, <1>2 DEF TypeOK
<1>4. rc \in RuntimeConfig
    BY DEF LoadTypeOK, RuntimeConfig
<1>5. CASE LoadNamed
  <2>1. Named \in Files
      BY <1>5, NamedFile DEF LoadNamed
  <2>2. rc' \in RuntimeConfig
      BY <1>5, <2>1, RawOf, Defaults, Converted DEF LoadNamed
  <2>3. files' \in Seq(Files) /\ at' \in 0 .. Len(files')
      BY <1>5, <2>1 DEF LoadNamed
  <2> QED
      BY <1>1, <1>3, <1>5, <2>2, <2>3 DEF LoadNamed, LoadTypeOK, Loading, RuntimeConfig
<1>6. CASE LoadDefaults
    BY <1>1, <1>3, <1>6 DEF LoadDefaults, LoadTypeOK, Loading
<1>7. CASE LoadRefused
    BY <1>1, <1>3, <1>7 DEF LoadRefused, LoadTypeOK, Loading
<1>8. CASE Discover
  <2>1. files' \in Seq(Files)
      BY <1>8, DiscoveredFiles DEF Discover
  <2> QED
      BY <1>1, <1>3, <1>8, <2>1 DEF Discover, LoadTypeOK, Loading
<1>9. CASE ApplyMicrunFiles
  <2>1. files[at + 1] \in Files
      BY <1>9 DEF ApplyMicrunFiles, Loading
  <2>2. rc' \in RuntimeConfig
      BY <1>4, <1>9, <2>1, RawOf, Converted DEF ApplyMicrunFiles, applyMicrunConfigFile
  <2>3. at' \in 0 .. Len(files')
      BY <1>9 DEF ApplyMicrunFiles, Loading
  <2> QED
      BY <1>1, <1>3, <1>9, <2>2, <2>3 DEF ApplyMicrunFiles, LoadTypeOK, Loading, RuntimeConfig
<1>10. CASE Loaded
  <2>1. rc' \in RuntimeConfig
      BY <1>4, <1>10, Overlaid DEF Loaded, Loading
  <2> QED
      BY <1>1, <1>3, <1>10, <2>1 DEF Loaded, LoadTypeOK, Loading, RuntimeConfig
<1>11. CASE NewShim
    BY <1>1, <1>3, <1>11 DEF NewShim, LoadTypeOK, Loading
<1> QED
    BY <1>5, <1>6, <1>7, <1>8, <1>9, <1>10, <1>11 DEF Load, LoadNext

\* What a container is configured with.
LEMMA Sized ==
    ASSUME IInv, NEW s \in Specs
    PROVE  LET c == ParseContainerCfg(s) IN
           /\ c.made /\ c.limit \in Counts /\ c.reservation \in Counts \ {0}
           /\ c.limit > 0 => c.reservation <= c.limit
           /\ c.threshold \in Counts
           /\ c.threshold = calculateClientMemThreshold(
                  IF c.limit # 0 THEN c.limit ELSE c.reservation)
           /\ c.maxv \in Counts \ {0} /\ c.cap \in Counts /\ c.shares \in Nat
<1> DEFINE c == ParseContainerCfg(s)
<1>1. SpecOK(s) /\ rc \in RuntimeConfig
    BY SpecsAssumption DEF IInv, LoadTypeOK, RuntimeConfig
<1>2. ASSUME NEW v \in Int PROVE bytesToMiB(v) \in Counts
  <2>1. v \div MiB \in Int
      BY Quotient DEF MiB
  <2>2. (v \div MiB) % Word \in 0 .. Word - 1
      BY <2>1, WordAssumption, Remainder DEF InitMem
  <2> QED
      BY <2>2, WordAssumption DEF bytesToMiB, Counts, InitMem
<1>3. Limit(s) \in Counts
  <2>1. 0 \in Counts
      BY WordAssumption DEF Counts, InitMem
  <2>2. bytesToMiB(s.limit) \in Counts
      BY <1>1, <1>2 DEF SpecOK
  <2> QED
      BY <2>1, <2>2 DEF Limit
<1>4. Requested(s) \in Counts
    BY <1>1, <1>2, WordAssumption DEF Requested, SpecOK, Counts, Numbers, Absent, Bad, Over,
       InitMem
<1>5. \A r \in Counts : OrDefault(r) \in Counts \ {0}
    BY <1>1, WordAssumption DEF OrDefault, Counts, RuntimeConfig, LowMem, DefaultMinMem, InitMem
<1>6. \A r \in Counts \ {0}, l \in Counts :
        Within(r, l) \in Counts \ {0} /\ (l > 0 => Within(r, l) <= l)
    BY WordAssumption DEF Within, Counts
<1>7. Reservation(s) \in Counts \ {0} /\ (Limit(s) > 0 => Reservation(s) <= Limit(s))
    BY <1>3, <1>4, <1>5, <1>6 DEF Reservation
<1>8. cpuCapacity(s) \in Counts
  <2>1. CASE s.quota > 0 /\ s.period > 0
    <3>1. s.quota * 100 \in Int /\ s.period \in Nat
        BY <1>1 DEF SpecOK
    <3>2. (s.quota * 100) \div s.period \in Int
        BY <2>1, <3>1, Quotient
    <3>3. ((s.quota * 100) \div s.period) % Word \in 0 .. Word - 1
        BY <3>2, WordAssumption, Remainder DEF InitMem
    <3> QED
        BY <2>1, <3>3 DEF cpuCapacity, Counts
  <2>2. CASE ~(s.quota > 0 /\ s.period > 0)
      BY <2>2, WordAssumption DEF cpuCapacity, Counts, InitMem
  <2> QED
      BY <2>1, <2>2
<1>9. resolveMaxVcpu(s) \in Counts \ {0}
    BY <1>1, WordAssumption DEF resolveMaxVcpu, SpecOK, Counts, RuntimeConfig, Numbers,
       Absent, Bad, Over
<1>10. /\ c.made /\ c.limit = Limit(s) /\ c.reservation = Reservation(s)
       /\ c.maxv = resolveMaxVcpu(s) /\ c.cap \in {0, cpuCapacity(s)}
       /\ c.shares \in {0, s.shares}
       /\ c.threshold = calculateClientMemThreshold(
              IF Limit(s) # 0 THEN Limit(s) ELSE Reservation(s))
    BY DEF ParseContainerCfg
<1>11. c.threshold \in Counts
    BY <1>3, <1>7, <1>10, Doubling
<1>12. c.shares \in Nat /\ c.cap \in Counts
    BY <1>1, <1>8, <1>10, WordAssumption DEF SpecOK, Counts, InitMem
<1> QED
    BY <1>3, <1>7, <1>9, <1>10, <1>11, <1>12

\* What its client is registered with.
LEMMA Registering ==
    ASSUME IInv, conf.made
    PROVE  LET k == createMicaClientConf(conf) IN
           /\ k.made /\ k.mem \in Counts \ {0} /\ k.max \in Counts
           /\ k.mem = IF conf.limit # 0 THEN conf.limit ELSE conf.reservation
           /\ k.max = conf.threshold /\ conf.threshold # 0
           /\ k.weight = ShareToWeight(conf.shares)
<1>1. /\ conf.limit \in Counts /\ conf.reservation \in Counts \ {0}
      /\ conf.threshold \in Counts
    BY DEF IInv, TypeOK, ReservationWithinLimit, Counts
<1>2. containerMaxMemMB(conf) = IF conf.limit # 0 THEN conf.limit ELSE conf.reservation
    BY <1>1 DEF containerMaxMemMB, Counts
<1>3. conf.threshold # 0
    BY <1>1, Doubling DEF IInv, Configured
<1> QED
    BY <1>1, <1>2, <1>3 DEF createMicaClientConf

LEMMA Stays == ASSUME IInv, [Next]_vars PROVE IInv'
<1>1. CASE Load
    BY <1>1, LoadKeeps
<1>2. CASE RegisterClient
  <2>1. LET k == createMicaClientConf(conf) IN k.mem \in Counts /\ k.max \in Counts
      BY <1>2, Registering DEF RegisterClient
  <2>2. TypeOK' /\ Registered'
      BY <1>2, <2>1 DEF RegisterClient, IInv, TypeOK, Registered, loading, LoadTypeOK
  <2>3. ReservationWithinLimit' /\ Configured' /\ LoadTypeOK'
      BY <1>2 DEF RegisterClient, IInv, ReservationWithinLimit, Configured, loading, LoadTypeOK
  <2>4. stage = "serving"
      BY <1>2 DEF RegisterClient, IInv, Loading, NoConfig
  <2>5. Loading'
      BY <1>2, <2>4 DEF RegisterClient, IInv, Loading, loading
  <2> QED
      BY <2>2, <2>3, <2>5 DEF IInv
<1>3. ASSUME NEW s \in Specs, conf' = ParseContainerCfg(s), client' = NoClient, LoadTypeOK'
      PROVE  TypeOK' /\ ReservationWithinLimit' /\ Configured' /\ Registered'
    BY <1>3, Sized DEF TypeOK, ReservationWithinLimit, Configured, Registered, NoClient, Counts
<1>4. ASSUME NEW s \in Specs, CreateSandbox(s) PROVE IInv'
  <2>1. client' = NoClient
      BY <1>4 DEF CreateSandbox, IInv, Loading
  <2>2. LoadTypeOK' /\ Loading'
      BY <1>4 DEF CreateSandbox, IInv, LoadTypeOK, Loading
  <2> QED
      BY <1>3, <1>4, <2>1, <2>2 DEF CreateSandbox, IInv
<1>5. ASSUME NEW s \in Specs, CreateContainer(s) PROVE IInv'
  <2>1. LoadTypeOK' /\ Loading'
      BY <1>5 DEF CreateContainer, IInv, LoadTypeOK, Loading, loading
  <2> QED
      BY <1>3, <1>5, <2>1 DEF CreateContainer, IInv
<1>6. CASE UNCHANGED vars
    BY <1>6 DEF vars, loading, IInv, LoadTypeOK, Loading, TypeOK, ReservationWithinLimit,
       Configured, Registered
<1> QED
    BY <1>1, <1>2, <1>4, <1>5, <1>6 DEF Next

\* What follows from the invariant.
LEMMA Follows == ASSUME IInv PROVE MemoryFits /\ WeightInRange
<1> SUFFICES ASSUME client.made PROVE MemoryFits /\ WeightInRange
    BY DEF MemoryFits, WeightInRange
<1>1. conf.made /\ client = createMicaClientConf(conf)
    BY DEF IInv, Registered
<1>2. /\ client.mem \in Counts \ {0} /\ client.max = conf.threshold
      /\ client.mem = IF conf.limit # 0 THEN conf.limit ELSE conf.reservation
      /\ client.weight = ShareToWeight(conf.shares)
    BY <1>1, Registering
<1>3. conf.limit \in Counts /\ conf.reservation \in Counts
    BY <1>1 DEF IInv, TypeOK
<1>4. conf.threshold = calculateClientMemThreshold(client.mem) /\ conf.shares \in Nat
    BY <1>1, <1>2 DEF IInv, Configured
<1>5. client.mem <= client.max \/ client.mem = Word - 1
    BY <1>2, <1>4, Doubling
<1>6. conf.reservation <= client.mem
    BY <1>1, <1>2, <1>3, WordAssumption DEF IInv, ReservationWithinLimit, Counts
<1>7. MemoryFits
    BY <1>5, <1>6 DEF MemoryFits
<1>8. WeightInRange
    BY <1>2, <1>4, Quarter DEF WeightInRange
<1> QED
    BY <1>7, <1>8

LEMMA SpecIInv == Spec => []IInv
<1>1. Init => IInv
    BY Initially
<1>2. IInv /\ [Next]_vars => IInv'
    BY Stays
<1> QED
    BY <1>1, <1>2, PTL DEF Spec

\* Whatever the files, the annotations and the specification say, a container
\* reserves no more memory than its limit (oci_configs.go:455-541).
THEOREM ReservationFits == Spec => []ReservationWithinLimit
<1>1. IInv => ReservationWithinLimit
    BY DEF IInv
<1> QED
    BY <1>1, SpecIInv, PTL

\* Its client may grow to the memory it starts with, although threshold, limit and
\* default are 32 bits wide and doubled (container_resources.go:260-330).
THEOREM SizesFit == Spec => []MemoryFits
<1>1. IInv => MemoryFits
    BY Follows DEF IInv
<1> QED
    BY <1>1, SpecIInv, PTL

\* Its weight is one that Xen takes, whatever the CPU shares (xen.go:40-55).
THEOREM WeightFits == Spec => []WeightInRange
<1>1. IInv => WeightInRange
    BY Follows DEF IInv
<1> QED
    BY <1>1, SpecIInv, PTL

\* Every size stays within the 32 bits that hold it, and every setting within the
\* values its setter lets through (runtime_setup.go:191-308).
THEOREM TypesFit == Spec => []TypeOK
<1>1. IInv => TypeOK
    BY DEF IInv
<1> QED
    BY <1>1, SpecIInv, PTL

-----------------------------------------------------------------------------
\* Which file was read.

\* Files are discovered only where nobody names one.
Sought == stage = "files" => ~ByAnnotation /\ ~ByOptions /\ ~Undecodable /\ ~ByEnv

LEMMA ObeyedStays ==
    ASSUME Sought /\ NamedFileIsObeyed, [Next]_vars PROVE (Sought /\ NamedFileIsObeyed)'
<1> USE DEF Sought, NamedFileIsObeyed
<1>1. ASSUME UNCHANGED place
      PROVE  /\ Named' = (CASE ByAnnotation -> place.anno.files[1]
                            [] ByOptions -> place.options.files[1]
                            [] ByEnv -> place.env.files[1])
             /\ ByAnnotation' = ByAnnotation /\ ByOptions' = ByOptions
             /\ Undecodable' = Undecodable /\ ByEnv' = ByEnv
    BY <1>1 DEF Named, ByAnnotation, ByOptions, Undecodable, ByEnv
<1>2. UNCHANGED place => Named' = Named
    BY <1>1 DEF Named
<1>3. CASE LoadNamed
    BY <1>1, <1>2, <1>3 DEF LoadNamed, ByOptions, Undecodable, ByEnv
<1>4. CASE LoadDefaults
    BY <1>1, <1>2, <1>4 DEF LoadDefaults, Tolerated, ByEnv
<1>5. CASE LoadRefused \/ NewShim
    BY <1>5 DEF LoadRefused, NewShim
<1>6. CASE Discover
    BY <1>1, <1>2, <1>6 DEF Discover
<1>7. CASE ApplyMicrunFiles
    BY <1>1, <1>2, <1>7 DEF ApplyMicrunFiles
<1>8. CASE Loaded
    BY <1>1, <1>2, <1>8 DEF Loaded
<1>9. ASSUME NEW s \in Specs, CreateSandbox(s)
      PROVE  stage' = "serving"
    BY <1>9 DEF CreateSandbox
<1>10. CASE UNCHANGED loading
    BY <1>1, <1>2, <1>10 DEF loading
<1> QED
    BY <1>3, <1>4, <1>5, <1>6, <1>7, <1>8, <1>9, <1>10
       DEF Next, Load, LoadNext, RegisterClient, CreateContainer, vars

\* Who names a file by an annotation or in the request gets that file or no
\* container (shim/utils.go:213-246).
THEOREM Obeyed == Spec => []NamedFileIsObeyed
<1>1. Init => Sought /\ NamedFileIsObeyed
    BY DEF Init, LoadInit, Fresh, Sought, NamedFileIsObeyed
<1>2. (Sought /\ NamedFileIsObeyed) /\ [Next]_vars => (Sought /\ NamedFileIsObeyed)'
    BY ObeyedStays
<1> QED
    BY <1>1, <1>2, PTL DEF Spec

-----------------------------------------------------------------------------
\* What the files that were read add up to.

\* LastOf finds the last of a set that has one.
LEMMA Last ==
    ASSUME NEW S \in SUBSET Nat, NEW m \in S, \A j \in S : j <= m PROVE LastOf(S) = m
<1>1. \A i \in S : (\A j \in S : j <= i) => i = m
    BY SMT
<1> QED
    BY <1>1 DEF LastOf

\* The settings before the annotations: what the last of the files of S leaves of a
\* configuration, and of each flag that is kept the last of them with a valid one.
LastSaid(fs, S) == IF S = {} THEN Nothing ELSE ParseINI(fs[LastOf(S)])
SaidOf(fs, S, k) == {i \in S : ParseINI(fs[i])[k] \in Valid}
KeptOf(fs, S, k) ==
    SaidOf(fs, S, k) # {} /\ ParseINI(fs[LastOf(SaidOf(fs, S, k))])[k] = "true"
Shows(r, none, last, shared, dom0) ==
    /\ r.vcpus = IF last.vcpus > 0 THEN last.vcpus ELSE DefaultVcpus
    /\ r.min = CASE none -> InitMem
                 [] ~none /\ last.min \in LowMem .. HighMem -> last.min
                 [] OTHER -> LowMem
    /\ r.static <=> last.static = "true"
    /\ r.shared <=> shared
    /\ r.dom0 <=> dom0
Layers(r, fs, S) ==
    /\ S # {} => LastOf(S) \in S
    /\ Shows(r, S = {}, LastSaid(fs, S), KeptOf(fs, S, "shared"), KeptOf(fs, S, "dom0"))
Layered == Layers(rc, files, Read)

Layering ==
    /\ stage \in {"idle", "dead"} => rc = NewRuntimeConfig /\ files = <<>>
    /\ stage \in {"files", "annotate"} => Layered
    /\ SettingsAreLayered

\* Before anything is read, the settings are the defaults.
LEMMA SilentShows == Shows(NewRuntimeConfig, TRUE, Nothing, FALSE, FALSE)
    BY DEF Nothing, NewRuntimeConfig, Absent, DefaultVcpus, Shows

\* A file that is applied decides all but the flags that keep their value.
LEMMA FileShows ==
    ASSUME NEW r \in RuntimeConfig, NEW raw \in Raw, NEW shared, NEW dom0,
           shared <=> IF raw.shared \in Valid THEN raw.shared = "true" ELSE r.shared,
           dom0 <=> IF raw.dom0 \in Valid THEN raw.dom0 = "true" ELSE r.dom0
    PROVE  Shows(convertRawConfig(r, raw), FALSE, raw, shared, dom0)
<1> DEFINE c == convertRawConfig(r, raw)
<1>1. raw.min \in Int /\ HighMem \in Int /\ LowMem = 2
    BY WordAssumption DEF Raw, Numbers, Absent, Bad, Over, LowMem
<1>2. c.min = IF raw.min \in LowMem .. HighMem THEN raw.min ELSE LowMem
    BY <1>1 DEF SetMemory, memoryOutOfRange, convertRawConfig
<1>3. c.vcpus = IF raw.vcpus > 0 THEN raw.vcpus ELSE DefaultVcpus
    BY DEF convertRawConfig, SetCount
<1>4. c.static <=> raw.static = "true"
    BY DEF convertRawConfig, SetFlag
<1>5. (c.shared <=> shared) /\ (c.dom0 <=> dom0)
    BY DEF convertRawConfig, KeepFlag
<1> QED
    BY <1>2, <1>3, <1>4, <1>5 DEF Shows

\* What the property asks of the settings before the annotations.
Spells(r, fs, S) ==
    LET last == IF S = {} THEN Nothing ELSE ParseINI(fs[LastOf(S)]) IN
    /\ last.vcpus > 0 => r.vcpus = last.vcpus
    /\ r.vcpus \in {DefaultVcpus} \cup {ParseINI(fs[i]).vcpus : i \in S}
    /\ last.min \in LowMem .. HighMem => r.min = last.min
    /\ r.min \in {InitMem, LowMem} \cup {ParseINI(fs[i]).min : i \in S}
    /\ last.static \in Valid => r.static = (last.static = "true")
    /\ r.static => \E i \in S : ParseINI(fs[i]).static = "true"
    /\ r.shared = (SaidOf(fs, S, "shared") # {} /\
                   ParseINI(fs[LastOf(SaidOf(fs, S, "shared"))]).shared = "true")
    /\ r.dom0 = (SaidOf(fs, S, "dom0") # {} /\
                 ParseINI(fs[LastOf(SaidOf(fs, S, "dom0"))]).dom0 = "true")

LEMMA Spelled ==
    ASSUME NEW r \in RuntimeConfig, NEW fs, NEW S, Layers(r, fs, S)
    PROVE  Spells(r, fs, S)
<1> DEFINE last == LastSaid(fs, S)
<1>1. /\ r.vcpus = IF last.vcpus > 0 THEN last.vcpus ELSE DefaultVcpus
      /\ r.min = CASE S = {} -> InitMem
                   [] S # {} /\ last.min \in LowMem .. HighMem -> last.min
                   [] OTHER -> LowMem
      /\ r.static <=> last.static = "true"
      /\ r.shared <=> KeptOf(fs, S, "shared")
      /\ r.dom0 <=> KeptOf(fs, S, "dom0")
      /\ S # {} => LastOf(S) \in S
    BY DEF Layers, Shows
<1>2. r.static = (last.static = "true")
    BY <1>1, Zenon DEF RuntimeConfig
<1>3. /\ r.shared = KeptOf(fs, S, "shared")
      /\ r.dom0 = KeptOf(fs, S, "dom0")
    BY <1>1, Zenon DEF RuntimeConfig, KeptOf
<1>4. S = {} => last.vcpus = Absent /\ last.min = Absent /\ last.static = "absent"
    BY DEF LastSaid, Nothing
<1>5. S # {} => last = ParseINI(fs[LastOf(S)]) /\ LastOf(S) \in S
    BY <1>1 DEF LastSaid
<1>6. last.vcpus > 0 => r.vcpus = last.vcpus
    BY <1>1
<1>7. r.vcpus \in {DefaultVcpus} \cup {ParseINI(fs[i]).vcpus : i \in S}
    BY <1>1, <1>4, <1>5 DEF Absent
<1>8. last.min \in LowMem .. HighMem => r.min = last.min
  <2>1. Absent \notin LowMem .. HighMem
      BY DEF Absent, LowMem
  <2> QED
      BY <1>1, <1>4, <2>1
<1>9. r.min \in {InitMem, LowMem} \cup {ParseINI(fs[i]).min : i \in S}
    BY <1>1, <1>5
<1>10. r.static => \E i \in S : ParseINI(fs[i]).static = "true"
    BY <1>1, <1>4, <1>5
<1> QED
    BY <1>2, <1>3, <1>6, <1>7, <1>8, <1>9, <1>10 DEF Spells, LastSaid, KeptOf

\* With nothing read the layers are the defaults.
LEMMA NothingRead == ASSUME NEW fs PROVE Layers(NewRuntimeConfig, fs, {})
<1>1. SaidOf(fs, {}, "shared") = {} /\ SaidOf(fs, {}, "dom0") = {}
    BY DEF SaidOf
<1> QED
    BY <1>1, SilentShows DEF Layers, LastSaid, KeptOf, Shows

\* A flag that is kept is that of the next file if it gives a valid one.
LEMMA OneMoreFlag ==
    ASSUME NEW fs, NEW S \in SUBSET Nat, NEW m \in Nat, \A i \in S : i < m,
           NEW k, NEW old, old <=> KeptOf(fs, S, k)
    PROVE  KeptOf(fs, S \cup {m}, k) <=>
               IF ParseINI(fs[m])[k] \in Valid THEN ParseINI(fs[m])[k] = "true" ELSE old
<1> DEFINE T == S \cup {m}
<1>1. CASE ParseINI(fs[m])[k] \in Valid
  <2>1. SaidOf(fs, T, k) = SaidOf(fs, S, k) \cup {m}
      BY <1>1 DEF SaidOf
  <2>2. LastOf(SaidOf(fs, T, k)) = m
    <3>1. SaidOf(fs, T, k) \in SUBSET T /\ m \in SaidOf(fs, T, k)
        BY <2>1 DEF SaidOf
    <3>2. T \in SUBSET Nat /\ \A j \in T : j <= m
        OBVIOUS
    <3>3. SaidOf(fs, T, k) \in SUBSET Nat /\ \A j \in SaidOf(fs, T, k) : j <= m
        BY <3>1, <3>2, Zenon
    <3> QED
        BY <3>1, <3>3, Last
  <2> QED
      BY <1>1, <2>1, <2>2 DEF KeptOf
<1>2. CASE ParseINI(fs[m])[k] \notin Valid
  <2>1. SaidOf(fs, T, k) = SaidOf(fs, S, k)
      BY <1>2 DEF SaidOf
  <2> QED
      BY <1>2, <2>1 DEF KeptOf
<1> QED
    BY <1>1, <1>2

\* The next file becomes the last, and the flags its own if it gives them.
LEMMA OneMore ==
    ASSUME NEW r \in RuntimeConfig, NEW fs \in Seq(Files), NEW S \in SUBSET Nat,
           NEW m \in 1 .. Len(fs), \A i \in S : i < m, Layers(r, fs, S)
    PROVE  Layers(convertRawConfig(r, ParseINI(fs[m])), fs, S \cup {m})
<1> DEFINE raw == ParseINI(fs[m])
           T == S \cup {m}
           shared == KeptOf(fs, T, "shared")
           dom0 == KeptOf(fs, T, "dom0")
<1>1. raw \in Raw
    BY RawOf
<1>2. LastOf(T) = m
  <2>1. T \in SUBSET Nat /\ m \in T /\ \A j \in T : j <= m
      OBVIOUS
  <2> QED
      BY <2>1, Last
<1>3. LastSaid(fs, T) = raw
    BY <1>2 DEF LastSaid
<1>4. (r.shared <=> KeptOf(fs, S, "shared")) /\ (r.dom0 <=> KeptOf(fs, S, "dom0"))
    BY DEF Layers, Shows
<1>5. shared <=> IF raw["shared"] \in Valid THEN raw["shared"] = "true" ELSE r.shared
    BY <1>4, OneMoreFlag
<1>6. dom0 <=> IF raw["dom0"] \in Valid THEN raw["dom0"] = "true" ELSE r.dom0
    BY <1>4, OneMoreFlag
<1>7. Shows(convertRawConfig(r, raw), FALSE, raw, shared, dom0)
  <2> HIDE DEF raw, shared, dom0
  <2> QED
      BY <1>1, <1>5, <1>6, FileShows
<1> QED
    BY <1>2, <1>3, <1>7 DEF Layers

-----------------------------------------------------------------------------
LEMMA LayeringStays ==
    ASSUME IInv, IInv', Sought, Layering, [Next]_vars PROVE Layering'
<1>1. rc \in RuntimeConfig /\ rc' \in RuntimeConfig
    BY DEF IInv, LoadTypeOK, RuntimeConfig
<1>2. /\ files' \in Seq(Files) /\ files \in Seq(Files) /\ at' \in Nat /\ at \in Nat
      /\ Read' \in SUBSET Nat
    BY DEF IInv, Loading, Read
<1>3. ASSUME stage' = "files" \/ stage' = "annotate", Layers(rc', files', Read')
      PROVE  Layering'
  <2>1. SettingsAreLayered'
    <3>1. Spells(rc', files', Read')
        BY <1>1, <1>2, <1>3, Spelled
    <3>2. stage' # "ready"
        BY <1>3
    <3> QED
        BY <3>1, <3>2 DEF SettingsAreLayered, Spells, Says, Flagged, Kept, SaidOf
  <2> QED
      BY <1>3, <2>1 DEF Layering, Layered
<1>4. CASE LoadNamed
  <2>1. Named \in Files /\ rc = NewRuntimeConfig
      BY <1>4, NamedFile DEF LoadNamed, IInv, Layering
  <2>2. ByAnnotation' \/ ByOptions' \/ ByEnv'
      BY <1>4 DEF LoadNamed, ByAnnotation, ByOptions, Undecodable, ByEnv
  <2>3. Read' = {} \cup {1}
      BY <1>4, <2>2 DEF LoadNamed, Read
  <2>4. Layers(convertRawConfig(rc, ParseINI(files'[1])), files', {} \cup {1})
    <3>1. Layers(rc, files', {}) /\ 1 \in 1 .. Len(files')
        BY <1>4, <2>1, NothingRead DEF LoadNamed
    <3> QED
        BY <1>1, <1>2, <3>1, OneMore
  <2> QED
      BY <1>3, <1>4, <2>1, <2>3, <2>4 DEF LoadNamed
<1>5. CASE LoadDefaults \/ Discover
  <2>1. at' = 0 /\ rc' = NewRuntimeConfig /\ stage' \in {"files", "annotate"}
      BY <1>5 DEF LoadDefaults, Discover, IInv, Loading, Layering
  <2>2. Read' = {}
      BY <2>1 DEF Read
  <2> QED
      BY <1>3, <2>1, <2>2, NothingRead
<1>6. CASE LoadRefused \/ NewShim
    BY <1>6 DEF LoadRefused, NewShim, Layering, SettingsAreLayered
<1>7. CASE ApplyMicrunFiles
  <2>1. /\ Layers(rc, files, Read) /\ at' = at + 1 /\ at' \in 1 .. Len(files)
        /\ UNCHANGED <<stage, place, files>> /\ stage = "files"
      BY <1>2, <1>7 DEF ApplyMicrunFiles, Layering, Layered
  <2>2. ~(ByAnnotation \/ ByOptions \/ ByEnv) /\ ~(ByAnnotation \/ ByOptions \/ ByEnv)'
      BY <2>1 DEF Sought, ByAnnotation, ByOptions, Undecodable, ByEnv
  <2>3. CASE Applies(files[at'])
    <3>1. Read' = Read \cup {at'} /\ Read \in SUBSET Nat /\ \A i \in Read : i < at'
        BY <1>2, <2>1, <2>2, <2>3 DEF Read
    <3>2. rc' = convertRawConfig(rc, ParseINI(files[at']))
        BY <1>7, <2>1, <2>3 DEF ApplyMicrunFiles, applyMicrunConfigFile
    <3> QED
        BY <1>1, <1>2, <1>3, <2>1, <3>1, <3>2, OneMore
  <2>4. CASE ~Applies(files[at'])
    <3>1. Read' = Read
        BY <1>2, <2>1, <2>2, <2>4 DEF Read
    <3>2. rc' = rc
        BY <1>7, <2>1, <2>4 DEF ApplyMicrunFiles, applyMicrunConfigFile
    <3> QED
        BY <1>3, <2>1, <3>1, <3>2
  <2> QED
      BY <2>3, <2>4
<1>8. CASE Loaded
  <2>1. /\ Layers(rc, files, Read) /\ anno' = anno /\ files' = files /\ stage' = "ready"
        /\ anno \in Annotations /\ rc' = ParseRuntimeConfigFromAnno(rc, anno)
      BY <1>8 DEF Loaded, Layering, Layered, IInv, Loading
  <2>2. Read' = Read
      BY <1>8 DEF Loaded, Read, ByAnnotation, ByOptions, Undecodable, ByEnv
  <2>3. /\ rc'.min = rc.min /\ rc'.static = rc.static /\ rc'.shared = rc.shared
        /\ rc'.dom0 = IF anno.dom0 \in Valid THEN anno.dom0 = "true" ELSE rc.dom0
      BY <1>1, <2>1 DEF ParseRuntimeConfigFromAnno, RuntimeConfig, KeepFlag
  <2>4. /\ anno.vcpus = Absent => rc'.vcpus = rc.vcpus
        /\ anno.vcpus > 0 => rc'.vcpus = anno.vcpus
        /\ anno.vcpus # Absent => rc'.vcpus \in {DefaultVcpus, anno.vcpus}
    <3>1. anno.vcpus \in Numbers
        BY <2>1, AnnotationsAssumption
    <3> QED
        BY <1>1, <2>1, <3>1, WordAssumption
           DEF ParseRuntimeConfigFromAnno, RuntimeConfig, SetCount, Absent, Bad, Over, Numbers
  <2>5. SettingsAreLayered'
    <3>1. Spells(rc, files, Read)
        BY <1>1, <1>2, <2>1, Spelled
    <3>2. anno' = anno /\ files' = files /\ stage' = "ready" /\ Read' = Read
        BY <2>1, <2>2
    <3> DEFINE last == IF Read = {} THEN Nothing ELSE ParseINI(files[LastOf(Read)])
               said == SaidOf(files, Read, "dom0")
               kept == said # {} /\ ParseINI(files[LastOf(said)]).dom0 = "true"
    <3>3. /\ anno.vcpus > 0 => rc'.vcpus = anno.vcpus
          /\ ~(anno.vcpus # Absent) /\ last.vcpus > 0 => rc'.vcpus = last.vcpus
          /\ rc'.vcpus \in {DefaultVcpus} \cup {ParseINI(files[i]).vcpus : i \in Read}
                           \cup {anno.vcpus}
      <4>1. /\ last.vcpus > 0 => rc.vcpus = last.vcpus
            /\ rc.vcpus \in {DefaultVcpus} \cup {ParseINI(files[i]).vcpus : i \in Read}
          BY <3>1 DEF Spells
      <4> HIDE DEF last
      <4> QED
          BY <2>4, <4>1
    <3>4. rc'.dom0 = IF anno.dom0 \in Valid THEN anno.dom0 = "true" ELSE kept
      <4>1. rc.dom0 = kept
          BY <3>1 DEF Spells
      <4> HIDE DEF kept
      <4> QED
          BY <2>3, <4>1
    <3> QED
        BY <2>3, <3>1, <3>2, <3>3, <3>4
           DEF SettingsAreLayered, Spells, Says, Flagged, Kept, SaidOf
  <2> QED
      BY <2>1, <2>5 DEF Layering
<1>9. ASSUME NEW s \in Specs, CreateSandbox(s) \/ CreateContainer(s) PROVE Layering'
    BY <1>9 DEF CreateSandbox, CreateContainer, Layering, SettingsAreLayered, loading
<1>10. CASE UNCHANGED loading
  <2>1. Read' = Read
      BY <1>10 DEF loading, Read, ByAnnotation, ByOptions, Undecodable, ByEnv
  <2>2. /\ Kept("shared")' = Kept("shared") /\ Kept("dom0")' = Kept("dom0")
        /\ (IF Read = {} THEN Nothing ELSE Says(LastOf(Read)))'
               = IF Read = {} THEN Nothing ELSE Says(LastOf(Read))
        /\ \A i : Says(i)' = Says(i)
      BY <1>10, <2>1 DEF loading, Kept, Flagged, Says
  <2>3. UNCHANGED <<stage, anno, files, rc, Read>>
      BY <1>10, <2>1 DEF loading
  <2>4. SettingsAreLayered'
      BY <2>2, <2>3 DEF Layering, SettingsAreLayered, Says
  <2> QED
      BY <2>3, <2>4 DEF Layering, Layered
<1> QED
    BY <1>4, <1>5, <1>6, <1>7, <1>8, <1>9, <1>10 DEF Next, Load, LoadNext, RegisterClient, vars

\* Where the highest layer says something valid it decides, and no value comes from
\* nowhere, whatever the files and their number and order (runtime_setup.go:133-308,
\* runtime_stack.go:30-50).
THEOREM LayersHold == Spec => []SettingsAreLayered
<1>1. Init => Sought /\ NamedFileIsObeyed /\ Layering
    BY DEF Init, LoadInit, Fresh, Sought, NamedFileIsObeyed, Layering, SettingsAreLayered
<1>2. (Sought /\ NamedFileIsObeyed /\ Layering) /\ IInv /\ IInv' /\ [Next]_vars
          => (Sought /\ NamedFileIsObeyed /\ Layering)'
    BY ObeyedStays, LayeringStays
<1>3. Layering => SettingsAreLayered
    BY DEF Layering
<1> QED
    BY <1>1, <1>2, <1>3, SpecIInv, PTL DEF Spec

-----------------------------------------------------------------------------
\* The cpuset.

\* What clipping leaves of a list that parses is the host's.
LEMMA ClippedToHost == ASSUME NEW t, Clipped(t).sound PROVE Clipped(t).cpus \subseteq Host
<1>1. CASE ~Listed(t)
    BY <1>1 DEF Clipped, AsWritten
<1>2. CASE Listed(t) /\ CpusOf(t) \subseteq Host
    BY <1>2 DEF Clipped, AsWritten, Listed
<1>3. CASE Listed(t) /\ ~(CpusOf(t) \subseteq Host)
    BY <1>3 DEF Clipped
<1> QED
    BY <1>1, <1>2, <1>3

\* What a configuration says of CPUs.
Bound == (conf.made /\ conf.affinity.sound) => conf.affinity.cpus \subseteq Host

LEMMA BoundStays == ASSUME Bound, [Next]_vars PROVE Bound'
<1>1. ASSUME NEW s \in Specs, conf' = ParseContainerCfg(s) PROVE Bound'
  <2>1. conf'.affinity = Affinity(s)
      BY <1>1 DEF ParseContainerCfg
  <2>2. CASE s.infra \/ ~s.cpu
      BY <2>1, <2>2 DEF Affinity, NoCpus, Bound
  <2>3. CASE ~(s.infra \/ ~s.cpu)
      BY <2>1, <2>3, ClippedToHost DEF Affinity, Bound
  <2> QED
      BY <2>2, <2>3
<1>2. CASE UNCHANGED conf
    BY <1>2 DEF Bound
<1> QED
    BY <1>1, <1>2 DEF Next, Load, RegisterClient, CreateSandbox, CreateContainer, vars

\* A client whose list parses is bound only to CPUs the host has, for every list and
\* every host (container_resources.go:226-258).
THEOREM Fits == Spec => []AffinityFits
<1>1. Init => Bound
    BY DEF Init, NoConfig, Bound
<1>2. Bound /\ [Next]_vars => Bound'
    BY BoundStays
<1>3. IInv /\ Bound => AffinityFits
    BY DEF IInv, Registered, Bound, AffinityFits, createMicaClientConf
<1> QED
    BY <1>1, <1>2, <1>3, SpecIInv, PTL DEF Spec
=============================================================================
