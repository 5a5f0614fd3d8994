------------------------------ MODULE Mapping ------------------------------
(***************************************************************************)
(* From the OCI resources of a container to its configuration, and from    *)
(* there to what its client is registered with (container_resources.go,    *)
(* oci_configs.go, pedestal/planner.go, micantainer/utils.go), on a Xen    *)
(* host, under the settings that the shim has loaded.  A specification     *)
(* gives its sizes in half MiB, everything else is in MiB.                 *)
(***************************************************************************)
EXTENDS Settings

CONSTANTS
    Specs,          \* OCI specifications of containers, see SpecsAssumption
    HostCpus        \* the number of physical CPUs

MaxWeight == 65535
MiB == 2

\* cpu: there is a CPU section.  text is the cpuset: its groups, whether one of the
\* groups is empty ("0,,2"), whether one is no number or range.  firmware: the file
\* the annotation names, the default one, any *.elf.  The last two are annotations.
SpecOK(s) ==
    /\ s.infra \in BOOLEAN /\ s.cpu \in BOOLEAN
    /\ s.limit \in Int /\ s.reservation \in Int
    /\ s.quota \in Int /\ s.period \in Nat /\ s.shares \in Nat
    /\ s.text.groups \in Seq(SUBSET Nat) /\ s.text.gap \in BOOLEAN /\ s.text.junk \in BOOLEAN
    /\ s.named \in {"none", "found", "missing"} /\ s.default \in BOOLEAN /\ s.elf \in BOOLEAN
    /\ s.pedestal \in {"none", "xen", "other"}
    /\ s.min \in Numbers /\ s.maxv \in Numbers
ASSUME SpecsAssumption == \A s \in Specs : SpecOK(s)
ASSUME HostCpusAssumption == HostCpus \in Nat \ {0}

VARIABLES
    conf,       \* the ContainerConfig made last, or NoConfig
    client      \* MicaClientConf of that container, or NoClient

vars == <<loading, conf, client>>

NoConfig == [made |-> FALSE]
NoClient == [made |-> FALSE]

-----------------------------------------------------------------------------
\* bytesToMiB and its conversion to uint32: less than a MiB is as good as nothing.
bytesToMiB_wide(v) == IF v <= 0 THEN 0 ELSE v \div MiB
bytesToMiB(v) == IF v <= 0 THEN 0 ELSE (v \div MiB) % Word

\* GetContainerType, extPedConfig, resolveFirmwarePath: what refuses a container.
\* The path of the settings and the one of the sandbox are not looked at.
WrongPedestal(s) == s.pedestal = "other"
Firmware(s) == CASE s.infra -> ""
                 [] ~s.infra /\ s.named = "found" -> "named"
                 [] ~s.infra /\ s.named = "none" /\ s.default -> "default"
                 [] ~s.infra /\ s.named = "none" /\ ~s.default /\ s.elf -> "elf"
                 [] OTHER -> "missing"
Accepted(s) == ~WrongPedestal(s) /\ Firmware(s) # "missing"

\* The cpuset.  cpuset.Parse passes over an empty group and counts CPUs once;
\* ParseCPUString refuses the one and counts a CPU as often as it is written.
Host == 0 .. HostCpus - 1
CpusOf(t) == UNION {t.groups[i] : i \in 1 .. Len(t.groups)}
PlannedVcpus(t) == IF ~t.junk /\ CpusOf(t) # {} THEN Cardinality(CpusOf(t)) ELSE 1
Listed(t) == ~t.junk /\ ~t.gap
InRange(t) == {p \in (1 .. Len(t.groups)) \X Host : p[2] \in t.groups[p[1]]}

AsWritten(t) == [cpus |-> IF t.junk THEN {} ELSE CpusOf(t), sound |-> Listed(t),
                 vcpu |-> PlannedVcpus(t)]
Clipped_never(t) == AsWritten(t)
Clipped(t) ==
    IF ~Listed(t) \/ CpusOf(t) \subseteq Host THEN AsWritten(t)
    ELSE [cpus |-> CpusOf(t) \cap Host, sound |-> TRUE,
          vcpu |-> IF InRange(t) = {} THEN 1 ELSE Cardinality(InRange(t))]

\* cpuCapacity, in hundredths of a CPU; the cpuset does not bound it.
cpuCapacity(s) ==
    IF s.quota > 0 /\ s.period > 0 THEN ((s.quota * 100) \div s.period) % Word ELSE 0

NoCpus == [cpus |-> {}, sound |-> TRUE, vcpu |-> 0]
Affinity(s) == IF s.infra \/ ~s.cpu THEN NoCpus ELSE Clipped(s.text)

\* Memory: the limit, the reservation after the annotation, the defaults and the
\* limit have had their say, and twice the memory as the threshold.
Limit(s) == IF s.infra THEN 0 ELSE bytesToMiB(s.limit)
Requested(s) == CASE s.min >= 0 -> s.min
                  [] s.min < 0 /\ ~s.infra -> bytesToMiB(s.reservation)
                  [] OTHER -> 0
OrDefault(r) == IF r # 0 THEN r ELSE IF rc.min > 0 THEN rc.min ELSE DefaultMinMem
Within(r, limit) == IF limit > 0 /\ r > limit THEN limit ELSE r
Reservation_clipsFirst(s) == OrDefault(Within(Requested(s), Limit(s)))
Reservation(s) == Within(OrDefault(Requested(s)), Limit(s))

calculateClientMemThreshold_wraps(m) == (2 * m) % Word
calculateClientMemThreshold(m) ==
    IF m > (Word - 1) \div 2 THEN Word - 2 ELSE 2 * m

resolveMaxVcpu(s) == IF s.maxv > 0 THEN s.maxv ELSE rc.vcpus

ParseContainerCfg(s) ==
    LET limit == Limit(s)  r == Reservation(s) IN
    [made |-> TRUE, infra |-> s.infra, firmware |-> Firmware(s),
     affinity |-> Affinity(s), cap |-> IF s.infra \/ ~s.cpu THEN 0 ELSE cpuCapacity(s),
     shares |-> IF s.infra \/ ~s.cpu THEN 0 ELSE s.shares,
     limit |-> limit, reservation |-> r, maxv |-> resolveMaxVcpu(s),
     threshold |-> calculateClientMemThreshold(IF limit # 0 THEN limit ELSE r)]

-----------------------------------------------------------------------------
\* createMicaClientConf and InitWithOpts.
Between(n, low, high) == IF n < low THEN low ELSE IF n > high THEN high ELSE n
ShareToWeight_noFloor(n) == IF n = 0 THEN 256 ELSE Between(n \div 4, 0, MaxWeight)
ShareToWeight(n) == IF n = 0 THEN 256 ELSE Between(n \div 4, 1, MaxWeight)

containerMaxMemMB(c) == CASE c.limit # 0 -> c.limit
                          [] c.limit = 0 /\ c.reservation # 0 -> c.reservation
                          [] OTHER -> DefaultMinMem

createMicaClientConf(c) ==
    LET m == containerMaxMemMB(c) IN
    [made |-> TRUE, cpus |-> c.affinity.cpus, sound |-> c.affinity.sound,
     vcpu |-> IF c.affinity.vcpu > 0 THEN c.affinity.vcpu ELSE 1, maxv |-> c.maxv,
     weight |-> ShareToWeight(c.shares), cap |-> c.cap, mem |-> m,
     max |-> IF c.threshold # 0 THEN c.threshold ELSE (2 * m) % Word]

-----------------------------------------------------------------------------
Init == LoadInit /\ conf = NoConfig /\ client = NoClient

Load == LoadNext /\ UNCHANGED <<conf, client>>

\* The first container, which may be an infra container, brings the sandbox.  Where
\* the settings came from matters no more.
CreateSandbox(s) ==
    /\ stage = "ready" /\ Accepted(s)
    /\ conf' = ParseContainerCfg(s)
    /\ stage' = "serving" /\ place' = Forgotten /\ files' = <<>> /\ at' = 0
    /\ UNCHANGED <<anno, rc, client>>

\* A later one is configured under the settings the shim has, whatever its own
\* annotations say of them.
CreateContainer(s) ==
    /\ stage = "serving" /\ ~s.infra /\ Accepted(s)
    /\ conf' = ParseContainerCfg(s)
    /\ client' = NoClient
    /\ UNCHANGED loading

RegisterClient ==
    /\ conf.made /\ ~conf.infra /\ ~client.made
    /\ client' = createMicaClientConf(conf)
    /\ UNCHANGED <<loading, conf>>

Next == Load \/ RegisterClient \/ \E s \in Specs : CreateSandbox(s) \/ CreateContainer(s)

Spec == Init /\ [][Next]_vars

-----------------------------------------------------------------------------
Counts == 0 .. Word - 1
TypeOK ==
    /\ LoadTypeOK
    /\ conf.made => /\ conf.limit \in Counts /\ conf.reservation \in Counts
                    /\ conf.threshold \in Counts /\ conf.maxv \in Counts \ {0}
                    /\ conf.cap \in Counts
    /\ client.made => client.mem \in Counts /\ client.max \in Counts

\* A container reserves something, and no more than its limit if that is a MiB or
\* more, whether the reservation is its own, an annotation's or the settings'
\* (oci_configs.go:455-481).  The documented order is strict: see ReservationBelowLimit.
ReservationWithinLimit ==
    conf.made => /\ conf.reservation > 0
                 /\ conf.limit > 0 => conf.reservation <= conf.limit

\* "保证：memory reservation < memory limit" (container_resources.go:193, and 199,
\* resource-mapping.md:86): strictly less.
ReservationBelowLimit ==
    (conf.made /\ conf.limit > 0) => conf.reservation < conf.limit

\* A client may grow to at least the memory it starts with, which covers what is
\* reserved for it, and doubling does not overflow; only a memory of 2^32-1 MiB, as
\* cgroups write "unlimited", is one more than its maximum (oci_configs.go:510-541).
MemoryFits ==
    client.made => /\ conf.reservation <= client.mem
                   /\ client.mem <= client.max \/ client.mem = Word - 1

\* A client is bound only to CPUs the host has, whatever its cpuset says; only a list
\* with an empty group or with a word that is no number gets through as it is written
\* (container_resources.go:226-258).
AffinityFits == (client.made /\ client.sound) => client.cpus \subseteq Host

\* "VCPU 数量策略：默认 VCPU = 1" (container_resources.go:220, planner.go:67,
\* resource-mapping.md:47-53): one vCPU unless vcpu_pcpu_binding is switched on, and
\* nothing switches it on.
OneVcpu == client.made => client.vcpu = 1

\* "effective_capacity = min(capacity, cpuset_size x 100)" (resource-mapping.md:38,
\* planner.go:78): the capacity of a client does not exceed its cpuset.
CapacityWithinCpuset ==
    (client.made /\ client.cpus # {}) => client.cap <= 100 * Cardinality(client.cpus)

\* "MaxVcpuNum is the pedestal max virtual CPUs configured for this container"
\* (container.go:69): a client is not registered with more.
VcpusWithinMaximum == client.made => client.vcpu <= client.maxv

\* The weight is one Xen takes, and a quarter of the shares where that is one
\* (xen.go:40-55).
WeightInRange ==
    client.made =>
        /\ client.weight \in 1 .. MaxWeight
        /\ conf.shares \in 4 .. 4 * MaxWeight =>
               conf.shares - 4 * client.weight \in 0 .. 3
=============================================================================
