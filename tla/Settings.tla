------------------------------ MODULE Settings ------------------------------
(***************************************************************************)
(* How a shim comes by its runtime configuration: defaults, then one file  *)
(* somebody named or the files it discovers, then the annotations of the   *)
(* first container (shim/utils.go, oci/runtime_stack.go, runtime_setup.go, *)
(* configstack/micrun_configs.go).  Kept are five settings that somebody   *)
(* reads: two numbers, a flag that a file resets, two flags that it keeps. *)
(***************************************************************************)
EXTENDS Integers, Sequences, FiniteSets

CONSTANTS
    Word,           \* 2^32
    HighMem,        \* MemHighThreshold: the host's memory in MiB
    Files,          \* configuration files, see FilesAssumption
    Annotations,    \* what a container's annotations may say
    Places          \* where a shim may find its files, see PlacesAssumption

\* What a text says: nothing, no number, a number too large, or the number.
Absent == -1
Bad == -2
Over == -3
Numbers == {Absent, Bad, Over} \cup 0 .. Word - 1
Valid == {"true", "false"}
Flags == {"absent", "bad"} \cup Valid

LowMem == 2
DefaultVcpus == 8
DefaultMinMem == 16
InitMem == 32

Raw == [vcpus : Numbers, min : Numbers, static : Flags, shared : Flags, dom0 : Flags]

ASSUME WordAssumption == Word \in Nat /\ Word > InitMem /\ HighMem \in LowMem .. Word - 1
\* Readable or not, of a kind told by its suffix, and with its keys in a section
\* named like a key or in another one.
ASSUME FilesAssumption ==
    \A f \in Files : /\ f.readable \in BOOLEAN /\ f.kind \in {"ini", "toml", "other"}
                     /\ f.known \in BOOLEAN /\ f.raw \in Raw
\* A place is set or not, can be looked into or not, and holds files: at most one
\* where a path is named.
Place == [set : BOOLEAN, ok : BOOLEAN, files : Seq(Files)]
ASSUME PlacesAssumption ==
    /\ Places \subseteq [anno : Place, options : Place, env : Place,
                         dir : Place, dropin : Place, default : Place]
    /\ \A p \in Places : /\ p.anno.set => p.anno.files # <<>>
                         /\ p.env.set => p.env.files # <<>>
ASSUME AnnotationsAssumption ==
    \A a \in Annotations : a.vcpus \in Numbers /\ a.dom0 \in Flags

VARIABLES
    stage,      \* of loading: idle, files, annotate, ready, or dead; later serving
    place,      \* where the files are, until they are read
    anno,       \* the annotations of the first container
    files,      \* the files to apply
    at,         \* how many of them have been applied
    rc          \* RuntimeConfig

loading == <<stage, place, anno, files, at, rc>>

Unset == [set |-> FALSE, ok |-> TRUE, files |-> <<>>]
Forgotten == [anno |-> Unset, options |-> Unset, env |-> Unset,
              dir |-> Unset, dropin |-> Unset, default |-> Unset]

-----------------------------------------------------------------------------
NewRuntimeConfig ==
    [vcpus |-> DefaultVcpus, min |-> InitMem,
     static |-> FALSE, shared |-> FALSE, dom0 |-> FALSE]

Nothing == [vcpus |-> Absent, min |-> Absent,
            static |-> "absent", shared |-> "absent", dom0 |-> "absent"]

\* The whitelist has the names of keys, and is compared with those of sections.
ParseINI(f) == IF f.known THEN f.raw ELSE Nothing

memoryOutOfRange(m) == m > HighMem \/ m < LowMem

\* The setters.  A flag or number that is absent or no good is set to its default;
\* only two flags keep what they were.
SetCount(v) == IF v > 0 THEN v ELSE DefaultVcpus
SetMemory(v) == IF v < 0 \/ memoryOutOfRange(v) THEN LowMem ELSE v
SetFlag(v) == v = "true"
KeepFlag(old, v) == IF v \in Valid THEN v = "true" ELSE old

convertRawConfig(r, raw) ==
    [vcpus  |-> SetCount(raw.vcpus),
     min    |-> SetMemory(raw.min),
     static |-> SetFlag(raw.static),
     shared |-> KeepFlag(r.shared, raw.shared),
     dom0   |-> KeepFlag(r.dom0, raw.dom0)]

\* A discovered file is left out when it cannot be read or is not INI.
Applies(f) == f.readable /\ f.kind = "ini"
applyMicrunConfigFile(r, f) == IF Applies(f) THEN convertRawConfig(r, ParseINI(f)) ELSE r

ParseRuntimeConfigFromAnno(r, a) ==
    [r EXCEPT !.vcpus = IF a.vcpus = Absent THEN @ ELSE SetCount(a.vcpus),
              !.dom0 = KeepFlag(@, a.dom0)]

\* DiscoverMicrunConfigFiles.  An error leaves no file at all, so a directory that
\* cannot be read hides the places below it; the drop-in directory may be missing.
\* Files of another suffix are not listed; left in the list, they are not applied.
Unreadable(p) == p.set /\ ~p.ok
Holds(p) == p.set /\ p.ok /\ \E i \in 1 .. Len(p.files) : p.files[i].kind # "other"
FilesOf(p, below) ==
    IF Unreadable(p) THEN <<>> ELSE IF Holds(p) THEN p.files ELSE below
Discovered == FilesOf(place.dir, FilesOf(place.dropin, FilesOf(place.default, <<>>)))

-----------------------------------------------------------------------------
Fresh ==
    /\ stage = "idle" /\ files = <<>> /\ at = 0 /\ rc = NewRuntimeConfig

LoadInit == Fresh /\ place \in Places /\ anno \in Annotations

\* Whom loadRuntimeConfig asks for a path: the annotations, the options of the
\* request, the environment, in this order.
ByAnnotation == place.anno.set
Undecodable == ~ByAnnotation /\ place.options.set /\ ~place.options.ok
ByOptions ==
    ~ByAnnotation /\ ~Undecodable /\ place.options.set /\ place.options.files # <<>>
ByEnv == ~ByAnnotation /\ ~ByOptions /\ ~Undecodable /\ place.env.set
Named == CASE ByAnnotation -> place.anno.files[1]
           [] ByOptions -> place.options.files[1]
           [] ByEnv -> place.env.files[1]

\* A named file is INI whatever it is called.
LoadNamed ==
    /\ stage = "idle" /\ (ByAnnotation \/ ByOptions \/ ByEnv)
    /\ Named.readable
    /\ rc' = convertRawConfig(NewRuntimeConfig, ParseINI(Named))
    /\ files' = <<Named>> /\ at' = 1
    /\ stage' = "annotate"
    /\ UNCHANGED <<place, anno>>

\* Only a path from the environment may be wrong.
Tolerated_all == ByAnnotation \/ ByOptions \/ ByEnv
Tolerated == ByEnv
LoadDefaults ==
    /\ stage = "idle" /\ Tolerated /\ ~Named.readable
    /\ stage' = "annotate"
    /\ UNCHANGED <<place, anno, files, at, rc>>

\* create overlooks the error, and createSandbox follows a nil pointer: the shim
\* dies with the rootfs mounted.
LoadRefused ==
    /\ stage = "idle" /\ ~Tolerated
    /\ Undecodable \/ ((ByAnnotation \/ ByOptions) /\ ~Named.readable)
    /\ stage' = "dead"
    /\ UNCHANGED <<place, anno, files, at, rc>>

Discover ==
    /\ stage = "idle" /\ ~ByAnnotation /\ ~ByOptions /\ ~Undecodable /\ ~ByEnv
    /\ files' = Discovered
    /\ stage' = "files"
    /\ UNCHANGED <<place, anno, at, rc>>

ApplyMicrunFiles_backwards ==
    /\ stage = "files" /\ at < Len(files)
    /\ rc' = applyMicrunConfigFile(rc, files[Len(files) - at])
    /\ at' = at + 1
    /\ UNCHANGED <<stage, place, anno, files>>
ApplyMicrunFiles ==
    /\ stage = "files" /\ at < Len(files)
    /\ rc' = applyMicrunConfigFile(rc, files[at + 1])
    /\ at' = at + 1
    /\ UNCHANGED <<stage, place, anno, files>>

\* The annotations come last.  The configuration is the shim's from here on, for
\* the containers that follow as well.
Loaded ==
    /\ stage = "annotate" \/ (stage = "files" /\ at = Len(files))
    /\ rc' = ParseRuntimeConfigFromAnno(rc, anno)
    /\ stage' = "ready"
    /\ UNCHANGED <<place, anno, files, at>>

\* The next sandbox gets a shim of its own.
NewShim ==
    /\ stage = "dead"
    /\ stage' = "idle" /\ place' \in Places /\ anno' \in Annotations
    /\ UNCHANGED <<files, at, rc>>

LoadNext == \/ LoadNamed \/ LoadDefaults \/ LoadRefused \/ Discover
            \/ ApplyMicrunFiles \/ Loaded \/ NewShim

-----------------------------------------------------------------------------
LoadTypeOK ==
    /\ stage \in {"idle", "files", "annotate", "ready", "dead", "serving"}
    /\ rc \in [vcpus : 1 .. Word - 1, min : LowMem .. Word - 1,
               static : BOOLEAN, shared : BOOLEAN, dom0 : BOOLEAN]
    /\ at \in 0 .. Len(files)

\* The files that count, and the last of them that says something by S.
Read == {i \in 1 .. at : ByAnnotation \/ ByOptions \/ ByEnv \/ Applies(files[i])}
LastOf(S) == CHOOSE i \in S : \A j \in S : j <= i
Says(i) == ParseINI(files[i])

\* What the files leave of a flag that keeps its value.
Flagged(k) == {i \in Read : Says(i)[k] \in Valid}
Kept(k) == Flagged(k) # {} /\ Says(LastOf(Flagged(k)))[k] = "true"

\* The highest layer that says something valid of a setting decides it: the
\* annotation, then the file applied last; of the two flags that keep their value, the
\* last file that gives a valid one.  And no number, and no flag that is set, comes
\* from nowhere.  Which default, or which earlier file, stands in where the highest
\* layer is silent or wrong is not said here: see FilesMerge and DocumentedDefaults
\* (resource-mapping.md:139-142, runtime_setup.go:132-308, runtime_stack.go:29-50).
SettingsAreLayered ==
    stage \in {"files", "annotate", "ready"} =>
        LET last == IF Read = {} THEN Nothing ELSE Says(LastOf(Read))
            over == stage = "ready" IN
        /\ over /\ anno.vcpus > 0 => rc.vcpus = anno.vcpus
        /\ ~(over /\ anno.vcpus # Absent) /\ last.vcpus > 0 => rc.vcpus = last.vcpus
        /\ rc.vcpus \in {DefaultVcpus} \cup {Says(i).vcpus : i \in Read}
                        \cup (IF over THEN {anno.vcpus} ELSE {})
        /\ last.min \in LowMem .. HighMem => rc.min = last.min
        /\ rc.min \in {InitMem, LowMem} \cup {Says(i).min : i \in Read}
        /\ last.static \in Valid => rc.static = (last.static = "true")
        /\ rc.static => \E i \in Read : Says(i).static = "true"
        /\ rc.shared = Kept("shared")
        /\ rc.dom0 = IF over /\ anno.dom0 \in Valid THEN anno.dom0 = "true" ELSE Kept("dom0")

\* "ApplyMicrunFiles merges micrun config files into the stack" (runtime_stack.go:29):
\* a file that does not mention a setting leaves what an earlier one said of it.
FilesMerge ==
    stage \in {"files", "annotate"} =>
        \A i \in Read :
            (Says(i).vcpus > 0 /\ \A j \in Read : j > i => Says(j).vcpus = Absent)
                => rc.vcpus = Says(i).vcpus

\* "static_resource // default=true" and "max_container_vcpu // default=0, unlimited"
\* (runtime_setup.go:20, 26): what holds when no file says anything.
DocumentedDefaults ==
    (stage \in {"files", "annotate"} /\ Read = {}) => rc.static /\ rc.vcpus = 0

\* Who names a file gets that file or no container: a shim never runs on defaults
\* because the file of an annotation or of the options cannot be read
\* (shim/utils.go:213-246, create.go:102).
NamedFileIsObeyed ==
    (stage \in {"annotate", "ready"} /\ (ByAnnotation \/ ByOptions \/ Undecodable)) =>
        ~Undecodable /\ files = <<Named>> /\ Named.readable
=============================================================================
