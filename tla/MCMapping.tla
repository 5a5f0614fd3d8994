----------------------------- MODULE MCMapping -----------------------------
EXTENDS Mapping

Silent == [vcpus |-> Absent, min |-> Absent,
           static |-> "absent", shared |-> "absent", dom0 |-> "absent"]
Ini(raw) == [readable |-> TRUE, kind |-> "ini", known |-> TRUE, raw |-> raw]

\* A file that says all, one that says little and some of it wrong, one whose keys are
\* in a section of another name, one that is not INI, and one that is not there.
Full == Ini([vcpus |-> 4, min |-> 60, static |-> "true", shared |-> "true", dom0 |-> "true"])
Partial == Ini([Silent EXCEPT !.vcpus = Bad, !.min = HighMem + 1, !.static = "bad",
                              !.shared = "bad", !.dom0 = "false"])
Unshared == Ini([Silent EXCEPT !.vcpus = 3, !.shared = "false"])
Other == [Full EXCEPT !.known = FALSE]
Toml == [Full EXCEPT !.kind = "toml"]
Backup == [Full EXCEPT !.kind = "other"]
Gone == [Full EXCEPT !.readable = FALSE]
MCFiles == {Full, Partial, Unshared, Other, Toml, Backup, Gone}

Broken == [set |-> TRUE, ok |-> FALSE, files |-> <<>>]
With(seq) == [set |-> TRUE, ok |-> TRUE, files |-> seq]
Paths == {Unset, With(<<Full>>), With(<<Toml>>), With(<<Gone>>)}
Two == {<<f, g>> : f, g \in {Full, Partial, Unshared, Other, Toml, Gone}}

\* Somebody names a file; or nobody does and the directories are searched.
MCPlaces ==
    {[Forgotten EXCEPT !.anno = a, !.options = o, !.env = e, !.default = With(<<Partial>>)] :
        a \in Paths, o \in Paths \cup {Broken, With(<<>>)}, e \in Paths}
    \cup {[Forgotten EXCEPT !.dir = d, !.dropin = p, !.default = f] :
        d \in {Unset, Broken, With(<<>>), With(<<Backup>>), With(<<Unshared, Full>>)},
        p \in {Unset, Broken, With(<<Full, Unshared, Partial>>)} \cup {With(t) : t \in Two},
        f \in {Unset, Broken, With(<<Full>>)}}

MCAnnotations == {[vcpus |-> n, dom0 |-> "absent"] : n \in {Absent, Bad, 2}}
                 \cup {[vcpus |-> Over, dom0 |-> "false"], [vcpus |-> Absent, dom0 |-> "true"]}

Plain == [infra |-> FALSE, cpu |-> TRUE, limit |-> Absent, reservation |-> Absent,
          quota |-> 0, period |-> 0, shares |-> 0,
          text |-> [groups |-> <<>>, gap |-> FALSE, junk |-> FALSE],
          named |-> "none", default |-> TRUE, elf |-> FALSE, pedestal |-> "none",
          min |-> Absent, maxv |-> Absent]

\* Sizes about zero, about half the width of a word and about its end.
MemorySpecs == {[Plain EXCEPT !.limit = l, !.reservation = r, !.min = m] :
    l \in {Absent, 0, 1, 2, 81, Word - 2, Word, 2 * Word - 2, 2 * Word, 2 * Word + 88},
    r \in {Absent, 1, 60, Word, 2 * Word - 2}, m \in {Absent, Bad, 0, 50}}
Texts == {[groups |-> g, gap |-> b, junk |-> j] : b \in BOOLEAN, j \in BOOLEAN,
    g \in {<<>>, <<{0}>>, <<{0, 1}, {1}>>, <<{1, 2, 3}>>, <<{1, 2}, {1}>>, <<{5}>>}}
CpuSpecs == {[Plain EXCEPT !.text = t, !.shares = n] :
    t \in Texts, n \in {0, 1, 7, 4 * MaxWeight + 4}}
CapSpecs == {[Plain EXCEPT !.quota = q, !.period = 2, !.cpu = b, !.shares = 4,
                             !.text.groups = g] :
    q \in {Absent, 0, 3, 7}, b \in BOOLEAN, g \in {<<>>, <<{1}>>}}
OtherSpecs == {[Plain EXCEPT !.infra = b, !.named = n, !.default = d, !.elf = e,
                             !.pedestal = p, !.maxv = 1, !.text.groups = <<{0, 1}>>] :
    b \in BOOLEAN, n \in {"none", "found", "missing"}, d \in BOOLEAN, e \in BOOLEAN,
    p \in {"none", "xen", "other"}}
MCSpecs == MemorySpecs \cup CpuSpecs \cup CapSpecs \cup OtherSpecs
=============================================================================
