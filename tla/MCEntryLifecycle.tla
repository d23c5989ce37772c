-------------------------- MODULE MCEntryLifecycle --------------------------
(***************************************************************************)
(* EntryLifecycle with the guard of the file tools, which reads on each    *)
(* call the option that the entry has left behind.                         *)
(***************************************************************************)
EXTENDS EntryLifecycle, FileGuard, Naturals, TLC

CONSTANT MaxParts   \* bound on the parts of a file name

Symmetry == Permutations(Entry) \cup Permutations(Flow)

FileNames == UNION {[1..n -> Parts] : n \in 1..MaxParts}

\* The place a name leads to, as the file system follows its parts.
Follow(p, part) ==
    CASE part \in {Empty, "."} -> p
      [] part = ".."           -> SubSeq(p, 1, Len(p) - 1)
      [] OTHER                 -> Append(p, part)
ConfigDir == <<"config", "esphome">>
Start(name) == IF name[1] = Empty /\ Len(name) > 1 THEN <<>> ELSE ConfigDir
PlaceOf(name) ==
    LET place[i \in 0..Len(name)] ==
            IF i = 0 THEN Start(name) ELSE Follow(place[i - 1], name[i])
    IN place[Len(name)]

\* A call of a file tool works on the file of that very name under
\* /config/esphome, which is not the secrets file; on something else than YAML
\* at the top of it only if the user's last choice was to allow that (reading
\* needs no YAML there), once a set-up has made the choice known; and a build
\* never does ("driven by the integration option", _guard).
FilesAsChosen ==
    registered =>
        \A tool \in Tools, name \in FileNames : Accepts(tool, name, AllowExtra) =>
            /\ PlaceOf(name) = ConfigDir \o name
            /\ BaseName(name) # "secrets"
            /\ \/ Len(name) = 1 /\ (tool = "read" \/ BaseName(name) = "yaml")
               \/ tool # "build" /\ (wish \/ Loaded = {} \/ scheduled # {})
============================================================================
