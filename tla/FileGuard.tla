------------------------------ MODULE FileGuard ------------------------------
(***************************************************************************)
(* The guard that every file name an agent gives goes through (_guard and  *)
(* _sanitize_filename in llm.py).  A name is the sequence of its parts     *)
(* between slashes; a part is itself where the guard looks for it, or      *)
(* stands for its kind:                                                    *)
(*   "secrets"   secrets.yaml or secrets.yml      "yaml"   another YAML    *)
(*   "code"      a file or directory of another name                       *)
(*   "back\\"    a part with a backslash in it                             *)
(* The empty name is <<"">>, and an absolute one begins with the part "".  *)
(***************************************************************************)
EXTENDS Naturals, Sequences

\* The part between two slashes, or before a leading one.
Empty == ""
Parts == {Empty, ".", "..", "back\\", "secrets", "yaml", "code"}

\* The tools that read, those that create, write or patch, and those that
\* build or show logs.
Tools == {"read", "edit", "build"}

PartsOf(name)  == {name[i] : i \in DOMAIN name}
BaseName(name) == name[Len(name)]

\* Seeded fault: only a leading ".." is taken for a traversal.
LeadingDots(name) == PartsOf(name) \cap {Empty, ".", "back\\"} # {} \/ name[1] = ".."
Hostile(name)     == PartsOf(name) \cap {Empty, ".", "..", "back\\"} # {}

\* _sanitize_filename.
Sanitized(name, allow_subdirs) ==
    /\ ~Hostile(name)
    /\ Len(name) > 1 => allow_subdirs

\* _guard.
Guarded(name, require_yaml, extra) ==
    /\ Sanitized(name, extra)
    /\ BaseName(name) # "secrets"
    /\ require_yaml /\ ~extra => BaseName(name) = "yaml"

\* How each tool asks: a build never has extra access, reading needs no YAML.
Accepts(tool, name, extra) ==
    CASE tool = "read"  -> Guarded(name, FALSE, extra)
      [] tool = "edit"  -> Guarded(name, TRUE, extra)
      [] tool = "build" -> Guarded(name, TRUE, FALSE)
============================================================================
