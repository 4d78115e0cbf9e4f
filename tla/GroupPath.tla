------------------------------ MODULE GroupPath ------------------------------
(***************************************************************************)
(* Group paths and path prefixes (GroupPath.java).                         *)
(*                                                                         *)
(* A path as an administrator or a token writes it ("raw") is a sequence   *)
(* of tokens, each a group name or the slash; a canonical path is a        *)
(* sequence of group names.  A name stands for a whole trimmed segment, so *)
(* a raw path has no two names next to each other.                         *)
(***************************************************************************)
EXTENDS Naturals, SequencesExt

CONSTANT Names

\* The separator token of a raw path.
Slash == "/"

\* Raw paths: two names are always separated by at least one slash.
IsRawPath(raw) ==
  \A i \in 1..Len(raw) - 1 : raw[i] # Slash => raw[i + 1] = Slash

\* Canonical paths of groups: at least one segment.
Path == Seq(Names) \ {<< >>}

\* The non-empty segments of a raw path, which is also its normal form.
Segments(raw) ==
  LET upto[n \in 0..Len(raw)] ==
        IF n = 0 THEN << >>
        ELSE IF raw[n] = Slash THEN upto[n - 1] ELSE Append(upto[n - 1], raw[n])
  IN  upto[Len(raw)]

\* A prefix covers a path that equals it or lies below it; the empty prefix
\* covers every path.
Matches(path, prefix) == IsPrefix(prefix, path)

\* What is left of a path that the prefix matches.
Strip(path, prefix) == SubSeq(path, Len(prefix) + 1, Len(path))

\* The path itself and the paths of all groups above it.
SelfAndAncestors(path) == Prefixes(path) \ {<< >>}

=============================================================================
