------------------------- MODULE MCPrefixStripping -------------------------
(***************************************************************************)
(* Prefix lists of up to three entries over two names, one of them longer  *)
(* than the other, against every raw value of up to five tokens.           *)
(***************************************************************************)
EXTENDS PrefixStripping

CONSTANTS A, B

TwoLengths == [n \in Names |-> IF n = A THEN 1 ELSE 2]

\* All raw paths of up to n tokens.
RawUpTo(n) == {r \in SeqOf(Names \cup {Slash}, n) : IsRawPath(r)}

\* A canonical path as the documentation writes it: one slash before each name.
Written(path) == FlattenSeq([i \in DOMAIN path |-> <<Slash, path[i]>>])

\* Lists of up to n different entries from a set.
ListsOf(entries, n) ==
  {ps \in SeqOf(entries, n) : IsInjective(ps)}

WrittenPrefixes == ListsOf({Written(p) : p \in SeqOf(Names, 2) \ {<< >>}}, 3)
\* However it is written, but with a name in it.
AnyPrefixes == ListsOf({r \in RawUpTo(3) : Segments(r) # << >>}, 2)
LongValues == RawUpTo(5)
ShortValues == RawUpTo(3)

=============================================================================
