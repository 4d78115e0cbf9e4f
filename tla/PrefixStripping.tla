-------------------------- MODULE PrefixStripping --------------------------
(***************************************************************************)
(* What becomes of one claim value: the configured prefixes are tried      *)
(* longest first, the first that matches is cut off                        *)
(* (IdpGroupMapper.parsePrefixes, stripPrefix, extractGroupsFromClaim).    *)
(*                                                                         *)
(* "Longest" is String.length of the prefix as it was typed, slashes       *)
(* included, while matching goes by segments.                              *)
(***************************************************************************)
EXTENDS GroupPath

CONSTANTS
  NameLength,    \* characters of each group name
  Values,        \* values of the claim, as the token spells them
  PrefixLists    \* prefixes as configured, in the order they were entered

ASSUME PrefixAssumption ==
  /\ NameLength \in [Names -> Nat \ {0}]
  /\ \A v \in Values : v \in Seq(Names \cup {Slash}) /\ IsRawPath(v)
  /\ \A ps \in PrefixLists : \A i \in DOMAIN ps :
       ps[i] \in Seq(Names \cup {Slash}) \ {<< >>} /\ IsRawPath(ps[i])

VARIABLES
  value,      \* the claim value
  prefixes,   \* the configured prefixes
  untried,    \* indices of the prefixes not compared with the value yet
  claimed,    \* the path the value yields, as a set
  done        \* the loop has returned

vars == <<value, prefixes, untried, claimed, done>>

Characters(t) == IF t = Slash THEN 1 ELSE NameLength[t]

\* Characters of a raw path.
Length(raw) ==
  LET upto[n \in 0..Len(raw)] == IF n = 0 THEN 0 ELSE upto[n - 1] + Characters(raw[n])
  IN  upto[Len(raw)]

\* Faulty: the prefixes are tried in the order they were entered.
AsEntered(ps, i, j) == i < j

\* The order parsePrefixes sorts a list into; its sort is stable.
Before(ps, i, j) ==
  LET m == Length(ps[i])
      n == Length(ps[j])
  IN  m > n \/ (m = n /\ i < j)

\* Faulty: the remainder is taken even when it is empty.
TakeRemainder(path) == {path}

\* A value that equals a prefix strips to nothing and is dropped.
Taken(path) == {path} \ {<< >>}

Init ==
  /\ value \in Values
  /\ prefixes \in PrefixLists
  /\ untried = DOMAIN prefixes
  /\ claimed = {}
  /\ done = FALSE

\* The prefix whose turn it is.
InTurn(i) == i \in untried /\ \A j \in untried \ {i} : Before(prefixes, i, j)

TryPrefix(i) ==
  /\ ~done
  /\ InTurn(i)
  /\ untried' = untried \ {i}
  /\ LET path == Segments(value)
         prefix == Segments(prefixes[i])
     IN  /\ done' = Matches(path, prefix)
         /\ claimed' = IF done' THEN Taken(Strip(path, prefix)) ELSE {}
  /\ UNCHANGED <<value, prefixes>>

\* None of the prefixes matches: the value is used normalized.
KeepWhole ==
  /\ ~done
  /\ untried = {}
  /\ done' = TRUE
  /\ claimed' = Taken(Segments(value))
  /\ UNCHANGED <<value, prefixes, untried>>

Next == (\E i \in untried : TryPrefix(i)) \/ KeepWhole

Spec == Init /\ [][Next]_vars

-----------------------------------------------------------------------------
TypeOK ==
  /\ value \in Values
  /\ prefixes \in PrefixLists
  /\ untried \subseteq DOMAIN prefixes
  /\ claimed \subseteq Path
  /\ done \in BOOLEAN

\* A prefix as the documentation writes it: one slash before each name.
Documented(raw) ==
  /\ raw # << >> /\ Len(raw) % 2 = 0
  /\ \A k \in 1..Len(raw) : raw[k] = Slash <=> k % 2 = 1

\* Of prefixes written as documented, the longest matching one wins, whatever
\* the order of the list: of those that cover the value, the one with the most
\* segments is cut off; without one the whole value is used.
LongestPrefixWins ==
  LET path == Segments(value)
      covering == {q \in {Segments(prefixes[i]) : i \in DOMAIN prefixes} : Matches(path, q)}
      longest == {q \in covering : \A r \in covering : Len(r) <= Len(q)}
  IN  done /\ (\A i \in DOMAIN prefixes : Documented(prefixes[i])) =>
        claimed = (IF covering = {} THEN {path} ELSE {Strip(path, q) : q \in longest}) \ {<< >>}

=============================================================================
