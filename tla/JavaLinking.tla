----------------------------- MODULE JavaLinking -----------------------------
(***************************************************************************)
(* What the Java runtime makes of class files: which declaration a         *)
(* reference finds, what a method overrides, which method a call selects.  *)
(* This is the yardstick for the API comparison (ApiDiff), which has to    *)
(* predict it from two class paths; it shares no definition with it.       *)
(*                                                                         *)
(* A class path is a function from names to class files, records with the  *)
(* fields super (NoClass at the top), interfaces, access, methods, fields  *)
(* and code; members are functions from names to sets of modifiers.  The   *)
(* JDK is the class Object, which is on no class path: what else classes   *)
(* inherit from the JDK, or call there, is left out.                       *)
(***************************************************************************)
EXTENDS Naturals, FiniteSets, SequencesExt

NoClass == "-"

DirectParents(f) == ({f.super} \cup Range(f.interfaces)) \ {NoClass}
IsInterface(f) == "interface" \in f.access
IsApi(flags) == flags \cap {"public", "protected"} # {}

\* Finitely many class files, each with a list of interfaces.
IsClassPath(cp) ==
  /\ IsFiniteSet(DOMAIN cp) /\ NoClass \notin DOMAIN cp
  /\ \A n \in DOMAIN cp : cp[n].interfaces \in Seq(Range(cp[n].interfaces))

\* All supertypes of n on class path cp, n included.
Ancestors(cp, n) ==
  LET up[k \in Nat] ==
        IF k = 0 THEN {n} \cap DOMAIN cp
        ELSE LET below == up[k - 1]
             IN  below \cup (DOMAIN cp \cap UNION {DirectParents(cp[t]) : t \in below})
  IN  up[Cardinality(DOMAIN cp)]

\* The classes a class inherits from, the class itself first.
SuperChain(cp, n) ==
  LET chain[k \in Nat] ==
        IF k = 0 THEN <<n>>
        ELSE LET below == chain[k - 1]
                 top == Last(below)
             IN  IF top \in DOMAIN cp /\ cp[top].super \in DOMAIN cp
                 THEN Append(below, cp[top].super) ELSE below
  IN  IF n \in DOMAIN cp THEN chain[Cardinality(DOMAIN cp)] ELSE << >>

\* The declarations a reference to a member of owner may find: the first in
\* the chain of superclasses, or else those of the interfaces; a constructor
\* is that of owner itself.
Found(cp, kind, owner, name) ==
  LET members(t) == IF kind = "field" THEN cp[t].fields ELSE cp[t].methods
      declares(t) == name \in DOMAIN members(t) /\ (name = "<init>" => t = owner)
      chain == SuperChain(cp, owner)
      declaring == {i \in DOMAIN chain : declares(chain[i])}
      anywhere == {t \in Ancestors(cp, owner) : declares(t)}
  IN  IF declaring # {}
      THEN {members(chain[CHOOSE i \in declaring : \A j \in declaring : i <= j])[name]}
      ELSE {members(t)[name] : t \in anywhere}

\* A reference links when it finds a member that is visible to other packages
\* and static exactly if the calling code expects it.
Links(cp, r, static) ==
  \E flags \in Found(cp, r.kind, r.owner, r.name) :
    IsApi(flags) /\ ("static" \in flags <=> static)

\* Superclasses of owner, it included, with a member of that name which is not
\* visible to other packages: a reference finds it all the same.
Hiding(cp, kind, owner, name) ==
  LET members(t) == IF kind = "field" THEN cp[t].fields ELSE cp[t].methods
  IN  {t \in Range(SuperChain(cp, owner)) : name \in DOMAIN members(t) /\ ~IsApi(members(t)[name])}

\* Supertypes of class file f whose declaration of method m it may override.
Overridden(cp, f, m) ==
  {t \in UNION {Ancestors(cp, p) : p \in DirectParents(f)} :
     /\ m \in DOMAIN cp[t].methods
     /\ IsApi(cp[t].methods[m])
     /\ "static" \notin cp[t].methods[m]}

Overriding(f) ==
  {m \in DOMAIN f.methods \ {"<init>"} :
     f.methods[m] \cap {"static", "private", "synthetic", "bridge"} = {}}

\* A final or static declaration in a superclass that f's method m runs into:
\* the class does not even load.
Clashes(cp, f, m) ==
  \E t \in Range(SuperChain(cp, f.super)) :
    m \in DOMAIN cp[t].methods /\ IsApi(cp[t].methods[m])
      /\ cp[t].methods[m] \cap {"static", "final"} # {}

\* A call of method m on an instance of class n selects no code: the first
\* class that declares it does so abstractly, or none does and no interface
\* has a default that is not made abstract again below it.
Unimplemented(cp, n, m) ==
  LET declares(t) ==
        m \in DOMAIN cp[t].methods /\ IsApi(cp[t].methods[m]) /\ "static" \notin cp[t].methods[m]
      abstractly(t) == "abstract" \in cp[t].methods[m]
      chain == SuperChain(cp, n)
      declaring == {i \in DOMAIN chain : declares(chain[i])}
      all == {t \in Ancestors(cp, n) : declares(t)}
      nearest == {t \in all : \A u \in all \ {t} : t \notin Ancestors(cp, u)}
  IN  IF declaring # {}
      THEN abstractly(chain[CHOOSE i \in declaring : \A j \in declaring : i <= j])
      ELSE nearest # {} /\ \A t \in nearest : abstractly(t)

MethodNames(cp) == UNION {DOMAIN cp[t].methods : t \in DOMAIN cp}

\* Method m is called, as an instance method of one of its supertypes, from a
\* class or interface that class file f inherits from.
CalledFromAbove(cp, f, m) ==
  LET above == UNION {Ancestors(cp, p) : p \in DirectParents(f)} IN
  \E t \in above : \E caller \in DOMAIN cp[t].code :
    \E i \in cp[t].code[caller] :
      i.op = "invoke" /\ i.entry.name = m /\ i.entry.owner \in above

-----------------------------------------------------------------------------
\* What the Java compiler accepts class file n of a release to inherit from.
LegalParents(cp, n) ==
  LET f == cp[n] IN
  /\ f.super \in DOMAIN cp => ~IsInterface(cp[f.super]) /\ "final" \notin cp[f.super].access
  /\ \A p \in DirectParents(f) \ {f.super} : p \in DOMAIN cp => IsInterface(cp[p])
  /\ DirectParents(f) \subseteq DOMAIN cp \cup {"Object"}
  /\ IsInterface(f) => f.super = "Object"
  /\ n \notin UNION {Ancestors(cp, p) : p \in DirectParents(f)}

\* What it accepts class file n to declare.
LegalMethods(cp, n) ==
  LET f == cp[n] IN
  \A m \in DOMAIN f.methods :
    /\ "abstract" \in f.methods[m] => f.access \cap {"abstract", "interface"} # {}
    /\ IsInterface(f) =>
         f.methods[m] \cap {"public", "private"} # {} /\ f.methods[m] \cap {"final", "protected"} = {}
    /\ \A t \in Ancestors(cp, n) \ {n} :
         m # "<init>" /\ m \in DOMAIN cp[t].methods /\ IsApi(cp[t].methods[m]) =>
           /\ "final" \notin cp[t].methods[m]
           /\ IsApi(f.methods[m])
           /\ "public" \in cp[t].methods[m] => "public" \in f.methods[m]
           /\ "static" \in cp[t].methods[m] <=> "static" \in f.methods[m]

\* What the Java compiler accepts of the classes of a release.
Compiles(cp) ==
  /\ "Object" \notin DOMAIN cp
  /\ \A n \in DOMAIN cp :
       /\ LegalParents(cp, n) /\ LegalMethods(cp, n)
       /\ cp[n].access \cap {"abstract", "interface"} = {} =>
            \A m \in MethodNames(cp) : ~Unimplemented(cp, n, m)
       /\ \A m \in DOMAIN cp[n].code : \A i \in cp[n].code[m] :
            Found(cp, i.entry.kind, i.entry.owner, i.entry.name) # {}

=============================================================================
