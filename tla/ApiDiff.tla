------------------------------- MODULE ApiDiff -------------------------------
(***************************************************************************)
(* The API comparison (ci/kc-compat/api_diff.py): does the compiled code   *)
(* of the extensions, unchanged, still fit the classes of a new Keycloak   *)
(* release?  The program reads two class paths and the own classes,        *)
(* collects what is relevant, and ends with a status; its issue variant    *)
(* shows the changed superclasses within a budget.                         *)
(*                                                                         *)
(* A method is identified by a name that stands for name and descriptor.   *)
(* A class path is [classes, sources]: class files by name (see            *)
(* JavaLinking) and the version of each source file there is.  Source text *)
(* counts in lines, the budget of the issue too.                           *)
(***************************************************************************)
EXTENDS JavaLinking

CONSTANTS
  ByName,      \* names of the types of Keycloak (WATCH_PREFIX), sorted
  Outer,       \* nested type -> the type whose source file it is in
  Programs,    \* compiled extensions, each a set of class files
  Releases,    \* class paths of the base release
  Edits(_),    \* class paths one change away from a class path
  MaxEdits,    \* changes between the two releases
  MaxDiff,     \* MAX_DIFF_LINES
  MinDiff,     \* the limit below which a diff is not shortened further
  Budget,      \* --issue-budget
  Heads,       \* sizes of the issue without class details
  Frames,      \* sizes of the details of one class without its diff
  DiffSizes,   \* lengths of a source diff
  Notices      \* lengths of the paragraph about details that did not fit

ASSUME SizeAssumption ==
  /\ MaxDiff \in Nat /\ MinDiff \in Nat /\ Budget \in Nat /\ MaxEdits \in Nat
  /\ Heads \subseteq Nat /\ Frames \subseteq Nat /\ DiffSizes \subseteq Nat
  /\ Notices \subseteq Nat

\* An interface is one in the attribute InnerClasses too.
OneKind(f) == f.name \in DOMAIN f.inner => ("interface" \in f.inner[f.name] <=> IsInterface(f))

\* Class files by name, ours before those of a class path.
With(o, classes) ==
  [n \in {c.name : c \in o} \cup DOMAIN classes |->
     IF n \in {c.name : c \in o} THEN CHOOSE c \in o : c.name = n ELSE classes[n]]

\* What a compiler makes of the classes of a release, and of ours, against a
\* release they are not part of: every member the constant pool names is
\* referred to by the code.
ASSUME InputAssumption ==
  /\ \A cp \in Releases :
       /\ IsClassPath(cp.classes) /\ Compiles(cp.classes)
       /\ \A t \in DOMAIN cp.classes : OneKind(cp.classes[t])
  /\ \A o \in Programs :
       /\ IsFiniteSet(o)
       /\ \A f, g \in o : f.name = g.name => f = g
       /\ \A f \in o :
            /\ f.name # NoClass /\ \A cp \in Releases : f.name \notin DOMAIN cp.classes
            /\ f.interfaces \in Seq(Range(f.interfaces))
            /\ {e \in f.pool : e.tag = "member"} = {i.entry : i \in UNION Range(f.code)}
            /\ OneKind(f)
            /\ IsInterface(f) => f.super = "Object"
            /\ "<clinit>" \in DOMAIN f.methods => "static" \in f.methods["<clinit>"]
       /\ \A cp \in Releases : Compiles(With(o, cp.classes))

Watched == Range(ByName)

VARIABLES
  own,       \* the classes of the extensions
  old, new,  \* the two class paths
  edits,     \* number of changes made for the new release
  stage,     \* "release", "issue" or "done"
  report,    \* what analyse() returns
  issue,     \* the issue variant as far as it is written; size is the sum the
             \* program compares with the budget, notice what it adds at the end
  block,     \* the class whose details are being written, and its diff
  status     \* what the status file says

vars == <<own, old, new, edits, stage, report, issue, block, status>>

-----------------------------------------------------------------------------
(***************************************************************************)
(* Class files and class paths.                                            *)
(***************************************************************************)

\* A class read from its file: calls only counts invoke instructions, refs and
\* types everything the constant pool mentions; a nested class keeps its
\* declared visibility in the attribute InnerClasses only.
parse_class(f) ==
  [name |-> f.name, super |-> f.super, interfaces |-> f.interfaces,
   access |-> IF f.name \in DOMAIN f.inner THEN f.inner[f.name] ELSE f.access,
   fields |-> f.fields, methods |-> f.methods,
   calls |-> [m \in DOMAIN f.code |->
                {<<i.entry.owner, i.entry.name>> : i \in {j \in f.code[m] : j.op = "invoke"}}],
   refs |-> {e \in f.pool : e.tag = "member"},
   types |-> {e.of : e \in {x \in f.pool : x.tag = "class" \/ (x.tag = "descriptor" /\ x.of \in Watched)}}]

Absent == [name |-> NoClass]

get(cp, n) == IF n \in DOMAIN cp.classes THEN parse_class(cp.classes[n]) ELSE Absent
Has(cp, n) == n \in DOMAIN cp.classes

TopLevel(n) == IF n \in DOMAIN Outer THEN Outer[n] ELSE n

\* The source of a type: its version, or 0 if there is none.
source(cp, n) == IF TopLevel(n) \in DOMAIN cp.sources THEN cp.sources[TopLevel(n)] ELSE 0

\* A type whose source is the same has the same members and code.
SourcesTell(was, is) ==
  \A t \in (DOMAIN was.classes \cap DOMAIN is.classes) \ DOMAIN Outer :
    LET c == was.classes[t]  d == is.classes[t] IN
    source(was, t) = source(is, t) /\ source(is, t) # 0 =>
      c.access = d.access /\ c.fields = d.fields /\ c.methods = d.methods /\ c.code = d.code

\* Faulty: only the superclasses.
SuperclassesOnly(cp, n) == SuperChain(cp.classes, n)

\* The loop of supertypes: the first name on the list is a type not seen yet,
\* whose parents join the list, or it is dropped.
Turn(cp, seen, todo) ==
  IF Contains(seen, Head(todo)) \/ ~Has(cp, Head(todo)) THEN <<seen, Tail(todo)>>
  ELSE LET c == cp.classes[Head(todo)]
       IN  <<Append(seen, Head(todo)), Tail(todo) \o <<c.super>> \o c.interfaces>>

\* All supertypes of n that the class path has, breadth first.
supertypes(cp, n) ==
  LET names == DOMAIN cp.classes \cup {n, NoClass} \cup UNION {DirectParents(f) : f \in Range(cp.classes)}
      walk[w \in Seq(names) \X Seq(names)] ==
        IF w[2] = << >> THEN w[1] ELSE walk[Turn(cp, w[1], w[2])]
  IN  walk[<< << >>, <<n>> >>]

Supertypes(cp, n) == ToSet(supertypes(cp, n))

members(c, kind) == IF kind = "field" THEN c.fields ELSE c.methods

\* The first of the types that declares a member, or NoClass.
FirstOf(cp, types, kind, name) ==
  LET declaring == {i \in DOMAIN types : name \in DOMAIN members(cp.classes[types[i]], kind)}
  IN  IF declaring = {} THEN NoClass
      ELSE types[CHOOSE i \in declaring : \A j \in declaring : i <= j]

\* Faulty: the owner only.
ResolveInOwner(cp, kind, owner, name) ==
  IF Has(cp, owner) THEN FirstOf(cp, <<owner>>, kind, name) ELSE NoClass

\* Where a member is found, in owner and all of its supertypes.
resolve(cp, kind, owner, name) == FirstOf(cp, supertypes(cp, owner), kind, name)

\* Methods within types that invoke the method name on one of types.
callers_in(cp, types, name) ==
  {c \in UNION {{t} \X DOMAIN get(cp, t).calls : t \in types} :
     \E target \in types : <<target, name>> \in get(cp, c[1]).calls[c[2]]}

-----------------------------------------------------------------------------
(***************************************************************************)
(* analyse(): relevant types and who they matter to.                       *)
(***************************************************************************)

Parents(c) == ({c.super} \cup Range(c.interfaces)) \ {NoClass}
Mentioned(c) == c.types \cup {r.owner : r \in c.refs}

\* Faulty: everything that is a supertype, from the JDK or not.
InheritedAnywhere(o, cp) ==
  UNION {Parents(c) \cup UNION {Supertypes(cp, p) : p \in Parents(c)} : c \in o}

inherited(o, cp) ==
  Watched \cap UNION {UNION {Supertypes(cp, p) : p \in Parents(c)} : c \in o}

\* What the own code mentions or inherits from, and all supertypes of it.
relevant(o, cp) ==
  LET direct == (Watched \cap UNION {Mentioned(c) : c \in o}) \cup inherited(o, cp)
  IN  direct \cup (Watched \cap UNION {Supertypes(cp, t) : t \in direct})

\* Own classes from which a chain of supertypes leads to t.
inheritance_paths(o, cp, t) ==
  LET all == [classes |-> With(o, cp.classes)]
  IN  {c.name : c \in {x \in o : \E s \in Supertypes(all, x.name) : t \in Parents(all.classes[s])}}

users(o, t) == {c.name : c \in {x \in o : t \in Mentioned(x)}}

\* Faulty: one level up only.
ViaParent(o, cp, t) ==
  {u \in Watched \ {t} : users(o, u) # {} /\ Has(cp, u) /\ t \in Parents(get(cp, u))}

\* Used types that have t as a supertype.
via(o, cp, t) ==
  {u \in Watched \ {t} : users(o, u) # {} /\ t \in Supertypes(cp, u)}

\* The column "Our classes" of the table of changed classes.
our_classes_cell(o, cp, t) ==
  IF t \in inherited(o, cp) THEN inheritance_paths(o, cp, t)
  ELSE IF users(o, t) # {} THEN users(o, t)
  ELSE via(o, cp, t)

-----------------------------------------------------------------------------
(***************************************************************************)
(* analyse(): what is compared.                                            *)
(***************************************************************************)

Problem(what, class, name) == [what |-> what, class |-> class, name |-> name]

\* References that resolve in the old release and not in the new one.
LinkageProblems(o, was, is) ==
  UNION {{Problem("reference", c.name, r.name) : r \in {x \in c.refs :
            /\ x.owner \in Watched
            /\ resolve(was, x.kind, x.owner, x.name) # NoClass
            /\ ~Has(is, x.owner) \/ resolve(is, x.kind, x.owner, x.name) = NoClass}} : c \in o}

IsOverride(c, m) ==
  m \notin {"<init>", "<clinit>"} /\ c.methods[m] \cap {"static", "private", "synthetic", "bridge"} = {}

\* Methods of our class c that override one of a superclass, or of an interface
\* of a superclass.
overriding(c, was) ==
  {m \in DOMAIN c.methods :
     LET decl == FirstOf(was, supertypes(was, c.super), "method", m) IN
       /\ IsOverride(c, m)
       /\ decl # NoClass
       /\ IsApi(was.classes[decl].methods[m])
       /\ "static" \notin was.classes[decl].methods[m]}

\* Where method m of our class c was and is declared, and who calls it there.
OverrideRow(c, m, was, is) ==
  LET before == supertypes(was, c.super)
      after == supertypes(is, c.super)
      decl == FirstOf(was, before, "method", m)
      now == FirstOf(is, after, "method", m)
      flags == is.classes[now].methods[m]
  IN  [ours |-> c.name, name |-> m, decl |-> decl,
       inClass |-> "interface" \notin get(was, decl).access,
       chain |-> ToSet(before),
       state |-> IF now = NoClass THEN "removed"
                 ELSE IF ~IsApi(flags) \/ flags \cap {"static", "final"} # {} THEN "barred"
                 ELSE IF now # decl THEN "moved" ELSE "unchanged",
       callers |-> callers_in(is, ToSet(after), m),
       callers_old |-> callers_in(was, ToSet(before), m)]

Overrides(o, was, is) ==
  UNION {{OverrideRow(c, m, was, is) : m \in overriding(c, was)} :
           c \in {x \in o : "interface" \notin x.access /\ x.super # NoClass}}

OverrideProblems(rows) ==
  {Problem("override", r.ours, r.name) : r \in {x \in rows : x.state \in {"removed", "barred"}}}

\* Overrides of a class method that nothing above calls any more.
Unused(rows) == {r \in rows : r.inClass /\ r.callers_old # {} /\ r.callers = {}}

\* Abstract methods the new release adds above a concrete class of ours, and
\* neither it nor a superclass of it implements.
NewAbstract(o, was, is) ==
  LET isAbstract(cp, t, m) == m \in DOMAIN cp.classes[t].methods /\ "abstract" \in cp.classes[t].methods[m]
      implements(t, m) == m \in DOMAIN is.classes[t].methods /\ ~isAbstract(is, t, m)
      missing(c) ==
        UNION {{<<t, m>> : m \in {x \in DOMAIN is.classes[t].methods :
                  /\ isAbstract(is, t, x)
                  /\ ~(Has(was, t) /\ isAbstract(was, t, x))
                  /\ x \notin DOMAIN c.methods
                  /\ ~\E s \in Supertypes(is, c.super) : implements(s, x)}} :
                t \in UNION {Supertypes(is, p) : p \in Parents(c)}}
  IN  UNION {{Problem("abstract", c.name, a[2]) : a \in missing(c)} :
               c \in {x \in o : x.access \cap {"abstract", "interface"} = {}}}

Compared == {"public", "protected", "private", "static", "final", "abstract"}

\* Faulty: members that stay are not looked at.
AddedOrRemoved(was, is) ==
  {m \in (DOMAIN was \cup DOMAIN is) \ (DOMAIN was \cap DOMAIN is) :
     IsApi(IF m \in DOMAIN was THEN was[m] ELSE is[m])}

\* Faulty: additions are not noted.
RemovedOrModified(was, is) ==
  {m \in DOMAIN was :
     IF m \in DOMAIN is
     THEN (IsApi(was[m]) \/ IsApi(is[m])) /\ was[m] \cap Compared # is[m] \cap Compared
     ELSE IsApi(was[m])}

\* Changes of the members of a type that other packages can see.
MemberNotes(was, is) ==
  {m \in DOMAIN was \cup DOMAIN is :
     IF m \in DOMAIN was /\ m \in DOMAIN is
     THEN (IsApi(was[m]) \/ IsApi(is[m])) /\ was[m] \cap Compared # is[m] \cap Compared
     ELSE IsApi(IF m \in DOMAIN was THEN was[m] ELSE is[m])}

\* API notes of a type: hierarchy and members.  The modifiers of the type
\* itself are not compared.
Changed(was, is, t) ==
  LET c == get(was, t)  d == get(is, t) IN
  \/ c.super # d.super
  \/ ToSet(c.interfaces) # ToSet(d.interfaces)
  \/ MemberNotes(c.methods, d.methods) # {} \/ MemberNotes(c.fields, d.fields) # {}

\* The source of a nested type counts as a change of its top-level type only.
SourceDiff(was, is, t) ==
  /\ t \notin DOMAIN Outer
  /\ source(was, t) # 0 /\ source(is, t) # 0
  /\ source(was, t) # source(is, t)

Removed(types, was, is) ==
  {Problem("class", t, NoClass) : t \in {x \in types : Has(was, x) /\ ~Has(is, x)}}

Findings(types, was, is) ==
  {t \in types : Has(was, t) /\ Has(is, t) /\ (Changed(was, is, t) \/ SourceDiff(was, is, t))}

\* Visible methods our superclasses did not have.
NewMethods(types, was, is) ==
  UNION {{<<t, m>> : m \in {x \in DOMAIN is.classes[t].methods \ DOMAIN was.classes[t].methods :
              IsApi(is.classes[t].methods[x]) /\ x # "<init>"
                /\ "synthetic" \notin is.classes[t].methods[x]}} :
           t \in {x \in types : Has(was, x) /\ Has(is, x)}}

\* Types the old release did not have: nested in a superclass of ours, or
\* mentioned by one.
NewTypes(types, was, is) ==
  UNION {{<<t, n>> : n \in {x \in DOMAIN is.classes \ DOMAIN was.classes :
              \/ x \in DOMAIN Outer /\ Outer[x] = t
              \/ x \in Watched /\ x \in get(is, t).types}} :
           t \in {x \in types : Has(was, x) /\ Has(is, x)}}

Analysis(o, was, is) ==
  LET types == relevant(o, was)
      rows == Overrides(o, was, is)
  IN  [relevant |-> types,
       inherited |-> inherited(o, was),
       problems |-> LinkageProblems(o, was, is) \cup OverrideProblems(rows)
                      \cup NewAbstract(o, was, is) \cup Removed(types, was, is),
       attention |-> Unused(rows),
       overrides |-> {r \in rows : r.inClass},
       findings |-> Findings(types, was, is),
       new_methods |-> NewMethods(inherited(o, was), was, is),
       new_types |-> NewTypes(inherited(o, was), was, is)]

Status(r) ==
  IF r.problems # {} THEN "FAIL"
  ELSE IF r.attention # {} \/ r.findings # {} THEN "WARN" ELSE "PASS"

-----------------------------------------------------------------------------
(***************************************************************************)
(* The issue variant: details of the changed superclasses, each with as    *)
(* much of its diff as fits.                                               *)
(***************************************************************************)

\* The details of a class, its diff cut off after limit lines.
BlockSize(frame, diff, limit) == frame + IF diff > limit THEN limit + 1 ELSE diff

Empty == [relevant |-> {}, inherited |-> {}, problems |-> {}, attention |-> {}, overrides |-> {},
          findings |-> {}, new_methods |-> {}, new_types |-> {}]

NoBlock == [class |-> NoClass, frame |-> 0, diff |-> 0, limit |-> 0]

Init ==
  /\ own \in Programs
  /\ old \in Releases
  /\ new = old
  /\ edits = 0
  /\ stage = "release"
  /\ report = Empty
  /\ issue = [head |-> 0, size |-> 0, full |-> 0, notice |-> 0,
              shown |-> {}, cut |-> {}, skipped |-> {}]
  /\ block = NoBlock
  /\ status = "none"

\* Keycloak goes on: a class changes together with its source, and what is
\* released compiles.
Develop ==
  /\ stage = "release"
  /\ edits < MaxEdits
  /\ new' \in Edits(new) /\ IsClassPath(new'.classes) /\ SourcesTell(old, new')
  /\ \A f \in own : f.name \notin DOMAIN new'.classes
  /\ edits' = edits + 1
  /\ edits' = MaxEdits => Compiles(new'.classes)
  /\ UNCHANGED <<own, old, stage, report, issue, block, status>>

\* analyse(), and the parts of the issue that are never left out.
Compare ==
  /\ stage = "release"
  /\ Compiles(new.classes)
  /\ report' = Analysis({parse_class(f) : f \in own}, old, new)
  /\ \E head \in Heads : issue' = [issue EXCEPT !.head = head, !.size = head, !.full = head]
  /\ stage' = "issue"
  /\ UNCHANGED <<own, old, new, edits, block, status>>

\* The changed superclasses that still have to be shown.
Pending == (report.findings \cap report.inherited) \ (issue.shown \cup issue.skipped)

Size == issue.size + BlockSize(block.frame, block.diff, block.limit)

\* Faulty: the frame of the details is not counted.
DiffFits == Size - block.frame <= Budget

\* Faulty: exactly the budget is too much.
FitsStrictly == Size < Budget

Fits == Size <= Budget

\* render_class_details for the next class, with as much of its diff as is
\* ever shown.
RenderClass ==
  /\ stage = "issue" /\ block = NoBlock
  /\ \E i \in DOMAIN ByName, frame \in Frames, diff \in DiffSizes :
       /\ ByName[i] \in Pending
       /\ \A j \in DOMAIN ByName : ByName[j] \in Pending => i <= j
       /\ diff > 0 => SourceDiff(old, new, ByName[i])
       /\ block' = [class |-> ByName[i], frame |-> frame, diff |-> diff, limit |-> MaxDiff]
       /\ issue' = [issue EXCEPT !.full = @ + BlockSize(frame, diff, MaxDiff)]
  /\ UNCHANGED <<own, old, new, edits, stage, report, status>>

\* Half of the diff is tried.
Shorten ==
  /\ block # NoBlock
  /\ ~Fits /\ block.limit > MinDiff
  /\ block' = [block EXCEPT !.limit = @ \div 2]
  /\ UNCHANGED <<own, old, new, edits, stage, report, issue, status>>

\* The class is shown, cut or not.
AppendClass ==
  /\ block # NoBlock /\ Fits
  /\ issue' = [issue EXCEPT !.shown = @ \cup {block.class}, !.size = Size,
                            !.cut = IF block.diff > block.limit /\ block.limit < MaxDiff
                                    THEN @ \cup {block.class} ELSE @]
  /\ block' = NoBlock
  /\ UNCHANGED <<own, old, new, edits, stage, report, status>>

SkipClass ==
  /\ block # NoBlock
  /\ ~Fits /\ block.limit <= MinDiff
  /\ issue' = [issue EXCEPT !.skipped = @ \cup {block.class}]
  /\ block' = NoBlock
  /\ UNCHANGED <<own, old, new, edits, stage, report, status>>

\* The issue is written, with a paragraph about the classes left out if there
\* are any, then the status.
Finish ==
  /\ stage = "issue" /\ block = NoBlock
  /\ Pending = {}
  /\ \E notice \in IF issue.skipped = {} THEN {0} ELSE Notices :
       issue' = [issue EXCEPT !.notice = notice]
  /\ status' = Status(report)
  /\ stage' = "done"
  /\ UNCHANGED <<own, old, new, edits, report, block>>

Next == Develop \/ Compare \/ RenderClass \/ Shorten \/ AppendClass \/ SkipClass \/ Finish

Spec == Init /\ [][Next]_vars

-----------------------------------------------------------------------------
(***************************************************************************)
(* Correctness: the verdict against what the runtime will do (JavaLinking). *)
(***************************************************************************)

TypeOK ==
  /\ own \in Programs
  /\ old \in Releases
  /\ edits \in 0..MaxEdits
  /\ stage \in {"release", "issue", "done"}
  /\ report.findings \cup report.inherited \subseteq Watched
  /\ issue.size \in Nat /\ issue.full \in Nat /\ issue.head \in Nat
  /\ issue.notice \in Nat
  /\ issue.shown \cup issue.cut \cup issue.skipped \subseteq Watched
  /\ block.frame \in Nat /\ block.diff \in Nat /\ block.limit \in 0..MaxDiff
  /\ status \in {"none", "PASS", "WARN", "FAIL"}

WithOwn(cp) == With(own, cp.classes)

\* What the code of f refers to, in classes of Keycloak.
Uses(f) == {i \in UNION Range(f.code) : i.entry.owner \in Watched}

Gone(f) ==
  {i.entry.name : i \in {j \in Uses(f) :
     /\ Found(old.classes, j.entry.kind, j.entry.owner, j.entry.name) # {}
     /\ Found(new.classes, j.entry.kind, j.entry.owner, j.entry.name) = {}}}

Broken(f) ==
  {i \in Uses(f) : Links(old.classes, i.entry, i.static) /\ ~Links(new.classes, i.entry, i.static)}

OverriddenBefore(f) == {m \in Overriding(f) : Overridden(old.classes, f, m) # {}}
Lost(f) == {m \in OverriddenBefore(f) : Overridden(new.classes, f, m) = {}}
Clashing(f) == {m \in OverriddenBefore(f) : Clashes(new.classes, f, m)}
NotCalled(f) ==
  {m \in OverriddenBefore(f) : CalledFromAbove(old.classes, f, m) /\ ~CalledFromAbove(new.classes, f, m)}

Missing(f) ==
  IF f.access \cap {"abstract", "interface"} # {} THEN {}
  ELSE {m \in MethodNames(WithOwn(new)) :
          Unimplemented(WithOwn(new), f.name, m) /\ ~Unimplemented(WithOwn(old), f.name, m)}

Sealed(f) == Has(new, f.super) /\ "final" \in new.classes[f.super].access

\* Uses of a member, and the types where one of the same name hides it which
\* others cannot see.
HiddenBy(i) == Hiding(new.classes, i.entry.kind, i.entry.owner, i.entry.name)
Hidden(f) == {i \in Uses(f) : HiddenBy(i) # {}}

\* The jars of Keycloak may bring along classes of other packages, which are on
\* the class paths but not compared.
LibrariesUnchanged ==
  \A t \in DOMAIN old.classes \ Watched : Has(new, t) /\ new.classes[t] = old.classes[t]

\* A change in the body of these types would be seen in their sources.
SourcesCompared(types) ==
  \A t \in types : t \notin DOMAIN Outer /\ source(old, t) # 0 /\ source(new, t) # 0

\* Of these types, those with calls.
Calling(types) ==
  {t \in types : \E cp \in {old, new} : Has(cp, t) /\ \E m \in DOMAIN get(cp, t).calls : get(cp, t).calls[m] # {}}

\* "No relevant class changed" is said only when the old jars keep working:
\* every reference links, every override still overrides, no method lacks its
\* code.  That a superclass became final, that a method is no longer called
\* from above, or that a new private member hides one from further up, is seen
\* in the sources only.
PassMeansNothingBreaks ==
  status = "PASS" /\ LibrariesUnchanged => \A f \in own :
    /\ Broken(f) \subseteq Hidden(f) /\ Lost(f) = {} /\ Clashing(f) = {} /\ Missing(f) = {}
    /\ SourcesCompared(UNION {HiddenBy(i) : i \in Hidden(f)}) => Broken(f) = {}
    /\ SourcesCompared(Calling(UNION {Supertypes(old, p) : p \in Parents(f)})) => NotCalled(f) = {}
    /\ SourcesCompared({f.super}) => ~Sealed(f)

\* Nor is there anything to tell then: no new method of a superclass, no
\* override that moved or is called from elsewhere.
PassMeansNothingNew ==
  status = "PASS" /\ LibrariesUnchanged =>
    /\ report.new_methods = {}
    /\ \A r \in report.overrides :
         r.state = "unchanged" /\ (SourcesCompared(Calling(r.chain)) => r.callers = r.callers_old)

ProblemsOf(f, what) == {p.name : p \in {q \in report.problems : q.what = what /\ q.class = f.name}}

\* A reference is reported as broken exactly when the runtime finds its member
\* in the old release and none in the new one, however far up it is declared.
\* A constructor is not inherited, though the program looks for it further up.
ReferencesJudgedRight ==
  stage # "release" => \A f \in own : ProblemsOf(f, "reference") \ {"<init>"} = Gone(f) \ {"<init>"}

\* Methods whose first declaration breadth first tells what the runtime makes
\* of the others: all above are visible, all or none of them static, and when a
\* class declares the method the first one is a class.
Plain(cp, f) ==
  {m \in DOMAIN f.methods :
     LET above == {t \in Ancestors(cp.classes, f.super) : m \in DOMAIN cp.classes[t].methods}
         classes == {t \in above : ~IsInterface(cp.classes[t])}
     IN  /\ \A t \in above : IsApi(cp.classes[t].methods[m])
         /\ \A t, u \in above : "static" \in cp.classes[t].methods[m] => "static" \in cp.classes[u].methods[m]
         /\ classes # {} => resolve(cp, "method", f.super, m) \in classes}

\* Methods of f that a class above it declares.
OfClass(cp, f) ==
  {m \in DOMAIN f.methods : \E t \in Ancestors(cp.classes, f.super) :
     ~IsInterface(cp.classes[t]) /\ m \in DOMAIN cp.classes[t].methods}

\* For a class that only extends, and methods that are plain in both releases:
\* an incompatible override is one that overrides nothing any more or runs into
\* a final or static method, and attention is asked for the one of a class that
\* was called from above and is not.
OverridesJudgedRight ==
  stage # "release" => \A f \in own : f.interfaces = << >> =>
    LET plain == Plain(old, f) \cap Plain(new, f)
        unused == {r.name : r \in {q \in report.attention : q.ours = f.name}}
    IN  /\ plain \cap ProblemsOf(f, "override") = plain \cap (Lost(f) \cup Clashing(f))
        /\ plain \cap OfClass(old, f) \cap NotCalled(f) = plain \cap unused

\* Every changed class of the report says which of our classes it matters to.
EveryRowNamesOurClass ==
  stage # "release" =>
    \A t \in report.findings : our_classes_cell({parse_class(f) : f \in own}, old, t) # {}

\* What is written exceeds the budget in two cases only: the part that is never
\* left out is too long by itself, or a class was left out, and then what is
\* too long is the paragraph that says so, which nothing compares with the
\* budget any more.
IssueFits ==
  issue.size + issue.notice > Budget =>
    \/ issue.head > Budget /\ issue.size = issue.head
    \/ issue.skipped # {} /\ issue.size <= Budget

\* Details are cut or left out only if the issue with all of them exceeds the
\* budget.
NothingOmittedThatFits == issue.cut \cup issue.skipped # {} => issue.full > Budget

\* The docstring (api_diff.py:15): every method that overrode something must
\* still override it, or the comparison fails.  It does not hold for interfaces
\* our class implements itself (README, section 6).
LostOverridesFail == stage = "done" /\ (\E f \in own : Lost(f) # {}) => status = "FAIL"

=============================================================================
