------------------------------ MODULE MCApiDiff ------------------------------
(***************************************************************************)
(* A small Keycloak for ApiDiff: an interface with a subinterface, a chain *)
(* of superclasses whose top is a nested class that extends one of another *)
(* package, and a helper.  One class of ours extends, the other only       *)
(* implements.  In one base release the method we override is declared by  *)
(* the nested class, and an interface declares it nearer to us.  A release *)
(* changes one member, parent, access flag or method body at a time.       *)
(***************************************************************************)
EXTENDS ApiDiff

MCByName == <<"Base", "Fresh", "Mid", "Part", "Spi", "Sub", "Util">>

MCOuter == [Part |-> "Util", Fresh |-> "Mid"] \* the simple names of Util$Part, Mid$Fresh

Ref(kind, owner, name) == [tag |-> "member", kind |-> kind, owner |-> owner, name |-> name]
Mention(n) == [tag |-> "class", of |-> n]

Use(op, kind, owner, name, static) == [op |-> op, entry |-> Ref(kind, owner, name), static |-> static]

NoMembers == [n \in {} |-> {}]

Without(g, n) == [x \in DOMAIN g \ {n} |-> g[x]]

\* A class file; the constant pool holds what it inherits from and refers to.
File(name, super, interfaces, access, methods, fields, code) ==
  [name |-> name, super |-> super, interfaces |-> interfaces, access |-> access,
   inner |-> IF name \in DOMAIN MCOuter THEN name :> access ELSE NoMembers,
   methods |-> methods, fields |-> fields, code |-> code,
   pool |-> {Mention(p) : p \in {super} \cup Range(interfaces)}
              \cup {i.entry : i \in UNION Range(code)}]

Extending ==
  File("OurMid", "Mid", << >>, {"public"}, "m" :> {"public"} @@ "<init>" :> {"public"}, NoMembers,
       "<init>" :> {Use("invoke", "method", "Mid", "<init>", FALSE)} @@
       "m" :> {Use("invoke", "method", "Mid", "h", FALSE), Use("invoke", "method", "Mid", "d", FALSE),
               Use("invoke", "method", "Mid", "g", FALSE),
               Use("invoke", "method", "Util", "u", TRUE), Use("get", "field", "Mid", "v", FALSE)})

Implementing ==
  LET f == File("OurSpi", "Object", <<"Sub">>, {"public"}, "m" :> {"public"}, NoMembers,
                "m" :> {Use("get", "field", "Util", "f", TRUE)})
  IN  [f EXCEPT !.pool = @ \cup {[tag |-> "descriptor", of |-> "Mid"]}]

MCPrograms == {{Extending}, {Implementing}}

Interface(name, interfaces, methods) ==
  File(name, "Object", interfaces, {"public", "interface", "abstract"}, methods, NoMembers, NoMembers)

Types ==
  LET files == {
    Interface("Spi", << >>, "m" :> {"public", "abstract"} @@ "d" :> {"public"}),
    Interface("Sub", <<"Spi">>, NoMembers),
    File("Lib", "Object", << >>, {"public"}, "g" :> {"public"}, NoMembers, NoMembers),
    File("Part", "Lib", << >>, {"public", "static"}, "h" :> {"protected"}, NoMembers, NoMembers),
    File("Base", "Part", <<"Spi">>, {"public", "abstract"}, "m" :> {"public"} @@ "<init>" :> {"protected"},
         "v" :> {"protected"}, NoMembers),
    File("Mid", "Base", << >>, {"public"}, "run" :> {"public"} @@ "<init>" :> {"public"}, NoMembers,
         "run" :> {Use("invoke", "method", "Mid", "m", FALSE)}),
    File("Util", "Object", << >>, {"public"}, "u" :> {"public", "static"},
         "f" :> {"public", "static"}, NoMembers)}
  IN  [n \in {f.name : f \in files} |-> CHOOSE f \in files : f.name = n]

\* The interface is one of Mid, and the method one of Part.
Nearer ==
  [Types EXCEPT !["Part"].methods = "m" :> {"public"} @@ @,
                !["Base"].methods = Without(@, "m"), !["Base"].interfaces = << >>,
                !["Mid"].interfaces = <<"Spi">>]

Sources == [n \in {"Spi", "Sub", "Base", "Mid", "Util"} |-> 1]

MCReleases ==
  {[classes |-> Types, sources |-> Sources], [classes |-> Types, sources |-> << >>],
   [classes |-> Nearer, sources |-> Sources]}

-----------------------------------------------------------------------------
\* The next version of a type's source.
Touch(cp, t) ==
  [cp EXCEPT !.sources = [n \in DOMAIN @ |-> IF n = TopLevel(t) THEN @[n] + 1 ELSE @[n]]]

SetMethod(cp, t, m, flags) == [Touch(cp, t) EXCEPT !.classes[t].methods = (m :> flags) @@ @]

DropMethod(cp, t, m) ==
  [Touch(cp, t) EXCEPT !.classes[t].methods = Without(@, m), !.classes[t].code = Without(@, m)]

InterfaceFlags == {{"public", "abstract"}, {"public"}}
ClassFlags == {{"public"}, {"private"}, {"public", "static"}, {"public", "final"}, {"public", "abstract"}}

MemberEdits(cp) ==
  {SetMethod(cp, t, "m", flags) : t \in {"Spi", "Sub"} \cap DOMAIN cp.classes, flags \in InterfaceFlags}
  \cup {SetMethod(cp, t, "n", flags) : t \in {"Spi"} \cap DOMAIN cp.classes, flags \in InterfaceFlags}
  \cup {SetMethod(cp, t, "m", flags) : t \in {"Part", "Base", "Mid"} \cap DOMAIN cp.classes,
                                       flags \in ClassFlags}
  \cup {SetMethod(cp, t, "h", flags) : t \in {"Part", "Mid"} \cap DOMAIN cp.classes,
                                       flags \in {{"protected"}, {"private"}}}
  \cup {SetMethod(cp, t, "d", {"private"}) : t \in {"Part"} \cap DOMAIN cp.classes}
  \cup {SetMethod(cp, t, "n", flags) : t \in {"Base"} \cap DOMAIN cp.classes, flags \in InterfaceFlags}
  \cup {SetMethod(cp, t, "g", {"public", "static"}) : t \in {"Lib"} \cap DOMAIN cp.classes}
  \cup {SetMethod(cp, t, "u", {"public"}) : t \in {"Util"} \cap DOMAIN cp.classes}
  \cup UNION {{DropMethod(cp, t, m) : m \in DOMAIN cp.classes[t].methods} : t \in DOMAIN cp.classes}
  \cup {[Touch(cp, "Util") EXCEPT !.classes["Util"].fields = NoMembers] : t \in {"Util"} \cap DOMAIN cp.classes}

FieldEdits(cp) ==
  {[Touch(cp, t) EXCEPT !.classes[t].fields = v] :
     t \in {"Base", "Mid"} \cap DOMAIN cp.classes, v \in {NoMembers, "v" :> {"protected"}, "v" :> {"private"}}}

TypeEdits(cp) ==
  {[Touch(cp, t) EXCEPT !.classes = Without(@, t)] : t \in DOMAIN cp.classes}
  \cup {[Touch(cp, t) EXCEPT !.classes[t].super = s, !.classes[t].pool = @ \cup {Mention(s)}] :
          t \in {"Base", "Mid"} \cap DOMAIN cp.classes, s \in {"Object", "Part", "Fresh"}}
  \cup {[Touch(cp, t) EXCEPT !.classes[t].interfaces = i] :
          t \in {"Base", "Sub"} \cap DOMAIN cp.classes, i \in {<< >>, <<"Sub">>}}
  \cup {[Touch(cp, t) EXCEPT !.classes[t].access = @ \cup {"final"}] : t \in {"Mid"} \cap DOMAIN cp.classes}
  \cup {[Touch(cp, "Mid") EXCEPT !.classes =
           ("Fresh" :> File("Fresh", "Object", << >>, {"public"}, "h" :> {"protected"}, NoMembers, NoMembers)) @@ @]}

BodyEdits(cp) ==
  {[Touch(cp, t) EXCEPT !.classes[t].code = NoMembers] : t \in {"Mid"} \cap DOMAIN cp.classes}
  \cup {Touch(cp, t) : t \in {"Mid", "Spi"}}

MCEdits(cp) == MemberEdits(cp) \cup FieldEdits(cp) \cup TypeEdits(cp) \cup BodyEdits(cp)

=============================================================================
