--------------------------- MODULE MCSpnegoButton ---------------------------
(***************************************************************************)
(* Browser flows: the placements the README describes, and every flow of   *)
(* up to two levels with up to three executions each.                      *)
(***************************************************************************)
EXTENDS SpnegoButton

Step(req, does) == [req |-> req, does |-> does, on |-> TRUE]
Alternative(does) == Step("ALTERNATIVE", does)
Required(does) == Step("REQUIRED", does)
Conditional(does, on) == [req |-> "CONDITIONAL", does |-> does, on |-> on]

Cookie == Alternative("stays silent")
Form == Alternative("asks")
Path == Alternative("path")

AfterForms == << <<Cookie, Form, Path>> >>
StepUp(acr) ==
  << <<Cookie, Path>>,
     <<Required("path"), Conditional("asks", acr)>>,
     <<Form, Path>> >>
UnderCondition(holds) ==
  << <<Cookie, Form, Path>>,
     <<Conditional("path", holds)>>,
     <<Required("condition"), Path>> >>

ReadmeFlows == {AfterForms, StepUp(TRUE), StepUp(FALSE), UnderCondition(TRUE)}

\* A conditional step next to the alternatives, its condition being false.
NextToCondition == << <<Form, Conditional("asks", FALSE), Path>> >>

\* The button behind a condition that is false: there is none to offer.
NotOffered == UnderCondition(FALSE)

\* Levels of up to three executions in which no alternative is next to a
\* mandatory step.
Levels3 == SeqOf({Cookie, Form, Required("asks"), Path, Required("path")}, 3)
OnePath(level) == Cardinality({i \in DOMAIN level : level[i].does = "path"}) = 1
PathOf(level) == CHOOSE i \in DOMAIN level : level[i].does = "path"
IsAlternative(level) == level[PathOf(level)].req = "ALTERNATIVE"
GoodLevels ==
  {level \in Levels3 :
     /\ OnePath(level)
     /\ IsAlternative(level) => \A i \in DOMAIN level : level[i].req = "ALTERNATIVE"}
BottomLevels == {level \in GoodLevels : IsAlternative(level)}
GoodFlows == {<<level>> : level \in BottomLevels} \cup (GoodLevels \X BottomLevels)

\* The button is one choice among others, before or after them, or the flow
\* is one of the README.
HasForm(level) == IsAlternative(level) /\ \E i \in DOMAIN level : level[i].does = "asks"
ChoiceFlows ==
  {f \in GoodFlows : \E k \in DOMAIN f : HasForm(f[k])}
    \cup {NextToCondition, NotOffered} \cup ReadmeFlows

=============================================================================
