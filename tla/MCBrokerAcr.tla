---------------------------- MODULE MCBrokerAcr ----------------------------
(***************************************************************************)
(* Realms with two named levels, a number the map also names ("1" means    *)
(* the level of gold), and values the map does not know.                   *)
(***************************************************************************)
EXTENDS BrokerAcr

NamedAcrs == {"silver", "gold", "1"}
NamedLevels == [a \in NamedAcrs |-> IF a = "silver" THEN 1 ELSE 2]

\* A number without an entry in the map, and a value that means nothing here.
AllAcrs == NamedAcrs \cup {"3", "phr"}
Numbers == [a \in {"1", "3"} \cap Acrs |-> IF a = "1" THEN 1 ELSE 3]

AllClients == [minimum: Values, default: Values]

=============================================================================
