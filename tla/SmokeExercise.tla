---------------------------- MODULE SmokeExercise ----------------------------
(***************************************************************************)
(* smoke_exercise.py: checks against a running Keycloak that every         *)
(* provider of expected-providers.txt is loaded and can be configured or   *)
(* executed.  The program talks to whatever server listens on the port;    *)
(* servers may die, and another may have the port.                         *)
(***************************************************************************)
EXTENDS Naturals, SequencesExt

CONSTANTS
  Expected   \* expected-providers.txt: sequence of [spi, id]

Spis == {"authenticator", "required-action", "identity-provider-mapper", "protocol-mapper"}

Ids == {Expected[i].id : i \in DOMAIN Expected}

\* What the program calls the other things it creates.
OtherNames == {"no provider", "no realm", "flow", "idp", "user", "client"}

\* There are some, and each once: the program would find its mapper there the second time.
\* It creates one client, for one protocol mapper.
ASSUME ExpectedAssumption ==
  /\ Expected \in Seq([spi : Spis, id : STRING]) /\ Expected # << >>
  /\ \A i, j \in DOMAIN Expected : Expected[i] = Expected[j] => i = j
  /\ \A i, j \in DOMAIN Expected :
       Expected[i].spi = "protocol-mapper" /\ Expected[j].spi = "protocol-mapper" => i = j
  /\ Ids \cap OtherNames = {}

VARIABLES
  servers,    \* "own", "other" -> [state, loads, noise, realm]
  at,         \* position in main
  info,       \* providers /admin/serverinfo has listed
  failures,   \* a check has been printed as FAIL
  rc          \* exit code, or "none"

program == <<at, info, failures, rc>>

-----------------------------------------------------------------------------
(***************************************************************************)
(* The server.  loads says of each provider "works", "absent", or the      *)
(* check at which it fails; realm is what the realm sit-compat has.        *)
(***************************************************************************)

Slots == {"own", "other"}
NoRealm == {"no realm"}
Down == [state |-> "down", loads |-> [p \in Ids |-> "absent"], noise |-> {}, realm |-> NoRealm]

Answering == {s \in Slots : servers[s].state = "up"}

-----------------------------------------------------------------------------
(***************************************************************************)
(* The program.                                                            *)
(***************************************************************************)

Check(what, id) == [what |-> what, id |-> id]
Do(what) == <<Check(what, "no provider")>>

ChecksOf(spi) ==
  CASE spi = "authenticator" -> <<"describe", "add execution">>
    [] spi = "required-action" -> <<"register">>
    [] spi = "identity-provider-mapper" -> <<"create mapper">>
    [] spi = "protocol-mapper" -> <<"issue token">>

ProviderChecks(p) == [k \in DOMAIN ChecksOf(p.spi) |-> Check(ChecksOf(p.spi)[k], p.id)]

\* The checks of the providers of an SPI, in the order of the file.
Each(spi) ==
  FlattenSeq([i \in DOMAIN Expected |->
    IF Expected[i].spi = spi THEN ProviderChecks(Expected[i]) ELSE << >>])

Registration == [i \in DOMAIN Expected |-> Check("registered", Expected[i].id)]
Authenticators == Do("copy flow") \o Each("authenticator")
RequiredActions == Each("required-action")
IdpMappers == Do("create idp") \o Each("identity-provider-mapper")
ProtocolMappers == Do("setup user") \o Each("protocol-mapper")

\* Faulty: the mapper is created before its identity provider.
MainMappersFirst ==
  Registration \o Do("fresh realm") \o Authenticators \o RequiredActions
    \o Each("identity-provider-mapper") \o Do("create idp") \o ProtocolMappers

main ==
  Registration \o Do("fresh realm") \o Authenticators \o RequiredActions
    \o IdpMappers \o ProtocolMappers

\* What a check finds in the realm and what it leaves there.
Needs(c) ==
  CASE c.what = "add execution" -> {"flow"}
    [] c.what = "create mapper" -> {"idp"}
    [] c.what = "issue token" -> {"user"}
    [] OTHER -> {}
Creates(c) ==
  CASE c.what = "copy flow" -> {"flow"}
    [] c.what = "create idp" -> {"idp"}
    [] c.what = "setup user" -> {"user"}
    [] c.what = "issue token" -> {"client"}
    [] c.what = "create mapper" -> {c.id}
    [] OTHER -> {}

\* call(): the requests of a check are answered as expected.
Answered(s, c) ==
  /\ s.realm # NoRealm
  /\ Needs(c) \subseteq s.realm
  /\ Creates(c) \cap s.realm = {}

Works(s, c) == c.id \in Ids => s.loads[c.id] \notin {"absent", c.what}

Begun == rc = "none" /\ at \in DOMAIN main
Printed(ok) == failures' = (failures \/ ~ok)

\* Nothing but the end of the program catches what the calls outside of a
\* check raise.
Aborts == rc' = "1" /\ UNCHANGED <<servers, at, info, failures>>

\* The token, and one look at the providers of the server.
ServerInfo ==
  /\ rc = "none" /\ at = 0
  /\ \/ Answering = {} /\ Aborts
     \/ \E s \in Answering :
          /\ info' = {p \in Ids : servers[s].loads[p] # "absent"}
          /\ at' = 1
          /\ UNCHANGED <<servers, failures, rc>>

Registered ==
  /\ Begun /\ main[at].what = "registered"
  /\ Printed(main[at].id \in info)
  /\ at' = at + 1
  /\ UNCHANGED <<servers, info, rc>>

\* Delete the realm, if there, and create it.
FreshRealm ==
  /\ Begun /\ main[at].what = "fresh realm"
  /\ \/ Answering = {} /\ Aborts
     \/ \E s \in Answering :
          /\ servers' = [servers EXCEPT ![s].realm = {}]
          /\ at' = at + 1
          /\ UNCHANGED <<info, failures, rc>>

\* A check of the parts 2 to 5: what is created stays, whether the provider
\* then works or not.
CheckProvider ==
  /\ Begun /\ main[at].what \notin {"registered", "fresh realm"}
  /\ \/ Answering = {} /\ Printed(FALSE) /\ UNCHANGED servers
     \/ \E s \in Answering :
          LET c == main[at]  answered == Answered(servers[s], c)
          IN  /\ Printed(answered /\ Works(servers[s], c))
              /\ servers' = IF answered THEN [servers EXCEPT ![s].realm = @ \cup Creates(c)]
                            ELSE servers
  /\ at' = at + 1
  /\ UNCHANGED <<info, rc>>

ExitCode ==
  /\ rc = "none" /\ at > Len(main)
  /\ rc' = IF failures THEN "1" ELSE "0"
  /\ UNCHANGED <<servers, at, info, failures>>

ExerciseStep == ServerInfo \/ Registered \/ FreshRealm \/ CheckProvider \/ ExitCode

ProgramStart == at = 0 /\ info = {} /\ failures = FALSE /\ rc = "none"

=============================================================================
