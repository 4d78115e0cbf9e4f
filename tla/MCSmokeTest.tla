----------------------------- MODULE MCSmokeTest -----------------------------
(* Values for the constants of SmokeTest. *)
EXTENDS SmokeTest

MCExpected ==
  << [spi |-> "authenticator", id |-> "form"], [spi |-> "required-action", id |-> "action"],
     [spi |-> "identity-provider-mapper", id |-> "groups"],
     [spi |-> "protocol-mapper", id |-> "claim"] >>

InOrder == [p \in Ids |-> "works"]
Jar(loads, noise) == [loads |-> loads, noise |-> noise]

\* Jars in order but for one provider, or one kind of line in the log.
MCJars ==
  {Jar(InOrder, n) : n \in {{}, {"OURS"}, {"ERROR"}}}
    \cup {Jar([InOrder EXCEPT ![f[1]] = f[2]], {}) :
          f \in { <<"form", "describe">>, <<"form", "add execution">>, <<"action", "register">>,
                  <<"groups", "create mapper">>, <<"groups", "absent">>, <<"claim", "issue token">> }}

=============================================================================
