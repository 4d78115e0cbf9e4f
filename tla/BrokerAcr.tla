----------------------------- MODULE BrokerAcr -----------------------------
(***************************************************************************)
(* Step-up through the broker (ForwardAcrToBrokerAuthenticator.java and    *)
(* EnforceBrokerAcrAuthenticator.java): before the redirect the broker     *)
(* raises acr_values to what the client is configured for, after the       *)
(* upstream login it checks what was reached.  In between everything goes  *)
(* through the browser, and an administrator may change the client.        *)
(***************************************************************************)
EXTENDS Integers

CONSTANTS
  Acrs,      \* authentication context values
  LoaMap,    \* acr.loa.map of the realm: some of the values -> level
  Numeric,   \* the values that are numbers -> that number
  Clients,   \* client configurations: minimum.acr.value, default.acr.values
  Enforces   \* settings of "enforce" in use

\* No value: a parameter, a setting or a claim that is absent or empty.
None == "none"
Values == Acrs \cup {None}

ASSUME AcrAssumption ==
  /\ None \notin Acrs
  /\ DOMAIN LoaMap \subseteq Acrs /\ \A a \in DOMAIN LoaMap : LoaMap[a] \in Nat
  /\ DOMAIN Numeric \subseteq Acrs /\ \A a \in DOMAIN Numeric : Numeric[a] \in Int
  /\ Clients \subseteq [minimum: Values, default: Values]
  /\ Enforces \subseteq BOOLEAN

VARIABLES
  client,    \* configuration of the client that requests the login
  enforce,   \* configuration of the post-broker step; never changes
  asked,     \* acr_values of the application's request; never changes
  note,      \* the client note acr_values of the authentication session
  url,       \* acr_values as the upstream identity provider receives it
  token,     \* acr claim of the upstream ID token
  level,     \* level recorded in the session by AcrStore
  stage,     \* how far the login is
  disturbed  \* since Forward: url tampered with, client changed, or the
             \* upstream login below what was asked of it

vars == <<client, enforce, asked, note, url, token, level, stage, disturbed>>

Stages == {"browser", "forwarded", "upstream", "returned", "granted", "denied"}

TypeOK ==
  /\ client \in Clients
  /\ enforce \in Enforces
  /\ asked \in Values /\ note \in Values /\ url \in Values /\ token \in Values
  /\ level \in Int
  /\ stage \in Stages
  /\ disturbed \in BOOLEAN

-----------------------------------------------------------------------------
(***************************************************************************)
(* Levels.                                                                 *)
(***************************************************************************)

\* Faulty: numbers are read as such even when the map names them.
NumericFirst(acr) ==
  IF acr \in DOMAIN Numeric THEN Numeric[acr]
  ELSE IF acr \in DOMAIN LoaMap THEN LoaMap[acr] ELSE 0

\* The level Enforce gives a value: the map, else the number, else none.
AcrToLevel(acr) ==
  IF acr \in DOMAIN LoaMap THEN LoaMap[acr]
  ELSE IF acr \in DOMAIN Numeric THEN Numeric[acr] ELSE 0

\* The minimum of a client takes precedence over its (first) default.
ClientAcr(c) == IF c.minimum # None THEN c.minimum ELSE c.default

RequiredLevel(c) == AcrToLevel(ClientAcr(c))

\* Faulty: the value of the request is preferred.
RequestedAcr(requested, configured) ==
  IF requested # None THEN requested ELSE configured

\* Faulty: a value without a level counts as lower than every other.
UnknownIsLowest(requested, configured) ==
  LET Loa(a) == IF a \in DOMAIN LoaMap THEN LoaMap[a] ELSE -1
  IN IF requested = None THEN configured
     ELSE IF configured = None \/ Loa(requested) >= Loa(configured) THEN requested
     ELSE configured

\* What Forward sends on: the value of the higher level; a requested value
\* that it cannot compare is sent on as it is.
MaxAcr(requested, configured) ==
  IF requested = None THEN configured
  ELSE IF configured = None THEN requested
  ELSE IF requested \notin DOMAIN LoaMap \/ configured \notin DOMAIN LoaMap THEN requested
  ELSE IF LoaMap[requested] >= LoaMap[configured] THEN requested ELSE configured

-----------------------------------------------------------------------------
Init ==
  /\ client \in Clients
  /\ enforce \in Enforces
  /\ asked \in Values /\ note = asked
  /\ url = None /\ token = None
  /\ level = 0
  /\ stage = "browser"
  /\ disturbed = FALSE

\* The browser flow of the broker realm reaches Forward.
Forward ==
  /\ stage = "browser"
  /\ note' = MaxAcr(note, ClientAcr(client))
  /\ stage' = "forwarded"
  /\ disturbed' = FALSE
  /\ UNCHANGED <<client, enforce, asked, url, token, level>>

\* The identity provider redirector puts the note into the URL, which the
\* browser may alter on the way.
Redirect(value) ==
  /\ stage = "forwarded"
  /\ url' = value
  /\ stage' = "upstream"
  /\ disturbed' = (disturbed \/ value # note)
  /\ UNCHANGED <<client, enforce, asked, note, token, level>>

\* The upstream identity provider logs the user in at some level.
UpstreamLogin(acr) ==
  /\ stage = "upstream"
  /\ token' = acr
  /\ stage' = "returned"
  /\ disturbed' = (disturbed \/ AcrToLevel(acr) < AcrToLevel(url))
  /\ UNCHANGED <<client, enforce, asked, note, url, level>>

Admitted == AcrToLevel(token) >= RequiredLevel(client)

\* The post-broker flow accepts what was reached, and records it.
EnforceGrants ==
  /\ stage = "returned"
  /\ Admitted \/ ~enforce
  /\ level' = AcrToLevel(token)
  /\ stage' = "granted"
  /\ UNCHANGED <<client, enforce, asked, note, url, token, disturbed>>

EnforceDenies ==
  /\ stage = "returned"
  /\ ~Admitted /\ enforce
  /\ stage' = "denied"
  /\ UNCHANGED <<client, enforce, asked, note, url, token, level, disturbed>>

\* The user goes back and starts over; notes and level of the session stay.
StartOver ==
  /\ stage \in {"forwarded", "upstream", "returned", "denied"}
  /\ stage' = "browser"
  /\ UNCHANGED <<client, enforce, asked, note, url, token, level, disturbed>>

\* An administrator changes the client while a login is under way.
Reconfigure(c) ==
  /\ stage \in {"browser", "forwarded", "upstream", "returned"}
  /\ client' = c
  /\ disturbed' = TRUE
  /\ UNCHANGED <<enforce, asked, note, url, token, level, stage>>

Next ==
  \/ Forward
  \/ \E value \in Values : Redirect(value) \/ UpstreamLogin(value)
  \/ EnforceGrants \/ EnforceDenies
  \/ StartOver
  \/ \E c \in Clients : Reconfigure(c)

Spec == Init /\ [][Next]_vars

-----------------------------------------------------------------------------
(***************************************************************************)
(* Properties.                                                             *)
(***************************************************************************)

\* What the application asked for survives the client's settings: a login that
\* is granted, and that nobody interfered with between Forward and the check,
\* records at least the level of the value the application sent, one without an
\* entry in the map included, however often the login started over with what
\* Forward had left in the note and whatever the client's settings were then.
LoginAsAsked ==
  stage = "granted" /\ ~disturbed /\ asked # None => level >= AcrToLevel(asked)

\* The values that decide, the one sent on and the client's, have a level in
\* the realm's map, or there is none.
Comparable == {note, ClientAcr(client)} \subseteq DOMAIN LoaMap \cup {None}

\* The two halves agree on levels: if the upstream identity provider reaches
\* what it is asked for and nobody interferes, the login is not denied, as long
\* as the map has a level for what it was asked for and for the client's value.
HonestLoginGranted == stage = "denied" /\ Comparable => disturbed

\* Of values the map knows, a requested one never lowers what is sent on below
\* the client's setting.
ForwardNeverLowers ==
  stage = "forwarded" /\ ~disturbed /\ Comparable
    => AcrToLevel(note) >= RequiredLevel(client)

\* The same of any value.  It does not hold: a requested value without a level
\* replaces the configured one (README, section 6).
NeverLowered ==
  stage = "forwarded" /\ ~disturbed => AcrToLevel(note) >= RequiredLevel(client)

=============================================================================
