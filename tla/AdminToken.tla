------------------------------ MODULE AdminToken ------------------------------
(***************************************************************************)
(* The administrator token of the end-to-end tests (kc_e2e.py): cached,    *)
(* renewed when it is older than ADMIN_TOKEN_MAX_AGE, and checked by the   *)
(* server when a request arrives.  Time counts in units of 15 seconds.     *)
(***************************************************************************)
EXTENDS Naturals

CONSTANTS
  MaxAge,     \* ADMIN_TOKEN_MAX_AGE
  Lifespan,   \* access token lifespan of the master realm
  Timeout,    \* timeout of a request
  Delays,     \* how long a request may be on its way
  Pauses      \* how long a test may go without admin calls

ASSUME TimeAssumption ==
  /\ MaxAge \in Nat /\ Lifespan \in Nat /\ MaxAge < Lifespan
  /\ Timeout \in Nat /\ Delays \subseteq 0..Timeout /\ Pauses \subseteq Nat

VARIABLES
  age,        \* time since the note of when the token was fetched
  issued,     \* time since the server has issued it
  rejected    \* a prompt call has arrived with an expired token

token == <<age, issued, rejected>>

\* Ages beyond Lifespan are not told apart; no token at all is one of them.
Old == Lifespan + 1
Later(a, d) == IF a + d > Old THEN Old ELSE a + d

TokenInit == age = Old /\ issued = Old /\ rejected = FALSE

\* Time passes without an admin call.
Wait ==
  \E d \in Pauses :
    /\ age' = Later(age, d)
    /\ issued' = Later(issued, d)
    /\ UNCHANGED rejected

\* Faulty: the time is noted when the answer is there.
NotedAfter(fetch) == 0

\* The time was noted before the token was asked for.
NotedAge(fetch) == fetch

\* admin_token(): whether a new token is asked for.
Renew == age > MaxAge

\* api() with token=ADMIN: the token held, or a new one, and the request,
\* which arrives after a while.  A new token is issued at some moment of the
\* time it takes to fetch it, and is used however long that was.
Request(fetch, way, since) ==
  /\ age' = Later(IF Renew THEN NotedAge(fetch) ELSE age, way)
  /\ issued' = Later(IF Renew THEN since ELSE issued, way)

Expired(way, since) == (IF Renew THEN since ELSE issued) + way >= Lifespan

\* The time the call itself takes fits between the age at which a token is
\* renewed and its lifespan.
Prompt(fetch, way) == MaxAge + way + (IF Renew THEN fetch ELSE 0) < Lifespan

AdminCall ==
  \E fetch \in Delays, way \in Delays : \E since \in 0..fetch :
    /\ Request(fetch, way, since)
    /\ Prompt(fetch, way) \/ ~Expired(way, since)
    /\ rejected' = (rejected \/ Expired(way, since))

\* A call that takes so long itself that its token expires on the way.
SlowCall ==
  \E fetch \in Delays, way \in Delays : \E since \in 0..fetch :
    /\ Request(fetch, way, since)
    /\ ~Prompt(fetch, way) /\ Expired(way, since)
    /\ UNCHANGED rejected

TokenSpec == TokenInit /\ [][Wait \/ AdminCall \/ SlowCall]_token

\* A call is refused for its token only if the call itself was slow: whatever
\* calls, logins, pauses and slow answers came before, up to the timeout of a
\* request, the token held is never older than the note of it says.
PromptCallsAuthorized == ~rejected

=============================================================================
