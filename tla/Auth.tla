---------------------------------- MODULE Auth ----------------------------------
(***************************************************************************)
(* The access token that token() of src/src/nori_sdk/auth.py serves to the *)
(* signaling threads: cached until a deadline on the monotonic clock,      *)
(* then granted again, with the refresh token or with the password.        *)
(*                                                                         *)
(* now is the monotonic clock and the auth server's; the wall clock is off *)
(* by offset, and may be stepped.  Times and lifetimes are whole units, as *)
(* fine as one likes: half a lifetime is rounded down.                     *)
(***************************************************************************)
EXTENDS Integers

CONSTANTS
  Callers,      \* threads that call token()
  None,
  Skew,         \* _REFRESH_SKEW_S
  MinCache,     \* _MIN_CACHE_S
  DefaultTTL,   \* _DEFAULT_TTL_S
  Latency,      \* a grant takes at most this long (_TIMEOUT_S)
  Lives,        \* lifetimes of the tokens the server issues
  Offsets,      \* by which the wall clock may be off
  MaxTime       \* (bound)

Token == [expiry : Nat, life : Lives, stated : BOOLEAN]

ASSUME AuthAssumption ==
  /\ None \notin Callers /\ None \notin Token
  /\ Skew \in Nat /\ MinCache \in Nat /\ DefaultTTL \in Nat /\ Latency \in Nat /\ MaxTime \in Nat
  /\ Lives \subseteq Nat /\ Offsets \subseteq Int /\ 0 \in Offsets

VARIABLES
  now, offset,
  owner,       \* of _lock
  stage,       \* the grant each caller is waiting for
  posted,      \* when it was asked for
  held,        \* _refresh is set
  token,       \* _access: when it expires, its lifetime, and whether the server stated that
  deadline,    \* _refresh_after_mono
  grants, granted    \* history: the grants, and when the last one was

cache    == <<token, deadline, grants, granted>>
authVars == <<now, offset, owner, stage, posted, held, cache>>

Stages == {"none", "refresh", "password"}

AuthTypeOK ==
  /\ now \in 0 .. MaxTime /\ offset \in Offsets
  /\ owner \in Callers \cup {None}
  /\ stage \in [Callers -> Stages]
  /\ \A c \in Callers : stage[c] # "none" => owner = c
  /\ posted \in [Callers -> 0 .. MaxTime]
  /\ held \in BOOLEAN
  /\ token \in Token \cup {None} /\ deadline \in Nat
  /\ grants \in Nat /\ granted \in 0 .. MaxTime

AuthInit ==
  /\ now = 0 /\ offset \in Offsets
  /\ owner = None /\ stage = [c \in Callers |-> "none"] /\ posted = [c \in Callers |-> 0]
  /\ held = FALSE /\ token = None /\ deadline = 0
  /\ grants = 0 /\ granted = 0

-----------------------------------------------------------------------------
(* The deadline of a granted token *)

Larger(a, b)  == IF a > b THEN a ELSE b
Smaller(a, b) == IF a < b THEN a ELSE b

\* _refresh_lead
Lead(life) == Smaller(Skew, life \div 2)

\* _server_ttl of expires_in: the lifetime, absent, or one that is over already.
Said(life, stated) ==
  CASE stated = "life" -> life [] stated = "absent" -> DefaultTTL [] stated = "over" -> 0

\* exp minus time.time(), at least 0: exp is read from the token, or is what was said.
Ttl(expiry, said, readable) == IF readable THEN Larger(0, expiry - (now + offset)) ELSE said

\* Mutants of Hold: the floor inside the cap, and a deadline from the wall clock alone.
HoldFloorInside(ttl, said) == Smaller(Larger(MinCache, ttl - Lead(ttl)), said - Lead(said))
HoldByClock(ttl, said)     == Larger(MinCache, ttl - Lead(ttl))
Hold(ttl, said) == Larger(MinCache, Smaller(ttl - Lead(ttl), said - Lead(said)))

-----------------------------------------------------------------------------
(* token() *)

Fresh == token # None /\ now < deadline   \* the cached token is served

LockFree == owner = None

\* A caller with the lock finds no fresh token, and asks for one.
Begin(c) ==
  /\ LockFree /\ stage[c] = "none" /\ ~Fresh
  /\ owner' = c
  /\ stage' = [stage EXCEPT ![c] = IF held THEN "refresh" ELSE "password"]
  /\ posted' = [posted EXCEPT ![c] = now]
  /\ UNCHANGED <<now, offset, held, cache>>

\* _grant: the server issued the token at some time since it was asked.
Granted(c, at, life, stated, readable, rotates) ==
  /\ stage[c] # "none" /\ at \in posted[c] .. now
  /\ LET said == Said(life, stated) IN
       deadline' = now + Hold(Ttl(at + life, said, readable), said)
  /\ token' = [expiry |-> at + life, life |-> life, stated |-> stated = "life"]
  /\ held' = (held \/ rotates)
  /\ grants' = grants + 1 /\ granted' = now
  /\ owner' = None /\ stage' = [stage EXCEPT ![c] = "none"]
  /\ UNCHANGED <<now, offset, posted>>

\* Only a refusal discards the refresh token, a network failure does not.
Discards(how) == how = "refused"

\* The refresh is refused (4xx) or not answered: the password is tried.
RefreshFails(c, how) ==
  /\ stage[c] = "refresh"
  /\ held' = (held /\ ~Discards(how))
  /\ stage' = [stage EXCEPT ![c] = "password"] /\ posted' = [posted EXCEPT ![c] = now]
  /\ UNCHANGED <<now, offset, owner, cache>>

\* token() raises.
PasswordFails(c) ==
  /\ stage[c] = "password"
  /\ owner' = None /\ stage' = [stage EXCEPT ![c] = "none"]
  /\ UNCHANGED <<now, offset, posted, held, cache>>

-----------------------------------------------------------------------------
(* The clocks *)

Tick ==
  /\ now < MaxTime /\ \A c \in Callers : stage[c] # "none" => now < posted[c] + Latency
  /\ now' = now + 1
  /\ UNCHANGED <<offset, owner, stage, posted, held, cache>>

\* The wall clock is set.
StepWall(by) ==
  /\ by # offset /\ offset' = by
  /\ UNCHANGED <<now, owner, stage, posted, held, cache>>

-----------------------------------------------------------------------------
AuthNext ==
  \/ \E c \in Callers :
       \/ Begin(c)
       \/ \E at \in 0 .. MaxTime, life \in Lives, stated \in {"life", "absent", "over"},
             readable, rotates \in BOOLEAN : Granted(c, at, life, stated, readable, rotates)
       \/ \E how \in {"refused", "unanswered"} : RefreshFails(c, how)
       \/ PasswordFails(c)
  \/ Tick
  \/ \E by \in Offsets : StepWall(by)

AuthSpec == AuthInit /\ [][AuthNext]_authVars

-----------------------------------------------------------------------------
(* Properties *)

\* A token served from the cache has not expired, wherever the
\* wall clock was when it was granted, if the server stated its lifetime and that
\* leaves room for the floor and for the time the grant took (auth.py 130-146).
Roomy(life) == Lead(life) >= Latency /\ life >= MinCache + Latency
ServedAlive == Fresh /\ token.stated /\ Roomy(token.life) => now < token.expiry

\* "Serialized so concurrent callers never double-grant", and the floor caps the
\* grant rate: neither many callers, a wrong clock nor short lifetimes make two
\* grants closer than _MIN_CACHE_S (auth.py 36-39, 81, 141-145).
GrantRate == [][grants' # grants /\ grants > 0 => now >= granted + MinCache]_authVars
=============================================================================
