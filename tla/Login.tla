------------------------------- MODULE Login -------------------------------
(***************************************************************************)
(* Who gets into gameops gateway: src/internal/webauth and the login and   *)
(* requireAuth handlers of src/gateway/server.go.                          *)
(*                                                                         *)
(* Allow runs under the limiter's mutex and is one action here.  The       *)
(* cookie carries a signed expiry and nothing is kept on the server, so    *)
(* what a client holds is the expiry itself; a client can keep a cookie as *)
(* long as it likes.  The clock has a finer grain than the whole seconds   *)
(* an expiry is written in.  A restart loses the limiter's memory, and not *)
(* the secret that cookies are signed with.                                *)
(***************************************************************************)
EXTENDS Integers, Sequences, FiniteSets

CONSTANTS
    Keys,         \* client addresses
    MaxAttempts,  \* loginMaxAttempts
    Window,       \* loginWindow, in clock steps
    TTL,          \* sessionTTL, in clock steps
    Grain,        \* clock steps in one second
    Horizon,      \* bound: where the clock ends
    Restarts,     \* bound: restarts of the gateway
    Cookies       \* bound: cookies that clients keep

ASSUME LoginAssumption ==
    /\ {MaxAttempts, Window, TTL, Grain} \subseteq Nat \ {0}
    /\ {Horizon, Restarts, Cookies} \subseteq Nat

VARIABLES
    now,       \* the clock
    attempts,  \* RateLimiter.attempts
    issued,    \* cookies that clients hold: when each was issued, and its expiry
    restarts,  \* restarts of the gateway so far
    checked,   \* history, per key: when a password was checked
    life,      \* history, per key: after how many restarts that was
    refused    \* history, per key: the last refusal, or Never

guesses == <<checked, life>>
vars == <<now, attempts, issued, restarts, guesses, refused>>

Never == -1

Unix(t) == t \div Grain

Init ==
    /\ now = 0
    /\ attempts = [k \in Keys |-> <<>>]
    /\ issued = {}
    /\ restarts = 0
    /\ checked = [k \in Keys |-> <<>>]
    /\ life = [k \in Keys |-> <<>>]
    /\ refused = [k \in Keys |-> Never]

-----------------------------------------------------------------------------
(* RateLimiter.Allow.                                                      *)

\* The loop over the recorded attempts keeps those after the cutoff.
After(times, cutoff) ==
    LET kept[n \in 0 .. Len(times)] ==
            IF n = 0 THEN <<>>
            ELSE IF times[n] > cutoff THEN Append(kept[n - 1], times[n])
            ELSE kept[n - 1]
    IN  kept[Len(times)]

\* Mutated form of Kept: nothing is ever pruned.
KeptForEver(k) == attempts[k]

\* Mutated form of Kept: an attempt is forgotten a moment too early.
KeptShorter(k) == After(attempts[k], now - Window + 1)

\* The attempts that are younger than the window.
Kept(k) == After(attempts[k], now - Window)

\* Mutated form of Refuse: an attempt that is refused is recorded as well.
RefuseAndRecord(k) ==
    /\ Len(Kept(k)) >= MaxAttempts
    /\ attempts' = [attempts EXCEPT ![k] = Append(Kept(k), now)]
    /\ refused' = [refused EXCEPT ![k] = now]
    /\ UNCHANGED <<now, issued, restarts, guesses>>

\* Allow returns false: 429, and the password is not looked at.
Refuse(k) ==
    /\ Len(Kept(k)) >= MaxAttempts
    /\ attempts' = [attempts EXCEPT ![k] = Kept(k)]
    /\ refused' = [refused EXCEPT ![k] = now]
    /\ UNCHANGED <<now, issued, restarts, guesses>>

\* Allow returns true, and the password is checked.
Allow(k) ==
    /\ Len(Kept(k)) < MaxAttempts
    /\ attempts' = [attempts EXCEPT ![k] = Append(Kept(k), now)]
    /\ checked' = [checked EXCEPT ![k] = Append(@, now)]
    /\ life' = [life EXCEPT ![k] = Append(@, restarts)]

WrongPassword(k) ==
    /\ Allow(k)
    /\ UNCHANGED <<now, issued, restarts, refused>>

-----------------------------------------------------------------------------
(* SessionManager.                                                         *)

\* The expiry IssueCookie writes.
Expiry(t) == Unix(t + TTL)

RightPassword(k) ==
    /\ Allow(k)
    /\ LET cookie == [at |-> now, expiry |-> Expiry(now)]
       IN  issued' = IF Cardinality(issued) < Cookies THEN issued \union {cookie} ELSE issued
    /\ UNCHANGED <<now, restarts, refused>>

\* Mutated form of Valid: the second of the expiry itself is too late.
ValidStrictly(cookie) == Unix(now) < cookie.expiry

\* Validate.
Valid(cookie) == Unix(now) <= cookie.expiry

-----------------------------------------------------------------------------

Clock ==
    /\ now < Horizon
    /\ now' = now + 1
    /\ UNCHANGED <<attempts, issued, restarts, guesses, refused>>

Restart ==
    /\ restarts < Restarts
    /\ restarts' = restarts + 1
    /\ attempts' = [k \in Keys |-> <<>>]
    /\ UNCHANGED <<now, issued, guesses, refused>>

Next ==
    \/ \E k \in Keys : Refuse(k) \/ WrongPassword(k) \/ RightPassword(k)
    \/ Clock
    \/ Restart

Spec == Init /\ [][Next]_vars

-----------------------------------------------------------------------------
(* Properties.                                                             *)

Times == 0 .. Horizon

TypeOK ==
    /\ now \in Times
    /\ attempts \in [Keys -> Seq(Times)]
    /\ \A k \in Keys : Len(attempts[k]) <= MaxAttempts
    /\ issued \subseteq [at : Times, expiry : 0 .. Unix(Horizon + TTL)]
    /\ restarts \in 0 .. Restarts
    /\ checked \in [Keys -> Seq(Times)]
    /\ life \in [Keys -> Seq(0 .. Restarts)]
    /\ refused \in [Keys -> Times \union {Never}]

\* Wherever a window is laid, one address has its password guesses checked in
\* it at most loginMaxAttempts times, and as often again for each restart of
\* the gateway between them, as the limiter is "in-memory": nothing else makes
\* it forget an attempt that still counts.
GuessesBounded ==
    \A k \in Keys : \A m, n \in DOMAIN checked[k] :
        m <= n /\ checked[k][n] - checked[k][m] < Window =>
            n - m + 1 <= MaxAttempts * (1 + life[k][n] - life[k][m])

\* An address is refused only because of its own checked attempts in the
\* window before: refusals do not prolong the lockout, and others' attempts
\* do not cause one.
RefusedForAReason ==
    \A k \in Keys :
        LET r == refused[k]
            before == {n \in DOMAIN checked[k] : checked[k][n] \in r - Window + 1 .. r}
        IN  r # Never => Cardinality(before) >= MaxAttempts

\* A cookie is good for the whole time to live, and for less than a second
\* more, although its expiry is cut down to whole seconds ("the expiry field
\* caps how long a stolen cookie stays valid").
SessionLength ==
    \A cookie \in issued :
        /\ now <= cookie.at + TTL => Valid(cookie)
        /\ now >= cookie.at + TTL + Grain => ~Valid(cookie)

=============================================================================
