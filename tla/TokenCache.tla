----------------------------- MODULE TokenCache -----------------------------
(***************************************************************************)
(* auth.py: KeypairAuthenticator.token(), the cache of signed JWTs that    *)
(* every request of the transport draws on.  A client may be used by       *)
(* several threads, and token() takes no lock: the reads and writes of its *)
(* two attributes are steps of their own here.                             *)
(*                                                                         *)
(* Times are counted in ticks, Second of them to a second: time.time() is  *)
(* fractional, while the claims of a JWT are whole seconds, and the two    *)
(* meet in this code.  The wall clock may be stepped, in either direction. *)
(***************************************************************************)
EXTENDS Integers

CONSTANTS Callers,     \* the threads
          Second,      \* ticks in a second
          Lifetime,    \* lifetime_seconds
          Margin,      \* renewal_margin_seconds
          Stall,       \* bound on the ticks that a call of token() takes
          MaxClock     \* bound on the wall clock, in ticks

\* __init__ refuses a lifetime outside (0, 3600] and a negative margin.
ASSUME TokenAssumption ==
    /\ Second \in Nat \ {0}
    /\ Lifetime \in 1..3600
    /\ Margin \in Nat
    /\ Stall \in Nat
    /\ MaxClock \in Nat

VARIABLES now,          \* time.time()
          cached,       \* _cached_token: its exp claim, 0 for None
          cached_exp,   \* _cached_exp
          pc,           \* pc[c]: where the thread c is
          current,      \* current[c]: time.time() as token() has read it
          bearer,       \* bearer[c]: exp claim of the token c's request carries
          sent          \* sent[c]: when token() returned it

vars == <<now, cached, cached_exp, pc, current, bearer, sent>>

Clock == 0..MaxClock

(* idle     between two requests                                            *)
(* look     the clock has been read; the cached token is next               *)
(* check    there is a cached token; its expiry is next                     *)
(* hit      it may be used; it is read once more to be returned             *)
(* sign     a token is signed                                               *)
(* stored   the token is in the cache, its expiry is not                    *)
(* flight   the request with the token is under way                         *)
Inside(c) == pc[c] \in {"look", "check", "hit", "sign", "stored"}
InTransit(c) == pc[c] = "flight"

Places == {"idle", "look", "check", "hit", "sign", "stored", "flight"}

TypeOK ==
    /\ now \in Clock
    /\ cached \in Nat
    /\ cached_exp \in Nat
    /\ pc \in [Callers -> Places]
    /\ current \in [Callers -> Clock]
    /\ bearer \in [Callers -> Nat]
    /\ sent \in [Callers -> Clock]

Init ==
    /\ now \in Clock
    /\ cached = 0
    /\ cached_exp = 0
    /\ pc = [c \in Callers |-> "idle"]
    /\ current = [c \in Callers |-> 0]
    /\ bearer = [c \in Callers |-> 0]
    /\ sent = [c \in Callers |-> 0]

-----------------------------------------------------------------------------
\* int(now), as a time in ticks.
WholeSeconds(t) == t - (t % Second)

\* The exp claim that _generate(t) signs.
ExpClaim(t) == WholeSeconds(t) + Lifetime * Second

\* Mutant: the renewal margin is left out.
NearExpiryNoMargin(t) == t >= cached_exp

\* Mutant: the renewal margin prolongs the life of the token.
NearExpiryLate(t) == t >= cached_exp + Margin * Second

\* Whether the expiry of the cached token is too close at the time t.
NearExpiry(t) == t + Margin * Second >= cached_exp

\* token() reads the clock.
Enter(c) ==
    /\ pc[c] = "idle"
    /\ current' = [current EXCEPT ![c] = now]
    /\ pc' = [pc EXCEPT ![c] = "look"]
    /\ UNCHANGED <<now, cached, cached_exp, bearer, sent>>

\* It finds a token in the cache, or none.
Look(c) ==
    /\ pc[c] = "look"
    /\ pc' = [pc EXCEPT ![c] = IF cached = 0 THEN "sign" ELSE "check"]
    /\ UNCHANGED <<now, cached, cached_exp, current, bearer, sent>>

\* It compares the clock with the expiry of the cached token.
Check(c) ==
    /\ pc[c] = "check"
    /\ pc' = [pc EXCEPT ![c] = IF NearExpiry(current[c]) THEN "sign" ELSE "hit"]
    /\ UNCHANGED <<now, cached, cached_exp, current, bearer, sent>>

\* token() returns the token e to c, whose request then goes out.
Return(c, e) ==
    /\ pc' = [pc EXCEPT ![c] = "flight"]
    /\ bearer' = [bearer EXCEPT ![c] = e]
    /\ sent' = [sent EXCEPT ![c] = now]
    /\ current' = [current EXCEPT ![c] = 0]

\* It returns the token that is in the cache by now.
Hit(c) ==
    /\ pc[c] = "hit"
    /\ Return(c, cached)
    /\ UNCHANGED <<now, cached, cached_exp>>

\* Mutant: the expiry goes into the cache before the token.
StoreExpiryFirst(c) ==
    \/ /\ pc[c] = "sign"
       /\ cached_exp' = current[c] + Lifetime * Second
       /\ pc' = [pc EXCEPT ![c] = "stored"]
       /\ UNCHANGED <<now, cached, current, bearer, sent>>
    \/ /\ pc[c] = "stored"
       /\ cached' = ExpClaim(current[c])
       /\ Return(c, ExpClaim(current[c]))
       /\ UNCHANGED <<now, cached_exp>>

\* A token is signed and goes into the cache, and after it its expiry.
Store(c) ==
    \/ /\ pc[c] = "sign"
       /\ cached' = ExpClaim(current[c])
       /\ pc' = [pc EXCEPT ![c] = "stored"]
       /\ UNCHANGED <<now, cached_exp, current, bearer, sent>>
    \/ /\ pc[c] = "stored"
       /\ cached_exp' = current[c] + Lifetime * Second
       /\ Return(c, ExpClaim(current[c]))
       /\ UNCHANGED <<now, cached>>

token(c) == Enter(c) \/ Look(c) \/ Check(c) \/ Hit(c) \/ Store(c)

\* The request is over.
Answered(c) ==
    /\ InTransit(c)
    /\ pc' = [pc EXCEPT ![c] = "idle"]
    /\ bearer' = [bearer EXCEPT ![c] = 0]
    /\ sent' = [sent EXCEPT ![c] = 0]
    /\ UNCHANGED <<now, cached, cached_exp, current>>

\* Time passes; no call of token() takes longer than Stall.
Tick ==
    /\ now < MaxClock
    /\ \A c \in Callers : Inside(c) => now < current[c] + Stall
    /\ now' = now + 1
    /\ UNCHANGED <<cached, cached_exp, pc, current, bearer, sent>>

\* The wall clock is set, to any value, also while requests are under way, but not
\* while a thread is in token().
SetClock ==
    /\ \A c \in Callers : ~ Inside(c)
    /\ now' \in Clock
    /\ UNCHANGED <<cached, cached_exp, pc, current, bearer, sent>>

Next ==
    \/ \E c \in Callers : token(c) \/ Answered(c)
    \/ Tick
    \/ SetClock

Spec == Init /\ [][Next]_vars

-----------------------------------------------------------------------------
\* The guaranteed remaining life of a token, in ticks: the renewal margin, or the
\* whole lifetime where that is shorter and every call signs anew.
Cover == (IF Margin < Lifetime THEN Margin ELSE Lifetime) * Second

\* What truncation and interleaving take away from it.
Lost == Second + 2 * Stall

\* A token that token() hands out outlives the moment by the renewal margin less
\* the second that truncating iat and exp costs and twice the time that a call of
\* token() may take; so a request in flight for at most that long is never
\* overtaken by the expiry.  It holds although _cached_exp is later than the exp
\* claim it stands for, although threads mix their writes of the two attributes,
\* and whatever the wall clock did since the token was signed.
OutlivesRequest ==
    \A c \in Callers :
        InTransit(c) /\ now + Lost <= sent[c] + Cover => now < bearer[c]

\* The token that token() returns has not expired when it is returned.  This
\* needs a renewal margin of at least what is lost.
ReturnsValid == \A c \in Callers : InTransit(c) => sent[c] < bearer[c]

(* The inductive strengthening.                                             *)

\* The lead that an expiry which makes a thread sign anew can have over the
\* expiry that this thread is going to store.
Lead == IF Margin * Second > Lifetime * Second + Stall
          THEN (Margin - Lifetime) * Second
          ELSE Stall

\* No call of token() takes longer than Stall.
Punctual(c) == Inside(c) => current[c] <= now /\ now <= current[c] + Stall

\* _cached_exp is ahead of the claim of the cached token by less than a second and
\* the lead, and there is no expiry without a token.
CacheLag ==
    /\ cached_exp < cached + Second + Lead
    /\ cached = 0 => cached_exp = 0

\* What a thread has seen of the cache is still true, up to what others may have
\* done since.
Seen(c) ==
    /\ pc[c] \in {"check", "hit", "stored"} => cached # 0
    /\ pc[c] = "hit" => current[c] + Cover < cached + Second + Stall
    /\ pc[c] = "sign" => cached_exp <= current[c] + Lifetime * Second + Lead
    /\ pc[c] = "stored" =>
          current[c] + Lifetime * Second < cached + Second + Stall

\* The token in use had the promised cover when it was handed out.
BearerCover(c) == InTransit(c) => sent[c] + Cover < bearer[c] + Lost

TokenInv ==
    /\ TypeOK
    /\ CacheLag
    /\ \A c \in Callers : Punctual(c) /\ Seen(c) /\ BearerCover(c)
=============================================================================
