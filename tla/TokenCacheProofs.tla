-------------------------- MODULE TokenCacheProofs --------------------------
(***************************************************************************)
(* What KeypairAuthenticator.token() guarantees, for any number of threads *)
(* and every lifetime, renewal margin, clock resolution and bound on the   *)
(* time that a call of token() takes.                                      *)
(***************************************************************************)
EXTENDS TokenCache, TLAPS

\* The signed lifetime, in ticks.
Life == Lifetime * Second

\* Truncating to whole seconds loses less than a second.
LEMMA TruncationBound ==
    ASSUME NEW t \in Nat
    PROVE  /\ WholeSeconds(t) \in Nat
           /\ WholeSeconds(t) <= t
           /\ t < WholeSeconds(t) + Second
BY TokenAssumption DEF WholeSeconds

\* The periods of the configuration, in ticks.
LEMMA Periods ==
    /\ Second \in Nat /\ Second >= 1 /\ Stall \in Nat
    /\ Life \in Nat /\ Second <= Life
    /\ Margin * Second \in Nat
    /\ Cover \in Nat
    /\ Cover <= Life
    /\ Cover <= Margin * Second
    /\ Lead \in Nat
    /\ Stall <= Lead
    /\ Margin * Second <= Life + Lead
    /\ Lead = Stall \/ Cover + Lead <= Margin * Second
<1>1. /\ Lifetime \in Nat /\ Lifetime >= 1
      /\ Margin \in Nat /\ Second \in Nat /\ Second >= 1 /\ Stall \in Nat
  BY TokenAssumption
<1>2. ASSUME NEW a \in Nat, NEW b \in Nat, a <= b
      PROVE  a * Second \in Nat /\ a * Second <= b * Second
  BY <1>1, <1>2
<1>3. 1 * Second = Second
  BY <1>1
<1>4. /\ Life \in Nat /\ Second <= Life /\ Margin * Second \in Nat
  BY <1>1, <1>2, <1>3 DEF Life
<1>5. /\ Cover \in Nat /\ Cover <= Life /\ Cover <= Margin * Second
      /\ Cover = Life \/ Cover = Margin * Second
  BY <1>1, <1>2 DEF Cover, Life
<1>6. (Margin - Lifetime) * Second = Margin * Second - Life
  BY <1>1 DEF Life
<1>7. Lead = IF Margin * Second > Life + Stall THEN Margin * Second - Life ELSE Stall
  BY <1>6 DEF Lead, Life
<1>8. /\ Lead \in Nat /\ Stall <= Lead /\ Margin * Second <= Life + Lead
      /\ Lead = Stall \/ Cover + Lead <= Margin * Second
  BY <1>1, <1>4, <1>5, <1>7
<1> QED
  BY <1>1, <1>4, <1>5, <1>8

\* The signed claim: no later than now plus the lifetime, and less than a second
\* earlier.
LEMMA ClaimBound ==
    ASSUME NEW t \in Nat
    PROVE  /\ ExpClaim(t) \in Nat /\ ExpClaim(t) # 0
           /\ t + Life < ExpClaim(t) + Second
BY TruncationBound, Periods DEF ExpClaim, Life

\* The inductive invariant as facts of arithmetic.
LEMMA Bounds ==
    ASSUME TokenInv
    PROVE  /\ now \in Nat /\ now \in Clock /\ cached \in Nat /\ cached_exp \in Nat
           /\ cached_exp < cached + Second + Lead
           /\ \A c \in Callers :
                /\ current[c] \in Nat /\ current[c] \in Clock
                /\ bearer[c] \in Nat /\ sent[c] \in Nat /\ sent[c] \in Clock
                /\ Punctual(c) /\ Seen(c) /\ BearerCover(c)
BY TokenAssumption DEF TokenInv, TypeOK, Clock, CacheLag

LEMMA TokenInvInit == Init => TokenInv
BY TokenAssumption, Periods
   DEF Init, TokenInv, TypeOK, Places, Punctual, CacheLag, Seen, BearerCover, InTransit,
       Inside, Clock

\* A thread that stands still keeps its facts while the cache is untouched.
LEMMA OthersKept ==
    ASSUME TokenInv, NEW c \in Callers,
           pc'[c] = pc[c], current'[c] = current[c],
           bearer'[c] = bearer[c], sent'[c] = sent[c],
           now' = now, cached' = cached, cached_exp' = cached_exp
    PROVE  Punctual(c)' /\ Seen(c)' /\ BearerCover(c)'
BY DEF TokenInv, Punctual, Seen, BearerCover, Inside, InTransit

LEMMA EnterStep ==
    ASSUME TokenInv, NEW c \in Callers, Enter(c) PROVE TokenInv'
<1>1. /\ current' = [current EXCEPT ![c] = now] /\ pc[c] = "idle"
      /\ pc' = [pc EXCEPT ![c] = "look"]
      /\ UNCHANGED <<now, cached, cached_exp, bearer, sent>>
  BY DEF Enter
<1>2. TypeOK' /\ CacheLag'
  BY <1>1 DEF TokenInv, TypeOK, Places, CacheLag
<1>3. pc'[c] = "look" /\ current'[c] = now
  BY <1>1 DEF TokenInv, TypeOK
<1>4. Punctual(c)' /\ Seen(c)' /\ BearerCover(c)'
  BY <1>1, <1>3, Bounds, Periods DEF Punctual, Seen, BearerCover, Inside, InTransit
<1>5. ASSUME NEW d \in Callers, d # c
      PROVE  Punctual(d)' /\ Seen(d)' /\ BearerCover(d)'
  <2> pc'[d] = pc[d] /\ current'[d] = current[d]
    BY <1>1, <1>5 DEF TokenInv, TypeOK
  <2> QED
    BY <1>1, OthersKept
<1> QED
  BY <1>2, <1>4, <1>5 DEF TokenInv

LEMMA LookStep ==
    ASSUME TokenInv, NEW c \in Callers, Look(c) PROVE TokenInv'
<1>1. /\ pc[c] = "look"
      /\ pc' = [pc EXCEPT ![c] = IF cached = 0 THEN "sign" ELSE "check"]
      /\ UNCHANGED <<now, cached, cached_exp, current, bearer, sent>>
  BY DEF Look
<1>2. TypeOK' /\ CacheLag'
  BY <1>1 DEF TokenInv, TypeOK, Places, CacheLag
<1>3. /\ pc'[c] \in {"sign", "check"}
      /\ pc'[c] = "sign" => cached = 0 /\ cached_exp = 0
      /\ pc'[c] = "check" => cached # 0
  BY <1>1 DEF TokenInv, TypeOK, CacheLag
<1>4. Punctual(c)' /\ BearerCover(c)'
  BY <1>1, <1>3, Bounds DEF Punctual, BearerCover, Inside, InTransit
<1>5. Seen(c)'
  BY <1>1, <1>3, Bounds, Periods DEF Seen, Life
<1>6. ASSUME NEW d \in Callers, d # c
      PROVE  Punctual(d)' /\ Seen(d)' /\ BearerCover(d)'
  <2> pc'[d] = pc[d]
    BY <1>1, <1>6 DEF TokenInv, TypeOK
  <2> QED
    BY <1>1, OthersKept
<1> QED
  BY <1>2, <1>4, <1>5, <1>6 DEF TokenInv

LEMMA CheckStep ==
    ASSUME TokenInv, NEW c \in Callers, Check(c) PROVE TokenInv'
<1>1. /\ pc[c] = "check"
      /\ pc' = [pc EXCEPT ![c] = IF NearExpiry(current[c]) THEN "sign" ELSE "hit"]
      /\ UNCHANGED <<now, cached, cached_exp, current, bearer, sent>>
  BY DEF Check
<1>2. TypeOK' /\ CacheLag'
  BY <1>1 DEF TokenInv, TypeOK, Places, CacheLag
<1>3. /\ pc'[c] \in {"sign", "hit"}
      /\ pc'[c] = "sign" => current[c] + Margin * Second >= cached_exp
      /\ pc'[c] = "hit" => current[c] + Margin * Second < cached_exp
  BY <1>1, Bounds, Periods DEF TokenInv, TypeOK, NearExpiry
<1>4. Punctual(c)' /\ BearerCover(c)'
  BY <1>1, <1>3, Bounds DEF Punctual, BearerCover, Inside, InTransit
<1>5. Seen(c)'
  <2>1. cached # 0
    BY <1>1, Bounds DEF Seen
  <2>2. pc'[c] = "hit" => current[c] + Cover < cached + Second + Stall
    BY <1>3, Bounds, Periods
  <2>3. pc'[c] = "sign" => cached_exp <= current[c] + Life + Lead
    BY <1>3, Bounds, Periods
  <2> QED
    BY <1>1, <1>3, <2>1, <2>2, <2>3 DEF Seen, Life
<1>6. ASSUME NEW d \in Callers, d # c
      PROVE  Punctual(d)' /\ Seen(d)' /\ BearerCover(d)'
  <2> pc'[d] = pc[d]
    BY <1>1, <1>6 DEF TokenInv, TypeOK
  <2> QED
    BY <1>1, OthersKept
<1> QED
  BY <1>2, <1>4, <1>5, <1>6 DEF TokenInv

\* What Return does to the threads, for a token e with the promised cover.
LEMMA ReturnStep ==
    ASSUME TokenInv, NEW c \in Callers, Inside(c), NEW e \in Nat, Return(c, e),
           current[c] + Cover < e + Second + Stall,
           now' = now
    PROVE  /\ pc' \in [Callers -> Places]
           /\ current' \in [Callers -> Clock]
           /\ bearer' \in [Callers -> Nat] /\ sent' \in [Callers -> Clock]
           /\ Punctual(c)' /\ Seen(c)' /\ BearerCover(c)'
           /\ \A d \in Callers \ {c} :
                /\ pc'[d] = pc[d] /\ current'[d] = current[d]
                /\ bearer'[d] = bearer[d] /\ sent'[d] = sent[d]
<1>1. /\ pc' = [pc EXCEPT ![c] = "flight"] /\ bearer' = [bearer EXCEPT ![c] = e]
      /\ sent' = [sent EXCEPT ![c] = now] /\ current' = [current EXCEPT ![c] = 0]
  BY DEF Return
<1>2. /\ pc' \in [Callers -> Places]
      /\ current' \in [Callers -> Clock]
      /\ bearer' \in [Callers -> Nat] /\ sent' \in [Callers -> Clock]
  BY <1>1, TokenAssumption DEF TokenInv, TypeOK, Places, Clock
<1>3. pc'[c] = "flight" /\ bearer'[c] = e /\ sent'[c] = now
  BY <1>1 DEF TokenInv, TypeOK
<1>4. Punctual(c)' /\ Seen(c)'
  BY <1>3 DEF Punctual, Seen, Inside
<1>5. BearerCover(c)'
  <2>1. now <= current[c] + Stall
    BY Bounds DEF Punctual
  <2>2. now + Cover < e + Lost
    BY <2>1, Bounds, Periods DEF Lost
  <2> QED
    BY <1>3, <2>2 DEF BearerCover, Cover, Lost
<1>6. \A d \in Callers \ {c} :
         /\ pc'[d] = pc[d] /\ current'[d] = current[d]
         /\ bearer'[d] = bearer[d] /\ sent'[d] = sent[d]
  BY <1>1 DEF TokenInv, TypeOK
<1> QED
  BY <1>2, <1>4, <1>5, <1>6

LEMMA HitStep ==
    ASSUME TokenInv, NEW c \in Callers, Hit(c) PROVE TokenInv'
<1>1. /\ pc[c] = "hit" /\ Inside(c) /\ Return(c, cached)
      /\ UNCHANGED <<now, cached, cached_exp>>
  BY DEF Hit, Inside
<1>2. current[c] + Cover < cached + Second + Stall
  BY <1>1, Bounds DEF Seen
<1>3. cached \in Nat
  BY Bounds
<1> HIDE DEF Return
<1>4. /\ pc' \in [Callers -> Places]
      /\ current' \in [Callers -> Clock]
      /\ bearer' \in [Callers -> Nat] /\ sent' \in [Callers -> Clock]
      /\ Punctual(c)' /\ Seen(c)' /\ BearerCover(c)'
      /\ \A d \in Callers \ {c} :
           /\ pc'[d] = pc[d] /\ current'[d] = current[d]
           /\ bearer'[d] = bearer[d] /\ sent'[d] = sent[d]
  BY <1>1, <1>2, <1>3, ReturnStep
<1>5. TypeOK' /\ CacheLag'
  BY <1>1, <1>4 DEF TokenInv, TypeOK, CacheLag
<1>6. \A d \in Callers \ {c} : Punctual(d)' /\ Seen(d)' /\ BearerCover(d)'
  BY <1>1, <1>4, OthersKept
<1> QED
  BY <1>4, <1>5, <1>6 DEF TokenInv

\* The first write: the token of c is in the cache, next to an older expiry.
LEMMA StoreTokenStep ==
    ASSUME TokenInv, NEW c \in Callers, pc[c] = "sign", Store(c) PROVE TokenInv'
<1> DEFINE e == ExpClaim(current[c])
<1>1. /\ cached' = e /\ pc' = [pc EXCEPT ![c] = "stored"]
      /\ UNCHANGED <<now, cached_exp, current, bearer, sent>>
  BY DEF Store
<1>2. /\ e \in Nat /\ e # 0 /\ current[c] + Life < e + Second
  BY Bounds, ClaimBound
<1>3. /\ current[c] <= now /\ now <= current[c] + Stall
      /\ cached_exp <= current[c] + Life + Lead
  BY Bounds DEF Punctual, Inside, Seen, Life
<1> HIDE DEF e
<1>4. TypeOK' /\ CacheLag'
  BY <1>1, <1>2, <1>3, Bounds, Periods DEF TokenInv, TypeOK, Places, CacheLag
<1>5. pc'[c] = "stored"
  BY <1>1 DEF TokenInv, TypeOK
<1>6. Punctual(c)' /\ Seen(c)' /\ BearerCover(c)'
  BY <1>1, <1>2, <1>3, <1>5, Bounds, Periods
     DEF Punctual, Seen, BearerCover, Inside, InTransit, Life
<1>7. ASSUME NEW d \in Callers, d # c
      PROVE  Punctual(d)' /\ Seen(d)' /\ BearerCover(d)'
  <2>1. pc'[d] = pc[d]
    BY <1>1, <1>7 DEF TokenInv, TypeOK
  <2>2. Punctual(d)' /\ BearerCover(d)'
    BY <1>1, <2>1, Bounds DEF Punctual, BearerCover, Inside, InTransit
  <2>3. Inside(d) => current[d] + Life < e + Second + Stall
    BY <1>2, <1>3, Bounds, Periods DEF Punctual
  <2>4. Seen(d)'
    BY <1>1, <1>2, <2>1, <2>3, Bounds, Periods DEF Seen, Inside, Life
  <2> QED
    BY <2>2, <2>4
<1> QED
  BY <1>4, <1>6, <1>7 DEF TokenInv

\* The second write: the expiry of c, next to a token that another thread may have
\* replaced by now.
LEMMA StoreExpiryStep ==
    ASSUME TokenInv, NEW c \in Callers, pc[c] = "stored", Store(c) PROVE TokenInv'
<1> DEFINE e == ExpClaim(current[c])
<1>1. /\ cached_exp' = current[c] + Life /\ Return(c, e) /\ Inside(c)
      /\ UNCHANGED <<now, cached>>
  BY DEF Store, Inside, Life
<1>2. e \in Nat /\ current[c] + Life < e + Second
  BY Bounds, ClaimBound
<1>3. /\ cached # 0 /\ current[c] + Life < cached + Second + Stall
      /\ current[c] <= now /\ now <= current[c] + Stall
  BY <1>1, Bounds DEF Seen, Punctual, Life
<1> HIDE DEF e
<1>4. current[c] + Cover < e + Second + Stall
  BY <1>2, Bounds, Periods
<1>5. /\ pc' \in [Callers -> Places]
      /\ current' \in [Callers -> Clock]
      /\ bearer' \in [Callers -> Nat] /\ sent' \in [Callers -> Clock]
      /\ Punctual(c)' /\ Seen(c)' /\ BearerCover(c)'
      /\ \A d \in Callers \ {c} :
           /\ pc'[d] = pc[d] /\ current'[d] = current[d]
           /\ bearer'[d] = bearer[d] /\ sent'[d] = sent[d]
  BY <1>1, <1>2, <1>4, ReturnStep
<1>6. TypeOK' /\ CacheLag'
  BY <1>1, <1>3, <1>5, Bounds, Periods DEF TokenInv, TypeOK, CacheLag
<1>7. ASSUME NEW d \in Callers \ {c}
      PROVE  Punctual(d)' /\ Seen(d)' /\ BearerCover(d)'
  <2>1. /\ pc'[d] = pc[d] /\ current'[d] = current[d]
        /\ bearer'[d] = bearer[d] /\ sent'[d] = sent[d]
    BY <1>5
  <2>2. Punctual(d)' /\ BearerCover(d)'
    BY <1>1, <2>1, Bounds DEF Punctual, BearerCover, Inside, InTransit
  <2>3. pc[d] = "sign" => current[c] + Life <= current[d] + Life + Lead
    BY <1>3, Bounds, Periods DEF Punctual, Inside
  <2>4. Seen(d)'
    BY <1>1, <2>1, <2>3, Bounds DEF Seen, Life
  <2> QED
    BY <2>2, <2>4
<1> QED
  BY <1>5, <1>6, <1>7 DEF TokenInv

LEMMA TokenInvStep == TokenInv /\ [Next]_vars => TokenInv'
<1> SUFFICES ASSUME TokenInv, [Next]_vars PROVE TokenInv'
  OBVIOUS
<1>1. ASSUME NEW c \in Callers, token(c) PROVE TokenInv'
  <2>1. pc[c] \in {"sign", "stored"} \/ ~ Store(c)
    BY DEF Store
  <2> QED
    BY <1>1, <2>1, EnterStep, LookStep, CheckStep, HitStep, StoreTokenStep, StoreExpiryStep
       DEF token
<1>2. ASSUME NEW c \in Callers, Answered(c) PROVE TokenInv'
  <2>1. /\ TypeOK' /\ CacheLag' /\ pc'[c] = "idle"
        /\ UNCHANGED <<now, cached, cached_exp, current>>
    BY <1>2, TokenAssumption DEF Answered, TokenInv, TypeOK, Places, CacheLag, Clock
  <2>2. Punctual(c)' /\ Seen(c)' /\ BearerCover(c)'
    BY <2>1 DEF Punctual, Seen, BearerCover, Inside, InTransit
  <2>3. ASSUME NEW d \in Callers, d # c
        PROVE  Punctual(d)' /\ Seen(d)' /\ BearerCover(d)'
    <3>1. pc'[d] = pc[d] /\ bearer'[d] = bearer[d] /\ sent'[d] = sent[d]
      BY <1>2, <2>3 DEF Answered, TokenInv, TypeOK
    <3> QED
      BY <2>1, <3>1, OthersKept
  <2> QED
    BY <2>1, <2>2, <2>3 DEF TokenInv
<1>3. CASE Tick
  <2>1. /\ now' = now + 1 /\ now' \in Clock
        /\ \A c \in Callers : Inside(c) => now < current[c] + Stall
        /\ UNCHANGED <<cached, cached_exp, pc, current, bearer, sent>>
    BY <1>3, Bounds, TokenAssumption DEF Tick, Clock
  <2>2. ASSUME NEW c \in Callers
        PROVE  Punctual(c)' /\ Seen(c)' /\ BearerCover(c)'
    BY <2>1, Bounds, Periods DEF Punctual, Seen, BearerCover, Inside, InTransit
  <2> QED
    BY <2>1, <2>2 DEF TokenInv, TypeOK, CacheLag
<1>4. CASE SetClock
  <2>1. ASSUME NEW c \in Callers
        PROVE  Punctual(c)' /\ Seen(c)' /\ BearerCover(c)'
    <3>1. ~ Inside(c) /\ pc' = pc /\ sent' = sent /\ bearer' = bearer
      BY <1>4, <2>1 DEF SetClock
    <3>2. BearerCover(c)
      BY <2>1 DEF TokenInv
    <3>3. BearerCover(c)'
      BY <3>1, <3>2 DEF BearerCover, InTransit
    <3> QED
      BY <3>1, <3>3 DEF Punctual, Seen, Inside
  <2> QED
    BY <1>4, <2>1 DEF SetClock, TokenInv, TypeOK, CacheLag
<1>5. CASE UNCHANGED vars
  <2>1. ASSUME NEW c \in Callers
        PROVE  Punctual(c)' /\ Seen(c)' /\ BearerCover(c)'
    BY <1>5, OthersKept DEF vars
  <2> QED
    BY <1>5, <2>1 DEF vars, TokenInv, TypeOK, CacheLag
<1> QED
  BY <1>1, <1>2, <1>3, <1>4, <1>5 DEF Next

\* The cache, what each thread has seen of it, and the tokens in use keep the bounds
\* above, for every configuration __init__ accepts and any number of threads.
THEOREM TokenInvariant == Spec => []TokenInv
BY TokenInvInit, TokenInvStep, PTL DEF Spec

\* token() never hands out a token that expires under a request that takes at most
\* the renewal margin (or the lifetime, if shorter) less what is lost.
THEOREM RequestOutlived == Spec => []OutlivesRequest
<1>1. TokenInv => OutlivesRequest
  <2> SUFFICES ASSUME TokenInv, NEW c \in Callers, InTransit(c),
                      now + Lost <= sent[c] + Cover
               PROVE  now < bearer[c]
    BY DEF OutlivesRequest
  <2> QED
    BY Bounds, Periods DEF BearerCover, Lost
<1> QED
  BY <1>1, TokenInvariant, PTL

\* With a cover of at least what is lost, a returned token is valid.
THEOREM ValidWhenReturned == ASSUME Lost <= Cover PROVE Spec => []ReturnsValid
<1>1. TokenInv => ReturnsValid
  <2> SUFFICES ASSUME TokenInv, NEW c \in Callers, InTransit(c)
               PROVE  sent[c] < bearer[c]
    BY DEF ReturnsValid
  <2> QED
    BY Bounds, Periods DEF BearerCover, Lost
<1> QED
  BY <1>1, TokenInvariant, PTL
=============================================================================
