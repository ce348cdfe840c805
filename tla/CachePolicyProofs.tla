--------------------------- MODULE CachePolicyProofs ---------------------------
(***************************************************************************)
(* Theorems about CachePolicy, for any lengths of a second and of an int64  *)
(* and any fields: answers never get younger, and for responses whose       *)
(* numbers fit, HIT, STALE and gone mean what the origin's fields mean.     *)
(***************************************************************************)
EXTENDS CachePolicy, TLAPS

\* One Cache-Control line at most, and no product with Second leaves an int64.
Fits(r) ==
    LET d == Directives(r.lines) IN
    /\ Len(r.lines) <= 1
    /\ r.age \in Nat => r.age < Half
    /\ d.swr \in Nat => d.swr < Half /\ d.swr * Second < Half
    /\ d.maxAge \in Nat => d.maxAge < Half
    /\ d.maxAge \in Nat /\ r.age # Bad =>
          (d.maxAge - ResponseAge(r)) * Second \in (-Half)..(Half - 1)

\* The exchange and the clock.
Exchange ==
    /\ request \in Requests /\ response \in Responses
    /\ now \in Nat
    /\ asked # None => asked \in 0..now

\* An entry is what responseExpiration made of the response.
EntryInv ==
    entry # None =>
        /\ asked # None
        /\ entry.storedAt \in asked..(asked + 1)
        /\ entry.freshUntil = FreshUntil(response, asked)
        /\ entry.staleUntil = StaleUntil(response, asked)
        /\ Judgeable(response, asked)

\* What the last answer says of the entry.
AnswerInv ==
    /\ asked = None => entry = None /\ answer = None
    /\ answer # None =>
          /\ answer.at \in 0..now
          /\ answer.status \in {"MISS", "BYPASS", "HIT", "STALE", "gone"}
          /\ answer.status \in {"BYPASS", "gone"} => entry = None
          /\ answer.status = "STALE" => answer.at > entry.freshUntil

IInv == Exchange /\ EntryInv /\ AnswerInv

\* The Age that load reports at instant t.
AgeAt(t) ==
    Wrap((IF BadNumber(response.age) THEN 0 ELSE ResponseAge(response))
         + (t - entry.storedAt) \div Second)

\* Why the last answer was given; load has not forgotten it when the entry is gone.
ReasonInv ==
    answer # None =>
        /\ answer.status \in {"HIT", "STALE"} =>
              /\ entry # None
              /\ answer.at >= entry.storedAt /\ answer.at <= entry.staleUntil
              /\ answer.status = "HIT" => answer.at <= entry.freshUntil
              /\ answer.age = IF AgeAt(answer.at) > 0 THEN AgeAt(answer.at) ELSE 0
        /\ answer.status = "gone" =>
              /\ Judgeable(response, asked)
              /\ answer.at > StaleUntil(response, asked)
        /\ answer.status = "BYPASS" =>
              /\ answer.at = asked
              /\ ~(CacheableRequest(request) /\ Storable(response, asked))

-----------------------------------------------------------------------------
(***************************************************************************)
(* Lemmas about integers.                                                   *)
(***************************************************************************)
LEMMA WrapRange ==
    ASSUME NEW x \in Int
    PROVE  Wrap(x) \in (-Half)..(Half - 1)
  <1> DEFINE M == 2 * Half
  <1>1. M \in Nat \ {0}
    BY PolicyAssumption
  <1> HIDE DEF M
  <1>2. \A y \in Int, m \in Nat \ {0} : y % m \in 0..(m - 1)
    OBVIOUS
  <1>3. (x + Half) % M \in 0..(M - 1)
    BY <1>1, <1>2, PolicyAssumption
  <1> QED
    BY <1>3, PolicyAssumption DEF M, Wrap

LEMMA WrapFits ==
    ASSUME NEW x \in (-Half)..(Half - 1)
    PROVE  Wrap(x) = x
  <1> DEFINE M == 2 * Half
  <1>1. M \in Nat \ {0} /\ x + Half \in 0..(M - 1)
    BY PolicyAssumption
  <1> HIDE DEF M
  <1>2. \A m \in Nat \ {0} : \A y \in 0..(m - 1) : y % m = y
    OBVIOUS
  <1>3. (x + Half) % M = x + Half
    BY <1>1, <1>2
  <1> QED
    BY <1>3, PolicyAssumption DEF M, Wrap

LEMMA DivideLess ==
    ASSUME NEW x \in Nat, NEW k \in Int, x <= k * Second
    PROVE  x \div Second \in 0..k
  <1> DEFINE d == x \div Second
  <1>1. Second \in Nat \ {0}
    BY PolicyAssumption
  <1>2. d \in Int /\ Second * d <= x /\ x < Second * (d + 1)
    BY <1>1
  <1> HIDE DEF d
  <1>3. d >= 0
    BY <1>1, <1>2
  <1>4. d <= k
    BY <1>1, <1>2
  <1> QED
    BY <1>2, <1>3, <1>4 DEF d

-----------------------------------------------------------------------------
(***************************************************************************)
(* Lemmas about fields.                                                     *)
(***************************************************************************)
LEMMA DirectivesSort ==
    ASSUME NEW ls \in Seq(Lines)
    PROVE  /\ Directives(ls) \in Lines
           /\ Directives(ls).maxAge \in Numbers /\ Directives(ls).swr \in Numbers
  <1>1. NoLine \in Lines
    BY DEF NoLine, Lines, Numbers
  <1>2. ls # <<>> => ls[1] \in Lines
    OBVIOUS
  <1>3. Directives(ls) \in Lines
    BY <1>1, <1>2 DEF Directives
  <1> QED
    BY <1>3 DEF Lines

LEMMA Sorts ==
    ASSUME NEW r \in Responses, NEW t \in Int, Judgeable(r, t)
    PROVE  /\ FreshUntil(r, t) \in Int /\ StaleUntil(r, t) \in Int
           /\ Directives(r.lines).maxAge # Absent =>
                 /\ Directives(r.lines).maxAge \in Nat
                 /\ ResponseAge(r) \in Nat /\ ~BadNumber(r.age) /\ r.age # Bad
           /\ Directives(r.lines).swr # Absent => Directives(r.lines).swr \in Nat
  <1> DEFINE d == Directives(r.lines)
  <1>1. d.maxAge \in Numbers /\ d.swr \in Numbers /\ r.age \in Numbers
    BY DirectivesSort, PolicyAssumption
  <1>2. /\ \/ Number(d.maxAge) /\ ~BadNumber(r.age)
           \/ d.maxAge = Absent /\ r.expires \in Int
           \/ d.maxAge = Absent /\ r.expires = Absent
        /\ ~BadNumber(d.swr)
    <2>1. /\ \/ Number(d.maxAge) /\ ~BadNumber(r.age)
             \/ /\ d.maxAge = Absent
                /\ \/ r.expires \in Int /\ r.expires > t
                   \/ r.expires = Absent /\ r.validator
          /\ ~BadNumber(d.swr)
      BY DEF Judgeable
    <2> HIDE DEF d
    <2> QED
      BY <2>1, Zenon
  <1> HIDE DEF d
  <1>3. /\ d.maxAge # Absent =>
              d.maxAge \in Nat /\ ResponseAge(r) \in Nat /\ ~BadNumber(r.age) /\ r.age # Bad
        /\ d.swr # Absent => d.swr \in Nat
    BY <1>1, <1>2 DEF Number, BadNumber, Numbers, ResponseAge
  <1>4. \A n \in Int : Seconds(n) \in Int
    BY WrapRange, PolicyAssumption DEF Seconds
  <1>5. FreshUntil(r, t) \in Int
    <2>1. CASE d.maxAge # Absent
      <3>1. d.maxAge - ResponseAge(r) \in Int
        BY <1>3, <2>1
      <3>2. Seconds(d.maxAge - ResponseAge(r)) \in Int
        BY <1>4, <3>1
      <3>3. FreshUntil(r, t) = t + Seconds(d.maxAge - ResponseAge(r))
        BY <2>1 DEF FreshUntil, d
      <3> QED
        BY <3>2, <3>3
    <2>2. CASE d.maxAge = Absent
      <3>1. r.expires \in Int \/ r.expires = Absent
        BY <1>2, <2>2 DEF Number
      <3>2. FreshUntil(r, t) = IF r.expires # Absent THEN r.expires ELSE t + DefaultTTL
        BY <2>2 DEF FreshUntil, d
      <3>3. t + DefaultTTL \in Int
        BY PolicyAssumption
      <3> QED
        BY <3>1, <3>2, <3>3
    <2> QED
      BY <2>1, <2>2
  <1>6. StaleUntil(r, t) \in Int
    BY <1>3, <1>4, <1>5 DEF StaleUntil, d
  <1> QED
    BY <1>3, <1>5, <1>6 DEF d

\* Of one line, the fields are what parseCacheControl found.
LEMMA GivenOne ==
    ASSUME NEW r \in Responses, Len(r.lines) <= 1
    PROVE  /\ Given(r, "maxAge") = {Directives(r.lines).maxAge} \ {Absent}
           /\ Given(r, "swr") = {Directives(r.lines).swr} \ {Absent}
  <1>1. r.lines \in Seq(Lines)
    BY PolicyAssumption
  <1>2. CASE r.lines = <<>>
    <2>1. 1..Len(r.lines) = {}
      BY <1>2
    <2> QED
      BY <1>2, <2>1 DEF Given, Directives, NoLine
  <1>3. CASE r.lines # <<>>
    <2>1. Len(r.lines) = 1
      <3>1. \A s \in Seq(Lines) : Len(s) \in Nat /\ (s # <<>> => Len(s) # 0)
        OBVIOUS
      <3>2. Len(r.lines) \in Nat /\ Len(r.lines) # 0
        BY <1>1, <1>3, <3>1, Zenon
      <3>3. \A n \in Nat : n <= 1 /\ n # 0 => n = 1
        OBVIOUS
      <3> QED
        BY <3>2, <3>3, Zenon
    <2>2. 1..Len(r.lines) = {1}
      BY <2>1
    <2> QED
      BY <1>3, <2>2 DEF Given, Directives
  <1> QED
    BY <1>2, <1>3

\* For numbers that fit, the code's instants are those of the origin's fields.
LEMMA InstantsMean ==
    ASSUME NEW r \in Responses, Fits(r), asked \in Int, Judgeable(r, asked)
    PROVE  /\ Lifetime(r) \in Int /\ Window(r) \in Int
           /\ FreshUntil(r, asked) = asked + Lifetime(r)
           /\ StaleUntil(r, asked) = asked + Lifetime(r) + Window(r)
  <1> DEFINE d == Directives(r.lines)
  <1>1. /\ Given(r, "maxAge") = {d.maxAge} \ {Absent}
        /\ Given(r, "swr") = {d.swr} \ {Absent}
    BY GivenOne DEF Fits
  <1>2. /\ d.maxAge # Absent =>
              /\ d.maxAge \in Nat /\ ResponseAge(r) \in Nat /\ r.age # Bad
              /\ (d.maxAge - ResponseAge(r)) * Second \in (-Half)..(Half - 1)
        /\ d.swr # Absent => d.swr \in Nat /\ d.swr * Second \in (-Half)..(Half - 1)
    <2>1. /\ d.maxAge # Absent => d.maxAge \in Nat /\ ResponseAge(r) \in Nat /\ r.age # Bad
          /\ d.swr # Absent => d.swr \in Nat
      BY Sorts
    <2>2. \A n \in Nat : n * Second < Half => n * Second \in (-Half)..(Half - 1)
      <3>1. \A n \in Nat : n * Second \in Nat
        BY PolicyAssumption
      <3> QED
        BY <3>1, PolicyAssumption
    <2> QED
      BY <2>1, <2>2 DEF Fits
  <1>3. d.maxAge = Absent => r.expires \in Int \/ r.expires = Absent
    BY DEF Judgeable, Number
  <1> HIDE DEF d
  <1>6. Lifetime(r) \in Int /\ FreshUntil(r, asked) = asked + Lifetime(r)
    <2>1. CASE d.maxAge # Absent
      <3>1. Given(r, "maxAge") = {d.maxAge}
        BY <1>1, <2>1
      <3>2. (CHOOSE n \in Given(r, "maxAge") : TRUE) = d.maxAge
        BY <3>1
      <3>3. Lifetime(r) = (d.maxAge - ResponseAge(r)) * Second
        BY <3>1, <3>2 DEF Lifetime, GivenAge, ResponseAge
      <3>4. FreshUntil(r, asked) = asked + (d.maxAge - ResponseAge(r)) * Second
        BY <1>2, <2>1, WrapFits DEF FreshUntil, Seconds, d
      <3> QED
        BY <1>2, <2>1, <3>3, <3>4
    <2>2. CASE d.maxAge = Absent
      <3>1. Given(r, "maxAge") = {}
        BY <1>1, <2>2
      <3>2. Lifetime(r) = IF r.expires # Absent THEN r.expires - asked ELSE DefaultTTL
        BY <3>1 DEF Lifetime
      <3>3. FreshUntil(r, asked) =
               IF r.expires # Absent THEN r.expires ELSE asked + DefaultTTL
        BY <2>2 DEF FreshUntil, d
      <3>4. CASE r.expires = Absent
        BY <3>2, <3>3, <3>4, PolicyAssumption
      <3>5. CASE r.expires # Absent
        BY <1>3, <2>2, <3>2, <3>3, <3>5
      <3> QED
        BY <3>4, <3>5
    <2> QED
      BY <2>1, <2>2
  <1>7. CASE d.swr # Absent
    <2>1. Given(r, "swr") = {d.swr}
      BY <1>1, <1>7
    <2>2. (CHOOSE n \in Given(r, "swr") : TRUE) = d.swr
      BY <2>1
    <2>3. Window(r) = d.swr * Second
      BY <2>1, <2>2 DEF Window
    <2>5. Window(r) \in Int
      BY <1>2, <1>7, <2>3
    <2>4. StaleUntil(r, asked) = FreshUntil(r, asked) + d.swr * Second
      BY <1>2, <1>7, WrapFits DEF StaleUntil, Seconds, d
    <2> QED
      BY <1>6, <2>3, <2>4, <2>5
  <1>8. CASE d.swr = Absent
    BY <1>1, <1>6, <1>8 DEF Window, StaleUntil, d
  <1> QED
    BY <1>6, <1>7, <1>8

-----------------------------------------------------------------------------
(***************************************************************************)
(* The inductive invariant.                                                 *)
(***************************************************************************)
LEMMA Initially == Init => IInv
  BY DEF Init, IInv, Exchange, EntryInv, AnswerInv

LEMMA TickKeeps == IInv /\ Tick => IInv'
  <1> SUFFICES ASSUME IInv, Tick PROVE IInv'
    OBVIOUS
  <1> USE DEF IInv, Tick
  <1>1. Exchange'
    <2>1. now \in Nat /\ now' = now + 1
      BY DEF Exchange
    <2> QED
      BY <2>1 DEF Exchange
  <1>2. EntryInv'
    BY DEF EntryInv, FreshUntil, StaleUntil, Judgeable
  <1>3. AnswerInv'
    <2>1. now \in Nat /\ now' = now + 1
      BY DEF Exchange
    <2>2. answer # None => answer.at \in 0..now'
      BY <2>1 DEF AnswerInv
    <2> QED
      BY <2>2 DEF AnswerInv
  <1> QED
    BY <1>1, <1>2, <1>3

LEMMA LoadKeeps == IInv /\ Load => IInv'
  <1> SUFFICES ASSUME IInv, Load PROVE IInv'
    OBVIOUS
  <1>1. Exchange'
    BY DEF IInv, Load, Exchange
  <1>2. EntryInv'
    BY DEF IInv, Load, EntryInv, FreshUntil, StaleUntil, Judgeable
  <1>3. now \in 0..now /\ now' = now /\ asked' = asked /\ asked # None
    BY DEF IInv, Load, Exchange, EntryInv
  <1>4. CASE Expired
    <2>1. entry' = None /\ answer'.status = "gone" /\ answer'.at = now
      BY <1>4 DEF Load
    <2> QED
      BY <1>1, <1>2, <1>3, <2>1 DEF IInv, AnswerInv
  <1>5. CASE ~Expired
    <2>1. /\ entry' = entry /\ answer'.at = now
          /\ answer'.status = IF Stale THEN "STALE" ELSE "HIT"
      BY <1>5 DEF Load
    <2>2. Stale => now > entry.freshUntil
      BY DEF Stale
    <2> QED
      BY <1>1, <1>2, <1>3, <2>1, <2>2 DEF IInv, AnswerInv
  <1> QED
    BY <1>4, <1>5

LEMMA JudgeKeeps == ASSUME NEW d \in 0..1 PROVE IInv /\ Judge(d) => IInv'
  <1> SUFFICES ASSUME IInv, Judge(d) PROVE IInv'
    OBVIOUS
  <1>1. now \in Int /\ now \in 0..now /\ now' = now /\ now + d \in now..(now + 1)
    <2>1. now \in Nat /\ now' = now
      BY DEF IInv, Exchange, Judge
    <2> QED
      BY <2>1
  <1>2. /\ asked = None /\ asked' = now /\ asked' # None
        /\ request' = request /\ response' = response
    BY <1>1, PolicyAssumption DEF Judge
  <1>3. Exchange'
    BY <1>1, <1>2 DEF IInv, Exchange
  <1>4. CASE CacheableRequest(request) /\ Storable(response, now)
    <2>1. /\ entry'.storedAt = now + d
          /\ entry'.freshUntil = FreshUntil(response, now)
          /\ entry'.staleUntil = StaleUntil(response, now)
          /\ answer'.status = "MISS" /\ answer'.at = now
      BY <1>4 DEF Judge
    <2>2. Judgeable(response, now)
      BY <1>4 DEF Storable
    <2>3. EntryInv'
      BY <1>1, <1>2, <2>1, <2>2 DEF EntryInv
    <2>4. AnswerInv'
      BY <1>1, <1>2, <2>1 DEF AnswerInv
    <2> QED
      BY <1>3, <2>3, <2>4 DEF IInv
  <1>5. CASE ~(CacheableRequest(request) /\ Storable(response, now))
    <2>1. entry' = None /\ answer'.status = "BYPASS" /\ answer'.at = now
      BY <1>5 DEF Judge
    <2>2. EntryInv'
      BY <2>1 DEF EntryInv
    <2>3. AnswerInv'
      BY <1>1, <1>2, <2>1 DEF AnswerInv
    <2> QED
      BY <1>3, <2>2, <2>3 DEF IInv
  <1> QED
    BY <1>4, <1>5

\* The invariant holds for every set of exchanges, also where the arithmetic wraps.
THEOREM Invariance == Spec => []IInv
  <1>1. IInv /\ [Next]_vars => IInv'
    <2> SUFFICES ASSUME IInv, [Next]_vars PROVE IInv'
      OBVIOUS
    <2>1. CASE UNCHANGED vars
      BY <2>1 DEF vars, IInv, Exchange, EntryInv, AnswerInv, FreshUntil, StaleUntil,
                  Judgeable
    <2> QED
      BY <2>1, TickKeeps, LoadKeeps, JudgeKeeps DEF Next
  <1> QED
    BY <1>1, Initially, PTL DEF Spec

\* Whatever the fields say, and even when the code's arithmetic wraps, what load
\* answers goes from MISS to HIT to STALE to gone and never back.
THEOREM OrderCorrect == Spec => NeverYounger
  <1>1. IInv /\ [Next]_vars =>
           [(answer # None /\ ~Answered("BYPASS"))
               => Rank[answer.status] <= Rank[answer'.status]]_vars
    <2> SUFFICES ASSUME IInv, Next, answer # None, ~Answered("BYPASS")
                 PROVE  Rank[answer.status] <= Rank[answer'.status]
      OBVIOUS
    <2>1. answer.status \in {"MISS", "HIT", "STALE", "gone"}
      BY DEF IInv, AnswerInv, Answered
    <2>2. CASE Tick
      BY <2>1, <2>2 DEF Tick, Rank
    <2>3. CASE Load
      <3>1. answer.status # "gone" /\ entry # None
        BY <2>3 DEF Load, IInv, AnswerInv
      <3>2. answer.at \in 0..now /\ (answer.status = "STALE" => answer.at > entry.freshUntil)
        BY DEF IInv, AnswerInv
      <3>3. entry.freshUntil \in Int /\ now \in Nat
        <4>1. /\ response \in Responses /\ asked \in Int /\ now \in Nat
              /\ Judgeable(response, asked)
              /\ entry.freshUntil = FreshUntil(response, asked)
          BY <3>1 DEF IInv, Exchange, EntryInv
        <4> QED
          BY <4>1, Sorts
      <3>4. answer.status = "STALE" => Stale
        BY <3>2, <3>3 DEF Stale
      <3>5. answer'.status \in {"HIT", "STALE", "gone"}
            /\ (Stale => answer'.status # "HIT")
        BY <2>3 DEF Load
      <3> QED
        BY <2>1, <3>1, <3>4, <3>5 DEF Rank
    <2>4. CASE \E d \in 0..1 : Judge(d)
      BY <2>4 DEF Judge, IInv, AnswerInv
    <2> QED
      BY <2>2, <2>3, <2>4 DEF Next
  <1> QED
    BY <1>1, Invariance, PTL DEF Spec, NeverYounger

-----------------------------------------------------------------------------
(***************************************************************************)
(* What the answers mean.                                                   *)
(***************************************************************************)
LEMMA LoadReasons == IInv /\ Load => ReasonInv'
  <1> SUFFICES ASSUME IInv, Load PROVE ReasonInv'
    OBVIOUS
  <1>1. /\ entry # None /\ asked # None /\ asked' = asked /\ response' = response
        /\ now >= entry.storedAt
    BY DEF IInv, EntryInv, Load
  <1>2. /\ response \in Responses /\ asked \in Int /\ now \in Int
        /\ Judgeable(response, asked)
        /\ entry.freshUntil = FreshUntil(response, asked)
        /\ entry.staleUntil = StaleUntil(response, asked)
    BY <1>1 DEF IInv, Exchange, EntryInv
  <1>3. entry.freshUntil \in Int /\ entry.staleUntil \in Int
    BY <1>2, Sorts
  <1>4. CASE Expired
    <2>1. answer'.status = "gone" /\ answer'.at = now
      BY <1>4 DEF Load
    <2>2. Judgeable(response, asked)' /\ StaleUntil(response, asked)' = StaleUntil(response, asked)
      BY <1>1, <1>2 DEF Judgeable, StaleUntil, FreshUntil
    <2>3. now > StaleUntil(response, asked)
      BY <1>2, <1>4 DEF Expired
    <2> QED
      BY <2>1, <2>2, <2>3 DEF ReasonInv
  <1>5. CASE ~Expired
    <2>1. /\ entry' = entry /\ answer'.at = now /\ answer'.age = ReportedAge
          /\ answer'.status = IF Stale THEN "STALE" ELSE "HIT"
      BY <1>5 DEF Load
    <2>2. AgeAt(answer.at)' = CurrentAge
      BY <1>1, <2>1 DEF AgeAt, CurrentAge
    <2>3. now <= entry.staleUntil /\ (~Stale => now <= entry.freshUntil)
      BY <1>2, <1>3, <1>5 DEF Expired, Stale
    <2>4. answer'.age = IF AgeAt(answer.at)' > 0 THEN AgeAt(answer.at)' ELSE 0
      BY <2>1, <2>2 DEF ReportedAge
    <2> QED
      BY <1>1, <2>1, <2>3, <2>4 DEF ReasonInv
  <1> QED
    BY <1>4, <1>5

LEMMA JudgeReasons == ASSUME NEW d \in 0..1 PROVE IInv /\ Judge(d) => ReasonInv'
  <1> SUFFICES ASSUME IInv, Judge(d) PROVE ReasonInv'
    OBVIOUS
  <1>1. asked' = now /\ request' = request /\ response' = response
    BY DEF Judge
  <1>2. CASE CacheableRequest(request) /\ Storable(response, now)
    BY <1>2 DEF Judge, ReasonInv
  <1>3. CASE ~(CacheableRequest(request) /\ Storable(response, now))
    <2>1. answer'.status = "BYPASS" /\ answer'.at = now
      BY <1>3 DEF Judge
    <2> QED
      BY <1>1, <1>3, <2>1 DEF ReasonInv
  <1> QED
    BY <1>2, <1>3

LEMMA Reasons == Spec => []ReasonInv
  <1>1. Init => ReasonInv
    BY DEF Init, ReasonInv
  <1>2. IInv /\ ReasonInv /\ [Next]_vars => ReasonInv'
    <2> SUFFICES ASSUME IInv, ReasonInv, [Next]_vars PROVE ReasonInv'
      OBVIOUS
    <2>1. CASE Tick \/ UNCHANGED vars
      <3>1. UNCHANGED <<request, response, asked, entry, answer>>
        BY <2>1 DEF Tick, vars
      <3>2. AgeAt(answer.at)' = AgeAt(answer.at)
        BY <3>1 DEF AgeAt
      <3> QED
        BY <3>1, <3>2 DEF ReasonInv, Judgeable, StaleUntil, FreshUntil, Storable
    <2> QED
      BY <2>1, LoadReasons, JudgeReasons DEF Next
  <1> QED
    BY <1>1, <1>2, Invariance, PTL DEF Spec

\* A HIT is within the lifetime that the origin gave, a STALE answer is in the window
\* that follows, and the Age they tell is a number that, on a HIT, max-age bounds:
\* for every set of responses with one line and products that fit an int64.
THEOREM InTimeCorrect ==
    ASSUME \A r \in Responses : Fits(r)
    PROVE  Spec => []ServedInTime
  <1>1. IInv /\ ReasonInv => ServedInTime
    <2> SUFFICES ASSUME IInv, ReasonInv PROVE ServedInTime
      OBVIOUS
    <2>1. ASSUME Answered("HIT") \/ Answered("STALE")
          PROVE  /\ entry # None /\ response \in Responses /\ asked \in Int
                 /\ answer.at \in Int /\ entry.storedAt \in Int
                 /\ entry.storedAt >= asked /\ answer.at >= entry.storedAt
                 /\ Judgeable(response, asked)
                 /\ Lifetime(response) \in Int /\ Window(response) \in Int
                 /\ entry.freshUntil = asked + Lifetime(response)
                 /\ entry.staleUntil = asked + Lifetime(response) + Window(response)
                 /\ answer.age = IF AgeAt(answer.at) > 0 THEN AgeAt(answer.at) ELSE 0
      <3>1. /\ entry # None /\ answer.at \in Int /\ answer.at >= entry.storedAt
            /\ answer.age = IF AgeAt(answer.at) > 0 THEN AgeAt(answer.at) ELSE 0
        BY <2>1 DEF Answered, IInv, AnswerInv, ReasonInv
      <3>2. asked # None /\ response \in Responses /\ now \in Nat
        BY <3>1 DEF IInv, Exchange, EntryInv
      <3>3. asked \in Int
        BY <3>2 DEF IInv, Exchange
      <3>4. /\ entry.storedAt \in asked..(asked + 1)
            /\ entry.freshUntil = FreshUntil(response, asked)
            /\ entry.staleUntil = StaleUntil(response, asked)
            /\ Judgeable(response, asked)
        BY <3>1 DEF IInv, EntryInv
      <3>5. entry.storedAt \in Int /\ entry.storedAt >= asked
        BY <3>3, <3>4
      <3> QED
        BY <3>1, <3>2, <3>3, <3>4, <3>5, InstantsMean
    <2>2. ASSUME Answered("HIT") \/ Answered("STALE")
          PROVE  answer.age \in 0..(Half - 1)
      <3>1. response.age \in Numbers
        BY <2>1, <2>2, PolicyAssumption
      <3>2. (IF BadNumber(response.age) THEN 0 ELSE ResponseAge(response)) \in Int
        BY <3>1 DEF Numbers, BadNumber, ResponseAge
      <3>3. (answer.at - entry.storedAt) \div Second \in Int
        BY <2>1, <2>2, PolicyAssumption
      <3>4. AgeAt(answer.at) \in (-Half)..(Half - 1)
        BY <3>2, <3>3, WrapRange DEF AgeAt
      <3> QED
        BY <2>1, <2>2, <3>4, PolicyAssumption
    <2>3. ASSUME Answered("HIT"), NEW n \in Given(response, "maxAge")
          PROVE  answer.age <= n
      <3> DEFINE d == Directives(response.lines)
      <3>1. n = d.maxAge /\ d.maxAge # Absent
        BY <2>1, <2>3, GivenOne DEF Fits
      <3>2. n \in Nat /\ ResponseAge(response) \in Nat /\ ~BadNumber(response.age)
        BY <2>1, <2>3, <3>1, Sorts
      <3>3. n < Half
        BY <2>1, <2>3, <3>1, <3>2 DEF Fits
      <3>4. Lifetime(response) = (n - ResponseAge(response)) * Second
        <4>1. Given(response, "maxAge") = {n}
          BY <2>1, <2>3, <3>1, GivenOne DEF Fits
        <4>2. (CHOOSE m \in Given(response, "maxAge") : TRUE) = n
          BY <4>1
        <4> QED
          BY <4>1, <4>2 DEF Lifetime, GivenAge, ResponseAge
      <3>5. answer.at <= entry.freshUntil
        BY <2>3 DEF Answered, ReasonInv
      <3> DEFINE x == answer.at - entry.storedAt
                 k == n - ResponseAge(response)
      <3>6. x \in Nat /\ k \in Int
        BY <2>1, <2>3, <3>2
      <3>7. x <= k * Second
        BY <2>1, <2>3, <3>4, <3>5
      <3>8. x \div Second \in 0..k
        BY <3>6, <3>7, DivideLess
      <3>9. AgeAt(answer.at) = Wrap(ResponseAge(response) + (x \div Second))
        BY <3>2 DEF AgeAt
      <3> HIDE DEF d
      <3>10. ResponseAge(response) + (x \div Second) \in 0..n
        <4>1. \A a, b \in Nat : \A q \in 0..(b - a) : a + q \in 0..b
          OBVIOUS
        <4> QED
          BY <3>2, <3>8, <4>1, Zenon
      <3>11. AgeAt(answer.at) \in 0..n
        <4> HIDE DEF x, k
        <4> DEFINE y == ResponseAge(response) + (x \div Second)
        <4>1. y \in (-Half)..(Half - 1) /\ y \in 0..n
          BY <3>2, <3>3, <3>10, PolicyAssumption
        <4> HIDE DEF y
        <4>2. Wrap(y) = y
          BY <4>1, WrapFits
        <4> QED
          BY <3>9, <4>1, <4>2 DEF y
      <3> QED
        BY <2>1, <2>3, <3>2, <3>11
    <2>4. ASSUME Answered("HIT") PROVE Passed <= Lifetime(response)
      <3>1. answer.at <= entry.freshUntil
        BY <2>4 DEF Answered, ReasonInv
      <3> QED
        BY <2>1, <2>4, <3>1 DEF Passed
    <2>5. ASSUME Answered("STALE")
          PROVE  Passed > Lifetime(response) /\ Passed <= Lifetime(response) + Window(response)
      <3>1. answer.at > entry.freshUntil /\ answer.at <= entry.staleUntil
        BY <2>5 DEF Answered, IInv, AnswerInv, ReasonInv
      <3> QED
        BY <2>1, <2>5, <3>1 DEF Passed
    <2> QED
      BY <2>2, <2>3, <2>4, <2>5 DEF ServedInTime
  <1> QED
    BY <1>1, Invariance, Reasons, PTL

\* What the origin lets a cache keep is kept: load drops an entry only after its
\* lifetime and window, and a response with max-age that lasts is stored.
THEOREM UsedCorrect ==
    ASSUME \A r \in Responses : Fits(r)
    PROVE  Spec => []LifetimeUsed
  <1>1. IInv /\ ReasonInv => LifetimeUsed
    <2> SUFFICES ASSUME IInv, ReasonInv PROVE LifetimeUsed
      OBVIOUS
    <2>1. ASSUME answer # None PROVE response \in Responses /\ answer.at \in Int /\ asked \in Int
      <3>1. asked # None /\ now \in Nat /\ response \in Responses
        BY <2>1 DEF IInv, AnswerInv, Exchange
      <3>2. asked \in 0..now /\ answer.at \in 0..now
        BY <2>1, <3>1 DEF IInv, AnswerInv, Exchange
      <3> QED
        BY <3>1, <3>2
    <2>2. ASSUME Answered("gone")
          PROVE  Passed > Lifetime(response) + Window(response)
      <3>1. answer # None /\ Judgeable(response, asked) /\ answer.at > StaleUntil(response, asked)
        BY <2>2 DEF Answered, ReasonInv
      <3>2. response \in Responses /\ answer.at \in Int /\ asked \in Int
        BY <2>1, <3>1
      <3>3. /\ Lifetime(response) \in Int /\ Window(response) \in Int
            /\ StaleUntil(response, asked) = asked + Lifetime(response) + Window(response)
        BY <3>1, <3>2, InstantsMean
      <3> QED
        BY <3>1, <3>2, <3>3 DEF Passed
    <2>3. ASSUME Answered("BYPASS"), request.ordinary, request.lines = <<>>,
                 Allowed(response), Readable(response), Given(response, "maxAge") # {}
          PROVE  Lifetime(response) + Window(response) <= 0
      <3> DEFINE d == Directives(response.lines)
      <3>1. answer # None /\ ~(CacheableRequest(request) /\ Storable(response, asked))
        BY <2>3 DEF Answered, ReasonInv
      <3>2. response \in Responses /\ asked \in Int /\ Fits(response)
        BY <2>1, <3>1
      <3>3. CacheableRequest(request)
        BY <2>3 DEF CacheableRequest, Directives, NoLine
      <3>4. response.ordinary /\ d.flags = {}
        <4>1. response.ordinary /\ (1 \in 1..Len(response.lines) => response.lines[1].flags = {})
          BY <2>3 DEF Allowed
        <4>2. response.lines # <<>> => 1 \in 1..Len(response.lines)
          BY <3>2, PolicyAssumption
        <4> QED
          BY <4>1, <4>2 DEF Directives, NoLine
      <3>5. d.maxAge \in Numbers /\ d.swr \in Numbers /\ response.age \in Numbers
        BY <3>2, DirectivesSort, PolicyAssumption
      <3>6. /\ d.maxAge \in Int
            /\ d.swr # Absent => d.swr \in Int
            /\ response.age # Absent => response.age \in Int
        BY <2>3, <3>2, GivenOne DEF Fits, Readable
      <3>7. /\ d.maxAge < Half
            /\ d.swr # Absent => d.swr < Half
            /\ response.age # Absent => response.age < Half
        BY <3>2, <3>5, <3>6, PolicyAssumption DEF Fits, Numbers
      <3>8. Number(d.maxAge) /\ ~BadNumber(response.age) /\ ~BadNumber(d.swr)
        BY <3>6, <3>7, PolicyAssumption DEF Number, BadNumber
      <3>9. Judgeable(response, asked)
        BY <3>8 DEF Judgeable
      <3>10. ~Lasting(response, asked)
        BY <3>1, <3>3, <3>4, <3>9 DEF Storable
      <3>11. /\ Lifetime(response) \in Int /\ Window(response) \in Int
             /\ StaleUntil(response, asked) = asked + Lifetime(response) + Window(response)
        BY <3>2, <3>9, InstantsMean
      <3> QED
        BY <3>2, <3>10, <3>11 DEF Lasting
    <2> QED
      BY <2>2, <2>3 DEF LifetimeUsed
  <1> QED
    BY <1>1, Invariance, Reasons, PTL
===============================================================================
