---------------------------- MODULE CachePolicy ----------------------------
(***************************************************************************)
(* What hamsterd may store and for how long (internal/cache/cache.go): the *)
(* judgement of one request and its response, and what load answers for    *)
(* the entry as time goes by.                                              *)
(*                                                                         *)
(* Time is counted in ticks, Second ticks make a second.  An int64 is an   *)
(* integer of -Half..Half-1, so Half stands for 2^63, and a tick for the   *)
(* nanosecond of time.Duration.                                            *)
(*                                                                         *)
(* A Cache-Control field may come in several lines.  A line is the map     *)
(* that parseCacheControl makes of it: flags are the directives without a  *)
(* value, maxAge and swr (stale-while-revalidate) are numbers, Absent, or  *)
(* Bad for text that is no number.                                         *)
(***************************************************************************)
EXTENDS Integers, Sequences

CONSTANTS
    Second,      \* ticks of a second
    Half,        \* an int64 is less than Half and at least -Half
    DefaultTTL,  \* Config.DefaultTTL, in ticks
    Horizon,     \* bound of the clock
    Absent, Bad, None,
    Requests,    \* requests that are made
    Responses    \* responses of the origin

\* Requests are records [ordinary |-> BOOLEAN, lines |-> a sequence of lines],
\* where ordinary stands for a GET without user, Range, credential headers or
\* a private host.  Responses are records
\*   [ordinary |-> BOOLEAN,     status 200, no Set-Cookie, no Content-Range,
\*                              no Vary but on Accept-Encoding and Origin
\*    lines |-> a sequence of lines, age |-> the Age field,
\*    expires |-> the instant of the Expires field, validator |-> BOOLEAN]
Numbers == Nat \cup {Absent, Bad}

Lines == [flags : SUBSET STRING, maxAge : Numbers, swr : Numbers]

ASSUME PolicyAssumption ==
    /\ Second \in Nat \ {0} /\ Half \in Nat \ {0}
    /\ DefaultTTL \in Nat \ {0} /\ Horizon \in Nat
    /\ Absent \notin Int /\ Bad \notin Int /\ Bad # Absent /\ None \notin Int
    /\ \A q \in Requests : q.ordinary \in BOOLEAN /\ q.lines \in Seq(Lines)
    /\ \A r \in Responses :
          /\ r.lines \in Seq(Lines) /\ r.age \in Numbers
          /\ r.expires \in Int \cup {Absent, Bad}
          /\ r.ordinary \in BOOLEAN /\ r.validator \in BOOLEAN

VARIABLES
    request, response,  \* the exchange
    now,                \* the clock
    asked,              \* when the response came, or None
    entry,              \* the stored metadata, or None
    answer              \* what the last request got

vars == <<request, response, now, asked, entry, answer>>

Init ==
    /\ request \in Requests /\ response \in Responses
    /\ now = 0
    /\ asked = None /\ entry = None /\ answer = None

(***************************************************************************)
(* Integers of the code.  A definition named Bug... is its successor with a *)
(* mistake that the properties have to notice; no action uses it.           *)
(***************************************************************************)
Wrap(x) == ((x + Half) % (2 * Half)) - Half

\* strconv.ParseInt with the test for a negative number that follows it.
BadNumber(x) == x = Bad \/ (x # Absent /\ x >= Half)

Number(x) == x # Absent /\ ~BadNumber(x)

\* time.Duration(n) * time.Second
Seconds(n) == Wrap(n * Second)

(***************************************************************************)
(* Directives.                                                              *)
(***************************************************************************)
NoLine == [flags |-> {}, maxAge |-> Absent, swr |-> Absent]

\* http.Header.Get returns the first line of a field.
Directives(lines) == IF lines = <<>> THEN NoLine ELSE lines[1]

CacheableRequest(q) ==
    q.ordinary /\ Directives(q.lines).flags \cap {"no-store", "no-cache"} = {}

(***************************************************************************)
(* responseExpiration.                                                      *)
(***************************************************************************)
\* responseAge: an absent field counts as 0.
BugNoAge(r) == 0

ResponseAge(r) == IF r.age = Absent THEN 0 ELSE r.age

FreshUntil(r, t) ==
    LET d == Directives(r.lines) IN
    IF d.maxAge # Absent THEN t + Seconds(d.maxAge - ResponseAge(r))
    ELSE IF r.expires # Absent THEN r.expires
    ELSE t + DefaultTTL

StaleUntil(r, t) ==
    LET d == Directives(r.lines) IN
    IF d.swr = Absent THEN FreshUntil(r, t)
                      ELSE FreshUntil(r, t) + Seconds(d.swr)

\* The freshness information can be read: max-age goes before Expires, and
\* Expires before a validator.
Judgeable(r, t) ==
    LET d == Directives(r.lines) IN
    /\ \/ Number(d.maxAge) /\ ~BadNumber(r.age)
       \/ /\ d.maxAge = Absent
          /\ \/ r.expires \in Int /\ r.expires > t
             \/ r.expires = Absent /\ r.validator
    /\ ~BadNumber(d.swr)

BugOnlyFresh(r, t) == FreshUntil(r, t) > t

Lasting(r, t) == StaleUntil(r, t) > t

Storable(r, t) ==
    /\ r.ordinary
    /\ Directives(r.lines).flags \cap {"no-store", "no-cache", "private"} = {}
    /\ Judgeable(r, t)
    /\ Lasting(r, t)

(***************************************************************************)
(* RoundTrip without a stored entry, and load with one.                     *)
(***************************************************************************)
\* StoredAt is read from the clock a little after the judgement.
Judge(d) ==
    /\ asked = None
    /\ asked' = now
    /\ IF CacheableRequest(request) /\ Storable(response, now)
       THEN /\ entry' = [storedAt   |-> now + d,
                         freshUntil |-> FreshUntil(response, now),
                         staleUntil |-> StaleUntil(response, now)]
            /\ answer' = [status |-> "MISS", at |-> now]
       ELSE entry' = None /\ answer' = [status |-> "BYPASS", at |-> now]
    /\ UNCHANGED <<request, response, now>>

\* The Age that load reports.  The field is parsed again, a bad one counts 0.
CurrentAge ==
    Wrap((IF BadNumber(response.age) THEN 0 ELSE ResponseAge(response))
         + (now - entry.storedAt) \div Second)

BugNoFloor == CurrentAge

ReportedAge == IF CurrentAge > 0 THEN CurrentAge ELSE 0

BugExpired == FALSE

Expired == now > entry.staleUntil

BugStale == now <= entry.freshUntil

Stale == now > entry.freshUntil

Load ==
    /\ entry # None /\ now >= entry.storedAt
    /\ IF Expired
       THEN entry' = None /\ answer' = [status |-> "gone", at |-> now]
       ELSE /\ answer' = [status |-> IF Stale THEN "STALE" ELSE "HIT",
                          at     |-> now,
                          age    |-> ReportedAge]
            /\ UNCHANGED entry
    /\ UNCHANGED <<request, response, now, asked>>

Tick ==
    /\ now < Horizon
    /\ now' = now + 1
    /\ UNCHANGED <<request, response, asked, entry, answer>>

Next == Tick \/ Load \/ \E d \in 0..1 : Judge(d)

Spec == Init /\ [][Next]_vars

-----------------------------------------------------------------------------
Answered(s) == answer # None /\ answer.status = s

(***************************************************************************)
(* The lifetime that the origin gave, in ticks from the arrival of the      *)
(* response: the meaning of the fields in unbounded integers, not the way   *)
(* the code computes it.                                                    *)
(***************************************************************************)
Given(r, field) == {r.lines[i][field] : i \in 1..Len(r.lines)} \ {Absent}

GivenAge(r) == IF r.age = Absent THEN 0 ELSE r.age

Lifetime(r) ==
    IF Given(r, "maxAge") # {}
    THEN ((CHOOSE n \in Given(r, "maxAge") : TRUE) - GivenAge(r)) * Second
    ELSE IF r.expires # Absent THEN r.expires - asked
    ELSE DefaultTTL

Window(r) ==
    IF Given(r, "swr") = {} THEN 0
    ELSE (CHOOSE n \in Given(r, "swr") : TRUE) * Second

Passed == answer.at - asked

\* A HIT is within the lifetime that the origin gave, a STALE answer past it and
\* within the stale-while-revalidate window that follows.  The Age they tell is a
\* number, and that of a HIT does not go beyond max-age: the freshness that is
\* fixed when the response arrives and the Age that load computes later agree.
ServedInTime ==
    /\ Answered("HIT") =>
          /\ Passed <= Lifetime(response)
          /\ \A n \in Given(response, "maxAge") : answer.age <= n
    /\ Answered("STALE") =>
          /\ Passed > Lifetime(response)
          /\ Passed <= Lifetime(response) + Window(response)
    /\ Answered("HIT") \/ Answered("STALE") => answer.age \in 0..(Half - 1)

\* What the origin lets a cache keep is kept: a response with max-age is stored
\* when a part of its lifetime or window lies ahead, and load finds an entry
\* until they are over.
Readable(r) ==
    Given(r, "maxAge") \cup Given(r, "swr") \cup ({r.age} \ {Absent})
        \subseteq Int

Allowed(r) ==
    r.ordinary /\ \A i \in 1..Len(r.lines) : r.lines[i].flags = {}

LifetimeUsed ==
    /\ Answered("gone") => Passed > Lifetime(response) + Window(response)
    /\ (/\ Answered("BYPASS")
        /\ request.ordinary /\ request.lines = <<>>
        /\ Allowed(response) /\ Readable(response)
        /\ Given(response, "maxAge") # {})
       => Lifetime(response) + Window(response) <= 0

\* A stored response does not get younger: no HIT after STALE, and nothing after
\* it is gone.  CacheStore takes this order of the phases for granted.
Rank == [MISS |-> 0, HIT |-> 1, STALE |-> 2, gone |-> 3]

NeverYounger ==
    [][(answer # None /\ ~Answered("BYPASS"))
          => Rank[answer.status] <= Rank[answer'.status]]_vars

\* A response is not stored when one of its Cache-Control lines forbids it.
ForbiddenNotStored ==
    entry # None =>
        \A i \in 1..Len(response.lines) :
            response.lines[i].flags \cap {"no-store", "no-cache", "private"} = {}
=============================================================================
