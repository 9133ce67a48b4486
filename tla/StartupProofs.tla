----------------------------- MODULE StartupProofs -----------------------------
(***************************************************************************)
(* Proofs about the configuration: for any file, of any number of roles,   *)
(* routes and pages, what loading makes of it.                             *)
(***************************************************************************)
EXTENDS Startup, TLAPS

-----------------------------------------------------------------------------
\* Roles and routes.

\* What a role has been given is what some element, a "*" or a built-in role says.
Spoken == \A t \in DOMAIN roles : \A n \in roles[t] : Says(t, n)

\* Of the elements of a title the last one's Includes count, with a "*" once the
\* stars are expanded; a title with a "*" stays in full_include_roles.
Defined ==
  /\ full = {titles[i].title : i \in {j \in DOMAIN titles : HasStar(titles[j])}}
  /\ \A i \in DOMAIN titles : titles[i].title \in DOMAIN roles
  /\ \A i \in DOMAIN titles : LastFor(i) =>
       roles[titles[i].title] =
         BeforeStar(titles[i]) \cup
           (IF phase # "roles" /\ titles[i].title \in full THEN DOMAIN roles ELSE {})

\* The last element for an endpoint and a method is the route.
Filed ==
  \A i \in DOMAIN filed : LastFiled(i) /\ filed[i].method # "NOT_ALLOWED" =>
    LET id == <<Endpoint(filed[i]), filed[i].method>>
    IN  id \in DOMAIN routes /\ routes[id] = RouteFor(filed[i])

AccessTypes ==
  /\ phase \in {"roles", "routes", "serving", "exited"}
  /\ DOMAIN roles \subseteq Names
  /\ \A t \in DOMAIN roles : roles[t] \subseteq Names
  /\ full \subseteq DOMAIN roles
  /\ \A id \in DOMAIN routes :
       routes[id].protected \in BOOLEAN /\ routes[id].access_role \in Names
  /\ titles \in Seq(RoleElements) /\ filed \in Seq(RouteElements)

AccessInv == AccessTypes /\ Spoken /\ (phase # "exited" => Defined) /\ Filed

LEMMA AccessStarts == AccessInit => AccessInv
<1> SUFFICES ASSUME AccessInit PROVE AccessInv
  OBVIOUS
<1>1. AccessTypes
  <2>1. \A id \in DOMAIN routes : routes[id].protected = FALSE /\ routes[id].access_role = "viewer"
    BY DEF AccessInit, DefaultRoutes
  <2>2. /\ DOMAIN roles = {"viewer", "user", "admin"}
        /\ \A t \in DOMAIN roles : roles[t] \subseteq Names
    BY AccessConfigAssumption DEF AccessInit
  <2>3. /\ phase = "roles" /\ full = {} /\ <<>> \in Seq(RoleElements) /\ <<>> \in Seq(RouteElements)
        /\ titles = <<>> /\ filed = <<>> /\ {"viewer", "user", "admin"} \subseteq Names
    <3>1. phase = "roles" /\ full = {} /\ titles = <<>> /\ filed = <<>>
      BY DEF AccessInit
    <3>2. {"viewer", "user", "admin"} \subseteq Names
      BY AccessConfigAssumption
    <3>3. <<>> \in Seq(RoleElements) /\ <<>> \in Seq(RouteElements)
      OBVIOUS
    <3>4. QED
      BY <3>1, <3>2, <3>3
  <2>4. QED
    BY <2>1, <2>2, <2>3 DEF AccessTypes
<1>2. Spoken
  BY DEF AccessInit, Spoken, Says
<1>3. Defined /\ Filed
  BY DEF AccessInit, Defined, Filed
<1>4. QED
  BY <1>1, <1>2, <1>3 DEF AccessInv

\* What an appended sequence holds.
LEMMA AppendFacts ==
  ASSUME NEW S, NEW s \in Seq(S), NEW e \in S
  PROVE  /\ Append(s, e) \in Seq(S)
         /\ Len(Append(s, e)) = Len(s) + 1
         /\ DOMAIN Append(s, e) = DOMAIN s \cup {Len(s) + 1}
         /\ Len(s) + 1 \notin DOMAIN s
         /\ Append(s, e)[Len(s) + 1] = e
         /\ \A i \in DOMAIN s : Append(s, e)[i] = s[i] /\ i < Len(s) + 1
  OBVIOUS

\* Includes are names of roles.
LEMMA IncludesAreNames ==
  ASSUME NEW e \in RoleElements
  PROVE  BeforeStar(e) \subseteq Names
<1>1. e.includes \in Seq(Names \cup {"*"})
  BY AccessConfigAssumption
<1> SUFFICES ASSUME NEW i \in DOMAIN e.includes, \A h \in 1..i : e.includes[h] # "*"
             PROVE  e.includes[i] \in Names
  BY DEF BeforeStar
<1>2. i \in 1..i /\ e.includes[i] \in Names \cup {"*"}
  BY <1>1
<1>3. QED
  BY <1>2

\* A Role element: its title is defined afresh, no other role changes.
LEMMA LoadRoleStep ==
  ASSUME AccessInv, NEW e \in RoleElements, LoadRole(e)
  PROVE  AccessInv'
<1>1. /\ AccessTypes /\ Spoken /\ Defined /\ Filed /\ phase = "roles"
      /\ titles' = Append(titles, e) /\ UNCHANGED <<routes, filed>>
  BY DEF AccessInv, LoadRole
<1> DEFINE last == Len(titles) + 1
<1>2. /\ titles' \in Seq(RoleElements)
      /\ DOMAIN titles' = DOMAIN titles \cup {last} /\ last \notin DOMAIN titles
      /\ titles'[last] = e
      /\ \A i \in DOMAIN titles : titles'[i] = titles[i] /\ i < last
  BY <1>1, AppendFacts DEF AccessTypes
<1>3. Filed'
  BY <1>1 DEF Filed, LastFiled
<1>4. CASE e.title = ""
  <2>1. phase' = "exited" /\ UNCHANGED <<roles, full>>
    BY <1>4 DEF LoadRole
  <2>2. AccessTypes'
    BY <1>1, <1>2, <2>1 DEF AccessTypes
  <2>3. \A t, n : Says(t, n) => Says(t, n)'
    BY <1>2, <2>1 DEF Says
  <2>4. QED
    BY <1>1, <1>3, <2>1, <2>2, <2>3 DEF AccessInv, Spoken
<1>5. CASE e.title # ""
  <2> DEFINE x == e.title
  <2>1. /\ roles' = Put(roles, x, BeforeStar(e)) /\ phase' = "roles"
        /\ full' = full \cup (IF HasStar(e) THEN {x} ELSE {})
    BY <1>1, <1>5 DEF LoadRole, NewRole
  <2>2. /\ DOMAIN roles' = DOMAIN roles \cup {x}
        /\ roles'[x] = BeforeStar(e)
        /\ \A t \in DOMAIN roles \ {x} : roles'[t] = roles[t]
    <3> HIDE DEF x
    <3>1. QED
      BY <2>1 DEF Put
  <2>3. x \in Names /\ BeforeStar(e) \subseteq Names
    BY <1>5, AccessConfigAssumption, IncludesAreNames
  <2> HIDE DEF last
  <2>4. AccessTypes'
    BY <1>1, <1>2, <2>1, <2>2, <2>3 DEF AccessTypes
  <2>5. \A t, n : Says(t, n) => Says(t, n)'
    BY <1>2, <2>1, <2>2 DEF Says
  <2>6. Spoken'
    <3>1. ASSUME NEW n \in BeforeStar(e) PROVE Says(x, n)'
      BY <1>2, <3>1 DEF Says
    <3>2. QED
      BY <1>1, <2>2, <2>5, <3>1 DEF Spoken
  <2>7. Defined'
    <3>1. full' = {titles'[i].title : i \in {j \in DOMAIN titles' : HasStar(titles'[j])}}
      BY <1>1, <1>2, <2>1 DEF Defined
    <3>2. \A i \in DOMAIN titles' : titles'[i].title \in DOMAIN roles'
      BY <1>1, <1>2, <2>2 DEF Defined
    <3>3. ASSUME NEW i \in DOMAIN titles', LastFor(i)'
          PROVE  roles'[titles'[i].title] = BeforeStar(titles'[i])
      <4>1. CASE i = last
        BY <1>2, <2>2, <4>1
      <4>2. CASE i # last
        <5>1. i \in DOMAIN titles /\ titles'[i] = titles[i] /\ titles[i].title # x /\ LastFor(i)
          BY <1>2, <3>3, <4>2 DEF LastFor
        <5>2. roles[titles[i].title] = BeforeStar(titles[i]) /\ titles[i].title \in DOMAIN roles
          BY <1>1, <5>1 DEF Defined
        <5>3. QED
          BY <2>2, <5>1, <5>2
      <4>3. QED
        BY <4>1, <4>2
    <3>4. QED
      BY <2>1, <3>1, <3>2, <3>3 DEF Defined
  <2>8. QED
    BY <1>3, <2>4, <2>6, <2>7 DEF AccessInv
<1>6. QED
  BY <1>4, <1>5

\* The stars: a role in full_include_roles gains every role there is.
LEMMA ExpandStarsStep ==
  ASSUME AccessInv, ExpandStars
  PROVE  AccessInv'
<1>1. /\ AccessTypes /\ Spoken /\ Defined /\ Filed /\ phase = "roles" /\ phase' = "routes"
      /\ roles' = [t \in DOMAIN roles |-> IF t \in full THEN roles[t] \cup DOMAIN roles ELSE roles[t]]
      /\ UNCHANGED <<full, routes, titles, filed>>
  BY DEF AccessInv, ExpandStars
<1>2. /\ DOMAIN roles' = DOMAIN roles
      /\ \A t \in DOMAIN roles :
           roles'[t] = roles[t] \cup (IF t \in full THEN DOMAIN roles ELSE {})
  BY <1>1
<1>3. AccessTypes'
  BY <1>1, <1>2 DEF AccessTypes
<1>4. Spoken'
  BY <1>1, <1>2 DEF Spoken, Says
<1>5. Defined'
  <2>1. \A i \in DOMAIN titles : titles[i].title \in DOMAIN roles
    BY <1>1 DEF Defined
  <2>2. \A i \in DOMAIN titles : LastFor(i) =>
          roles[titles[i].title] = BeforeStar(titles[i])
    BY <1>1 DEF Defined
  <2>3. QED
    BY <1>1, <1>2, <2>1, <2>2 DEF Defined, LastFor
<1>6. Filed'
  BY <1>1 DEF Filed, LastFiled
<1>7. QED
  BY <1>3, <1>4, <1>5, <1>6 DEF AccessInv

\* A Route element replaces the route of its endpoint and method, no other.
LEMMA LoadRouteStep ==
  ASSUME AccessInv, NEW e \in RouteElements, LoadRoute(e)
  PROVE  AccessInv'
<1>1. /\ AccessTypes /\ Spoken /\ (phase # "exited" => Defined) /\ Filed
      /\ filed' = Append(filed, e) /\ UNCHANGED <<phase, roles, full, titles>>
      /\ routes' = IF e.method = "NOT_ALLOWED" THEN routes ELSE File(e)
  BY DEF AccessInv, LoadRoute
<1> DEFINE last == Len(filed) + 1
           x == <<Endpoint(e), e.method>>
<1>2. /\ filed' \in Seq(RouteElements)
      /\ DOMAIN filed' = DOMAIN filed \cup {last} /\ last \notin DOMAIN filed
      /\ filed'[last] = e
      /\ \A i \in DOMAIN filed : filed'[i] = filed[i] /\ i < last
  BY <1>1, AppendFacts DEF AccessTypes
<1>3. RouteFor(e).protected \in BOOLEAN /\ RouteFor(e).access_role \in Names
  BY AccessConfigAssumption DEF RouteFor, AccessRole
<1>4. e.method # "NOT_ALLOWED" =>
        /\ DOMAIN routes' = DOMAIN routes \cup {x}
        /\ routes'[x] = RouteFor(e)
        /\ \A id \in DOMAIN routes \ {x} : routes'[id] = routes[id]
  <2> HIDE DEF x
  <2>1. QED
    BY <1>1 DEF File, Put, x
<1>5. AccessTypes'
  <2>1. \A id \in DOMAIN routes' : routes'[id].protected \in BOOLEAN /\ routes'[id].access_role \in Names
    <3> HIDE DEF x
    <3>1. QED
      BY <1>1, <1>3, <1>4 DEF AccessTypes
  <2>2. QED
    BY <1>1, <1>2, <2>1 DEF AccessTypes
<1>6. Spoken' /\ (phase' # "exited" => Defined')
  BY <1>1 DEF Spoken, Says, Defined, LastFor
<1>7. Filed'
  <2> SUFFICES ASSUME NEW i \in DOMAIN filed', LastFiled(i)', filed'[i].method # "NOT_ALLOWED"
               PROVE  /\ <<Endpoint(filed'[i]), filed'[i].method>> \in DOMAIN routes'
                      /\ routes'[<<Endpoint(filed'[i]), filed'[i].method>>] = RouteFor(filed'[i])
    BY DEF Filed, Endpoint, RouteFor, AccessRole
  <2>1. CASE i = last
    BY <1>2, <1>4, <2>1
  <2>2. CASE i # last
    <3>1. i \in DOMAIN filed /\ filed'[i] = filed[i] /\ i < last /\ LastFiled(i)
      BY <1>2, <2>2 DEF LastFiled, SameRoute, Endpoint
    <3> DEFINE y == <<Endpoint(filed[i]), filed[i].method>>
    <3>2. y # x
      BY <1>2, <3>1 DEF LastFiled, SameRoute
    <3>3. y \in DOMAIN routes /\ routes[y] = RouteFor(filed[i])
      BY <1>1, <3>1 DEF Filed
    <3> HIDE DEF x, y
    <3>4. y \in DOMAIN routes' /\ routes'[y] = routes[y]
      BY <1>1, <1>4, <3>2, <3>3
    <3>5. QED
      BY <3>1, <3>3, <3>4 DEF y
  <2>3. QED
    BY <2>1, <2>2
<1>8. QED
  BY <1>5, <1>6, <1>7 DEF AccessInv

\* Whatever changes roles and routes keeps them as written.
AccessStep ==
  \/ \E e \in RoleElements : LoadRole(e)
  \/ ExpandStars
  \/ \E e \in RouteElements : LoadRoute(e)
  \/ Serve
  \/ UNCHANGED accessVars

LEMMA AccessKept == AccessInv /\ AccessStep => AccessInv'
<1>1. ASSUME AccessInv, Serve \/ UNCHANGED accessVars PROVE AccessInv'
  <2>1. UNCHANGED <<roles, full, routes, titles, filed>>
    BY <1>1 DEF Serve, accessVars
  <2>2. phase' = phase \/ (phase = "routes" /\ phase' = "serving")
    BY <1>1 DEF Serve, accessVars
  <2>3. AccessTypes' /\ Spoken' /\ Filed'
    BY <1>1, <2>1, <2>2 DEF AccessInv, AccessTypes, Spoken, Says, Filed, LastFiled
  <2>4. phase' # "exited" => Defined'
    BY <1>1, <2>1, <2>2 DEF AccessInv, Defined, LastFor
  <2>5. QED
    BY <2>3, <2>4 DEF AccessInv
<1>2. QED
  BY <1>1, LoadRoleStep, ExpandStarsStep, LoadRouteStep DEF AccessStep

\* What the account of the elements means for a token.
LEMMA GrantsFollow ==
  ASSUME AccessInv, NEW r \in Names, NEW n \in Names, Grants(r, n)
  PROVE  Follows(r, n)
<1>1. n = r \/ Says(r, n)
  BY DEF AccessInv, Spoken, Grants
<1>2. QED
  BY <1>1 DEF Follows

LEMMA AccessAsWritten == AccessInv => GrantsAsWritten /\ RoutesGuardedAsWritten
<1> SUFFICES ASSUME AccessInv PROVE GrantsAsWritten /\ RoutesGuardedAsWritten
  OBVIOUS
<1>1. GrantsWithinHierarchy
  BY GrantsFollow DEF GrantsWithinHierarchy
<1>2. LastElementCounts
  <2> SUFFICES ASSUME phase = "serving", NEW i \in DOMAIN titles, LastFor(i), NEW n \in Names
               PROVE  Grants(titles[i].title, n) <=>
                        \/ n \in WrittenIn(titles[i])
                        \/ Starred(i) /\ n \in DOMAIN roles
    BY DEF LastElementCounts
  <2> DEFINE t == titles[i].title
  <2>1. /\ t \in DOMAIN roles
        /\ roles[t] = BeforeStar(titles[i]) \cup (IF t \in full THEN DOMAIN roles ELSE {})
        /\ t \in full <=> Starred(i)
    BY DEF AccessInv, Defined, Starred
  <2>2. HasStar(titles[i]) => Starred(i)
    BY DEF Starred
  <2>3. QED
    BY <2>1, <2>2 DEF Grants, WrittenIn
<1>3. RoutesGuardedAsWritten
  <2> SUFFICES ASSUME phase = "serving",
                      NEW i \in DOMAIN filed, LastFiled(i), filed[i].method # "NOT_ALLOWED"
               PROVE  LET e == filed[i]
                          route == routes[<<Endpoint(e), e.method>>]
                          asked == IF e.access_role = "" THEN "admin" ELSE e.access_role
                      IN  /\ route.protected = (e.protected = "true")
                          /\ e.protected = "true" =>
                               \A r \in Names : Grants(r, route.access_role) => Follows(r, asked)
    BY DEF RoutesGuardedAsWritten
  <2> DEFINE e == filed[i]
             route == routes[<<Endpoint(e), e.method>>]
             asked == IF e.access_role = "" THEN "admin" ELSE e.access_role
  <2>1. e \in RouteElements /\ route = RouteFor(e)
    BY DEF AccessInv, AccessTypes, Filed
  <2> HIDE DEF e, route
  <2>2. asked \in Names
    BY <2>1, AccessConfigAssumption
  <2>3. e.protected = "true" => route.access_role = asked
    BY <2>1 DEF RouteFor, AccessRole
  <2>4. route.protected = (e.protected = "true")
    BY <2>1 DEF RouteFor
  <2> HIDE DEF asked
  <2>5. QED
    BY <2>2, <2>3, <2>4, GrantsFollow DEF e, route, asked
<1>4. QED
  BY <1>1, <1>2, <1>3 DEF GrantsAsWritten

\* Whatever Role and Route elements a file has, in whatever order: a role that has
\* an element is granted what the last one of its title says and, if any of them
\* has a "*", every defined role (the "*" of a replaced element outlives it); no
\* role is granted what does not follow from the file; and a route is guarded as
\* the last element of its endpoint and method says (config.cpp:316-452).
THEOREM AccessCorrect == AccessSpec => [](GrantsAsWritten /\ RoutesGuardedAsWritten)
<1>1. AccessInv /\ [AccessNext]_accessVars => AccessInv'
  BY AccessKept DEF AccessStep, AccessNext, AccessFinished
<1>2. QED
  BY <1>1, AccessStarts, AccessAsWritten, PTL DEF AccessSpec

-----------------------------------------------------------------------------
\* The global limiter.

\* The limiter is what the file makes of it, and a key is what the limiter makes
\* of the request where loadPipeline has put it.
RateInv ==
  /\ config \in Configs
  /\ place = "unset" => limiter = Unset /\ key = "none"
  /\ place # "unset" => limiter = GlobalLimiter(config) /\ place = Place(limiter)
  /\ key # "none" =>
       /\ place \in {"before", "after"}
       /\ key = MakeKey(limiter.make_key, IF place = "before" THEN NotParsed ELSE request)

RateStep == LoadPipeline \/ Limit \/ UNCHANGED rateVars

LEMMA RateKept == RateInv /\ RateStep => RateInv'
<1>1. ASSUME RateInv, LoadPipeline PROVE RateInv'
  BY <1>1 DEF RateInv, LoadPipeline, Place
<1>2. ASSUME RateInv, Limit PROVE RateInv'
  BY <1>2 DEF RateInv, Limit
<1>3. ASSUME RateInv, UNCHANGED rateVars PROVE RateInv'
  BY <1>3 DEF RateInv, rateVars
<1>4. QED
  BY <1>1, <1>2, <1>3 DEF RateStep

\* The limiter that honours its element is made of it.
LEMMA HonouredLimiter ==
  ASSUME RateInv, Honoured
  PROVE  /\ limiter = IF Elem.algorithm = "bucket" THEN TokenBucketOf(Elem) ELSE FixedWindowOf(Elem)
         /\ limiter.make_key = KeyFunc(Elem.key)
         /\ place = IF Source(Elem.key) = "ip" THEN "before" ELSE "after"
<1>1. /\ config \in Configs /\ limiter = GlobalLimiter(config) /\ place = Place(limiter)
      /\ limiter # Nothing /\ config.has_rate /\ config.rate.algorithm # "other"
  BY DEF RateInv, Honoured, Loaded
<1>2. config.rate.algorithm \in {"absent", "fixed", "bucket", "other"}
  BY <1>1, RateConfigAssumption
<1>3. limiter = Limiter(config.rate)
  BY <1>1 DEF GlobalLimiter
<1>4. limiter = IF Elem.algorithm = "bucket" THEN TokenBucketOf(Elem) ELSE FixedWindowOf(Elem)
  BY <1>1, <1>2, <1>3 DEF Limiter, Elem
<1>5. limiter.make_key = KeyFunc(Elem.key)
  BY <1>4 DEF TokenBucketOf, FixedWindowOf
<1>6. place = IF Source(Elem.key) = "ip" THEN "before" ELSE "after"
  BY <1>1, <1>5 DEF Place, UsesIp, KeyFunc
<1>7. QED
  BY <1>4, <1>5, <1>6

LEMMA KeyKept == RateInv => KeyAsConfigured
<1> SUFFICES ASSUME RateInv, Honoured, Keyed PROVE KeyAsConfigured
  BY DEF KeyAsConfigured
<1> DEFINE part == Source(Elem.key)
<1>1. /\ limiter.make_key = KeyFunc(Elem.key)
      /\ place = IF part = "ip" THEN "before" ELSE "after"
      /\ key = MakeKey(limiter.make_key, IF place = "before" THEN NotParsed ELSE request)
  BY HonouredLimiter DEF RateInv, Keyed
<1>2. KeyFunc(Elem.key).reads = part /\ KeyFunc(Elem.key).ip_fallback = (Elem.key.fallback \in {"absent", "ip"})
  BY DEF KeyFunc
<1> HIDE DEF part
<1>3. key = IF part = "ip" THEN "ip" ELSE MakeKey(KeyFunc(Elem.key), request)
  BY <1>1, <1>2 DEF MakeKey
<1>4. QED
  BY <1>2, <1>3 DEF MakeKey, ParseXff, KeyAsConfigured, part

\* Units are seconds, minutes, hours and days.
LEMMA MultiplierType == ASSUME NEW unit PROVE Multiplier(unit) \in {1, 60, 3600, 86400}
  BY DEF Multiplier

LEMMA RoundedDown ==
  ASSUME NEW n \in Nat, NEW u \in {1, 60, 3600, 86400}
  PROVE  (n \div u) * u <= n /\ n - (n \div u) * u < u
<1>1. CASE u = 1
  BY <1>1
<1>2. CASE u = 60
  BY <1>2
<1>3. CASE u = 3600
  BY <1>3
<1>4. CASE u = 86400
  BY <1>4
<1>5. QED
  BY <1>1, <1>2, <1>3, <1>4

\* What fits an int stays as it is, and what does not becomes less.
LEMMA IntOfNatural ==
  ASSUME NEW n \in Nat
  PROVE  /\ AsInt(n) \in Int /\ AsInt(n) <= n
         /\ n < INT_RANGE \div 2 => AsInt(n) = n
<1> DEFINE half == INT_RANGE \div 2
<1>1. INT_RANGE \in Nat \ {0}
  BY RateConfigAssumption
<1>2. half \in Nat /\ 2 * half <= INT_RANGE
  BY <1>1
<1> HIDE DEF half
<1>3. ASSUME NEW m \in Nat
      PROVE  /\ m % INT_RANGE \in Nat /\ m % INT_RANGE <= m
             /\ m < INT_RANGE => m % INT_RANGE = m
  BY <1>1
<1>4. n + half \in Nat /\ (n < half => n + half < INT_RANGE)
  BY <1>1, <1>2
<1>5. AsInt(n) = ((n + half) % INT_RANGE) - half
  BY DEF AsInt, half
<1>6. /\ (n + half) % INT_RANGE \in Nat /\ (n + half) % INT_RANGE <= n + half
      /\ n < half => (n + half) % INT_RANGE = n + half
  BY <1>3, <1>4
<1>7. AsInt(n) \in Int /\ AsInt(n) <= n /\ (n < half => AsInt(n) = n)
  BY <1>2, <1>5, <1>6
<1>8. QED
  BY <1>7 DEF half

LEMMA RateKeptAsWritten == RateInv => LimiterAsConfigured
<1> SUFFICES ASSUME RateInv PROVE RateRoundedDown /\ WindowAsFarAsItFits
  BY KeyKept DEF LimiterAsConfigured
<1>1. RateRoundedDown
  <2> SUFFICES ASSUME Honoured, limiter.algorithm = "bucket", WellFormed(Elem.refill_rate)
               PROVE  LET unit == Multiplier(Elem.refill_rate.unit)
                          granted == limiter.refill_rate * unit
                      IN  granted <= Elem.refill_rate.n /\ Elem.refill_rate.n - granted < unit
    BY DEF RateRoundedDown
  <2> DEFINE u == Multiplier(Elem.refill_rate.unit)
             n == Elem.refill_rate.n
  <2>1. limiter = TokenBucketOf(Elem)
    BY HonouredLimiter DEF FixedWindowOf
  <2>2. limiter.refill_rate = n \div u
    BY <2>1 DEF TokenBucketOf, RefillRate, WellFormed
  <2>3. n \in Nat /\ u \in {1, 60, 3600, 86400}
    BY RateConfigAssumption, MultiplierType DEF RateInv, Elem
  <2> HIDE DEF n, u
  <2>4. QED
    BY <2>2, <2>3, RoundedDown DEF n, u
<1>2. WindowAsFarAsItFits
  <2> SUFFICES ASSUME Loaded, limiter.algorithm = "fixed"
               PROVE  WindowAsFarAsItFits
    BY DEF WindowAsFarAsItFits
  <2> DEFINE asked == Honoured /\ Elem.window.form = "number"
             fits  == SecondsAsked(Elem.window) < INT_RANGE \div 2
             u     == Multiplier(ToLower(Elem.window.unit))
  <2>1. config \in Configs /\ limiter = GlobalLimiter(config)
    BY DEF RateInv, Loaded
  <2>2. INT_RANGE \in Nat
    BY RateConfigAssumption
  <2>3. Elem.window.n \in 0..(INT_RANGE \div 2 - 1)
    BY <2>1, RateConfigAssumption DEF Elem
  <2>4. Elem.window.n \in Nat
    BY <2>2, <2>3
  <2>5. u \in {1, 60, 3600, 86400}
    BY MultiplierType
  <2>6. SecondsAsked(Elem.window) = u * Elem.window.n
    BY DEF SecondsAsked
  <2>7. /\ SecondsAsked(Elem.window) \in Nat
        /\ SecondsAsked(Elem.window) = 0 => Elem.window.n = 0
    BY <2>4, <2>5, <2>6
  <2>8. CASE asked
    <3>1. limiter.window = AsInt(SecondsAsked(Elem.window))
      BY <2>8, HonouredLimiter DEF FixedWindowOf, TokenBucketOf, WindowSeconds
    <3>2. /\ AsInt(SecondsAsked(Elem.window)) \in Int
          /\ AsInt(SecondsAsked(Elem.window)) <= SecondsAsked(Elem.window)
          /\ fits => AsInt(SecondsAsked(Elem.window)) = SecondsAsked(Elem.window)
      BY <2>7, IntOfNatural
    <3>3. limiter.window <= 0 /\ fits => Elem.window.n = 0
      BY <2>7, <3>1, <3>2
    <3>4. QED
      BY <2>8, <3>1, <3>2, <3>3 DEF WindowAsFarAsItFits
  <2>9. CASE ~asked
    <3>1. ASSUME Honoured PROVE limiter.window = DEFAULT_WINDOW_SECONDS
      BY <2>9, <3>1, HonouredLimiter DEF FixedWindowOf, TokenBucketOf, WindowSeconds
    <3>2. ASSUME ~Honoured PROVE limiter.window = DEFAULT_WINDOW_SECONDS
      <4>1. limiter # Nothing
        BY DEF Nothing
      <4>2. ~config.has_rate \/ config.rate.algorithm = "other"
        BY <3>2, <4>1 DEF Honoured
      <4>3. limiter = DefaultFixedWindow
        BY <2>1, <4>1, <4>2 DEF GlobalLimiter, Limiter
      <4>4. QED
        BY <4>3 DEF DefaultFixedWindow
    <3>3. limiter.window = 60
      BY <3>1, <3>2 DEF DEFAULT_WINDOW_SECONDS
    <3>4. QED
      BY <2>9, <3>3 DEF WindowAsFarAsItFits
  <2>10. QED
    BY <2>8, <2>9
<1>3. QED
  BY <1>1, <1>2

\* For every attribute a RateLimiting element may have and every width of int: the
\* limiter gets the key the element names, at most the rate it asks for, and a
\* window of the seconds asked for as far as these fit an int; where they do not,
\* the product wraps, also to none (config.cpp:73-92).
THEOREM RateCorrect == RateSpec => []LimiterAsConfigured
<1>1. config \in Configs /\ RateInit => RateInv
  BY DEF RateInit, RateInv
<1>2. RateInv /\ [RateNext]_rateVars => RateInv'
  BY RateKept DEF RateStep, RateNext
<1>3. QED
  BY <1>1, <1>2, RateKeptAsWritten, PTL DEF RateSpec
-----------------------------------------------------------------------------
\* The whole of the file.

\* The sections in their order, and those before which a section comes.
Ended == {"exited", "terminated", "returned"}
UntilOpen    == {"open"} \cup Ended
UntilSecret  == {"secret"} \cup UntilOpen
UntilPort    == {"port"} \cup UntilSecret
UntilThreads == {"threads"} \cup UntilPort
UntilPages   == {"pages"} \cup UntilThreads
UntilRoles   == {"roles"} \cup UntilPages
UntilSSL     == {"ssl"} \cup UntilRoles
UntilRoutes  == {"routes"} \cup UntilSSL
UntilAddress == {"address"} \cup UntilRoutes
UntilLaunch  == {"pipeline", "launch"} \cup UntilAddress

Places == UntilLaunch \cup {"serving"}

\* What has been read of a section once it lies behind.
Behind ==
  /\ at \notin UntilOpen => doc.opens /\ doc.host # "empty" /\ doc.logs
  /\ at \notin UntilSecret => secret = SecretOf(doc.jwt) /\ secret \notin {"exit", "throw"}
  /\ at \notin UntilPort => doc.port # Bad
  /\ at \notin UntilThreads => threads = ThreadsOf(doc.threads)
  /\ at \notin UntilRoles => Len(titles) = Len(doc.roles)
  /\ at \notin UntilSSL => ssl = (doc.ssl # "absent") /\ doc.ssl \notin {"incomplete", "blank"}
  /\ at \notin UntilAddress => doc.resolves
  /\ at \notin UntilLaunch => /\ doc.binds /\ doc.ssl # "unusable"
                              /\ threads >= 2 /\ io = threads - 1
                              /\ listens = AcceptorPort(port)

\* The port as the sections so far leave it.
PortSoFar ==
  at \notin UntilPort =>
    LET named == IF doc.port = Absent THEN 80 ELSE doc.port
    IN  port = IF at \notin UntilSSL /\ ssl THEN HttpsPort(named) ELSE named

\* The pages that a loop over them can leave: it ends behind the first one, and
\* only without a stray one.
PagesSoFar ==
  /\ cursor \in {"first", "stray", "none"}
  /\ at \in UntilThreads \ Ended => cursor = "first"
  /\ cursor = "first" => pages = <<>>
  /\ cursor = "stray" => at = "pages" /\ doc.stray
  /\ doc.pages = <<>> => cursor = "first"
  /\ cursor = "none" => PagesAsRead
  /\ at \notin UntilPages /\ cursor = "first" => doc.pages = <<>>

\* The elements read are those of the file, in its order.
ElementsSoFar ==
  /\ Len(titles) <= Len(doc.roles) /\ Len(filed) <= Len(doc.routes)
  /\ \A i \in 1..Len(titles) : titles[i] = doc.roles[i]
  /\ at \notin Ended => \A i \in 1..Len(titles) : titles[i].title # ""

StartInv ==
  /\ doc \in Documents /\ config = doc.rate
  /\ at \in Places
  /\ port \in Nat \cup {Absent, Bad} /\ ssl \in BOOLEAN
  /\ Behind /\ PortSoFar /\ PagesSoFar /\ ElementsSoFar
  /\ at \in Ended => ~Sound(doc)

LoadInv == AccessInv /\ RateInv /\ StartInv

\* What StartupAssumption says of a document.
LEMMA DocumentType ==
  ASSUME StartInv
  PROVE  /\ doc.roles \in Seq(RoleElements) /\ doc.routes \in Seq(RouteElements)
         /\ Len(doc.roles) <= MaxRoles /\ Len(doc.routes) <= MaxRoutes
         /\ doc.rate \in Configs
         /\ doc.port \in Nat \cup {Absent, Bad} /\ doc.threads \in Nat \cup {Absent, Bad}
         /\ doc.jwt.file \in {"absent", "unreadable", "good"}
         /\ doc.jwt.text \in {"absent", "empty", "given"}
         /\ doc.jwt.generate \in {"absent", "off", "on", "bad"}
         /\ doc.ssl \in {"absent", "incomplete", "blank", "unusable", "usable"}
         /\ Hardware \in Nat
  BY StartupAssumption DEF StartInv

\* The secret fails a file for exactly the reasons that Sound names.
LEMMA SecretSound ==
  ASSUME StartInv
  PROVE  SecretOf(doc.jwt) \notin {"exit", "throw"} <=>
           /\ doc.jwt.file # "unreadable"
           /\ doc.jwt.file = "absent" => doc.jwt.text # "empty"
           /\ doc.jwt.file = "absent" /\ doc.jwt.text = "absent" => doc.jwt.generate # "bad"
  BY DocumentType DEF SecretOf

\* The threads are too few for exactly the reasons that Sound names.
LEMMA ThreadsSound ==
  ASSUME StartInv
  PROVE  /\ ThreadsOf(doc.threads) \in Nat
         /\ ThreadsOf(doc.threads) >= 2 <=>
              doc.threads # 1 /\ (doc.threads = Absent => Hardware # 1)
         /\ doc.threads > 0 => ThreadsOf(doc.threads) = doc.threads
  BY DocumentType DEF ThreadsOf, Absent, Bad, Fallback

LEMMA StartStarts == StartupInit => LoadInv
<1> SUFFICES ASSUME StartupInit PROVE LoadInv
  OBVIOUS
<1>1. AccessInv
  BY AccessStarts DEF StartupInit
<1>2. RateInv
  BY StartupAssumption DEF StartupInit, RateInit, RateInv
<1>3. Behind /\ PortSoFar
  BY DEF StartupInit, Behind, PortSoFar, UntilLaunch, UntilAddress, UntilRoutes, UntilSSL, UntilRoles,
         UntilPages, UntilThreads, UntilPort, UntilSecret, UntilOpen
<1>4. PagesSoFar
  <2>1. cursor = "first" /\ pages = <<>>
    BY DEF StartupInit
  <2>2. at \in UntilPages
    BY DEF StartupInit, UntilPages, UntilThreads, UntilPort, UntilSecret, UntilOpen
  <2>3. QED
    BY <2>1, <2>2 DEF PagesSoFar
<1>5. ElementsSoFar
  <2>1. titles = <<>> /\ filed = <<>>
    BY DEF StartupInit, AccessInit
  <2>2. doc.roles \in Seq(RoleElements) /\ doc.routes \in Seq(RouteElements)
    BY StartupAssumption DEF StartupInit
  <2>3. Len(doc.roles) \in Nat /\ Len(doc.routes) \in Nat /\ Len(titles) = 0 /\ Len(filed) = 0
    BY <2>1, <2>2
  <2>4. QED
    BY <2>3 DEF ElementsSoFar
<1>6. QED
  BY <1>1, <1>2, <1>3, <1>4, <1>5 DEF StartupInit, LoadInv, StartInv, Places, Ended,
         UntilLaunch, UntilAddress, UntilRoutes, UntilSSL, UntilRoles, UntilPages, UntilThreads,
         UntilPort, UntilSecret, UntilOpen

\* The steps that only read a section: all but those on roles, routes and the
\* limiter.
LEMMA SectionStep ==
  ASSUME StartInv, Sections,
         \/ Open \/ LoadJWTSecret \/ LoadPort \/ LoadThreads \/ ErrorPagesLoaded
         \/ LoadSSL \/ LoadHostIP \/ Launch
  PROVE  StartInv'
<1> USE DEF UntilLaunch, UntilAddress, UntilRoutes, UntilSSL, UntilRoles, UntilPages, UntilThreads,
            UntilPort, UntilSecret, UntilOpen, Ended, Places
<1>a. /\ UNCHANGED <<doc, titles, filed, config>> /\ doc \in Documents /\ config = doc.rate
      /\ Behind /\ PortSoFar /\ PagesSoFar /\ ElementsSoFar
      /\ port \in Nat \cup {Absent, Bad} /\ ssl \in BOOLEAN
  BY DEF Sections, accessVars, rateVars, StartInv
<1>b. ASSUME at \notin Ended, at' \in Places, Behind', PortSoFar', PagesSoFar',
             at' \in Ended => ~Sound(doc), port' \in Nat \cup {Absent, Bad}, ssl' \in BOOLEAN
      PROVE  StartInv'
  <2>1. ElementsSoFar'
    BY <1>a, <1>b DEF ElementsSoFar
  <2>2. at' \in Ended => ~Sound(doc)'
    BY <1>a, <1>b DEF Sound
  <2>3. (doc \in Documents)' /\ (config = doc.rate)'
    BY <1>a
  <2>4. QED
    BY <1>b, <2>1, <2>2, <2>3 DEF StartInv
<1>1. CASE Open
  <2>1. /\ at = "open" /\ UNCHANGED settings
        /\ at' = IF ~doc.opens THEN "exited"
                 ELSE IF doc.host = "empty" \/ ~doc.logs THEN "terminated" ELSE "secret"
    BY <1>1 DEF Open
  <2>2. Behind' /\ PortSoFar'
    BY <1>a, <2>1 DEF Behind, PortSoFar, settings
  <2>3. PagesSoFar'
    BY <1>a, <2>1 DEF PagesSoFar, PagesAsRead, FirstPage, settings
  <2>4. at' \in Ended => ~Sound(doc)
    BY <2>1 DEF Sound
  <2>5. port' = port /\ ssl' = ssl
    BY <2>1 DEF settings
  <2>6. QED
    BY <1>a, <1>b, <2>1, <2>2, <2>3, <2>4, <2>5
<1>2. CASE LoadJWTSecret
  <2>1. /\ at = "secret" /\ UNCHANGED <<port, threads, cursor, pages, ssl, io, listens>>
        /\ secret' = SecretOf(doc.jwt)
        /\ at' \in {"exited", "terminated", "port"}
        /\ at' = "port" <=> SecretOf(doc.jwt) \notin {"exit", "throw"}
    BY <1>2 DEF LoadJWTSecret
  <2>2. Behind' /\ PortSoFar'
    BY <1>a, <2>1 DEF Behind, PortSoFar
  <2>3. PagesSoFar'
    BY <1>a, <2>1 DEF PagesSoFar, PagesAsRead, FirstPage
  <2>4. at' \in Ended => ~Sound(doc)
    BY <2>1, SecretSound DEF Sound
  <2>5. QED
    BY <1>a, <1>b, <2>1, <2>2, <2>3, <2>4
<1>3. CASE LoadPort
  <2>1. /\ at = "port" /\ UNCHANGED <<secret, threads, cursor, pages, ssl, io, listens>>
        /\ at' = IF doc.port = Bad THEN "terminated" ELSE "threads"
        /\ port' = IF doc.port = Absent THEN 80 ELSE doc.port
    BY <1>3 DEF LoadPort
  <2>2. Behind' /\ PortSoFar'
    BY <1>a, <2>1 DEF Behind, PortSoFar
  <2>3. PagesSoFar'
    BY <1>a, <2>1 DEF PagesSoFar, PagesAsRead, FirstPage
  <2>4. port' \in Nat \cup {Absent, Bad}
    BY <2>1, DocumentType
  <2>5. at' \in Ended => ~Sound(doc)
    BY <2>1 DEF Sound
  <2>6. QED
    BY <1>a, <1>b, <2>1, <2>2, <2>3, <2>4, <2>5
<1>4. CASE LoadThreads
  <2>1. /\ at = "threads" /\ UNCHANGED <<secret, port, cursor, pages, ssl, io, listens>>
        /\ at' = "pages" /\ threads' = ThreadsOf(doc.threads)
    BY <1>4 DEF LoadThreads
  <2>2. Behind' /\ PortSoFar'
    BY <1>a, <2>1 DEF Behind, PortSoFar
  <2>3. PagesSoFar'
    BY <1>a, <2>1 DEF PagesSoFar, PagesAsRead, FirstPage
  <2>4. QED
    BY <1>a, <1>b, <2>1, <2>2, <2>3
<1>5. CASE ErrorPagesLoaded
  <2>0. cursor # "stray" /\ (cursor = "first" => doc.pages = <<>>)
    <3>1. doc.pages = <<>> => cursor = "first"
      BY <1>a, Zenon DEF PagesSoFar
    <3>2. doc.pages = <<>> \/ cursor = "none"
      BY <1>5, Zenon DEF ErrorPagesLoaded
    <3>3. QED
      BY <3>1, <3>2
  <2>1. at = "pages" /\ at' = "roles" /\ UNCHANGED settings
    BY <1>5 DEF ErrorPagesLoaded
  <2>2. Behind' /\ PortSoFar'
    BY <1>a, <2>1 DEF Behind, PortSoFar, settings
  <2>3. PagesSoFar'
    BY <1>a, <2>0, <2>1 DEF PagesSoFar, PagesAsRead, FirstPage, settings
  <2>4. at' \in Ended => ~Sound(doc)
    BY <2>1 DEF Sound
  <2>5. port' = port /\ ssl' = ssl
    BY <2>1 DEF settings
  <2>6. QED
    BY <1>a, <1>b, <2>1, <2>2, <2>3, <2>4, <2>5
<1>6. CASE LoadSSL
  <2>1. /\ at = "ssl" /\ UNCHANGED <<secret, threads, cursor, pages, io, listens>>
        /\ at' = CASE doc.ssl = "incomplete" -> "exited"
                   [] doc.ssl = "blank"      -> "terminated"
                   [] OTHER                  -> "routes"
        /\ ssl' = (doc.ssl # "absent")
        /\ port' = IF ssl' THEN HttpsPort(port) ELSE port
    BY <1>6 DEF LoadSSL
  <2>2. Behind'
    BY <1>a, <2>1 DEF Behind
  <2>3. PortSoFar'
    <3> DEFINE named == IF doc.port = Absent THEN 80 ELSE doc.port
    <3>1. port = named
      BY <1>a, <2>1 DEF PortSoFar
    <3> HIDE DEF named
    <3>2. port' = IF ssl' THEN HttpsPort(named) ELSE named
      BY <2>1, <3>1
    <3>3. named' = named
      BY <1>a DEF named
    <3>4. QED
      BY <2>1, <3>2, <3>3 DEF PortSoFar, HttpsPort, named
  <2>4. PagesSoFar'
    BY <1>a, <2>1 DEF PagesSoFar, PagesAsRead, FirstPage
  <2>5. port' \in Nat \cup {Absent, Bad} /\ ssl' \in BOOLEAN
    BY <1>a, <2>1 DEF HttpsPort
  <2>6. at' \in Ended => ~Sound(doc)
    BY <2>1 DEF Sound
  <2>7. QED
    BY <1>a, <1>b, <2>1, <2>2, <2>3, <2>4, <2>5, <2>6
<1>7. CASE LoadHostIP
  <2>1. /\ at = "address" /\ UNCHANGED settings
        /\ at' = IF doc.resolves THEN "pipeline" ELSE "terminated"
    BY <1>7 DEF LoadHostIP
  <2>2. Behind' /\ PortSoFar'
    BY <1>a, <2>1 DEF Behind, PortSoFar, settings
  <2>3. PagesSoFar'
    BY <1>a, <2>1 DEF PagesSoFar, PagesAsRead, FirstPage, settings
  <2>4. at' \in Ended => ~Sound(doc)
    BY <2>1 DEF Sound
  <2>5. port' = port /\ ssl' = ssl
    BY <2>1 DEF settings
  <2>6. QED
    BY <1>a, <1>b, <2>1, <2>2, <2>3, <2>4, <2>5
<1>8. CASE Launch
  <2>1. /\ at = "launch" /\ UNCHANGED <<secret, port, threads, cursor, pages, ssl>>
        /\ listens' = AcceptorPort(port)
        /\ \/ at' = "returned" /\ io' = io /\ (~doc.binds \/ doc.ssl = "unusable" \/ threads - 2 < 0)
           \/ at' = "serving" /\ io' = threads - 2 + 1 /\ doc.binds /\ doc.ssl # "unusable"
                /\ ~(threads - 2 < 0)
    BY <1>8, Zenon DEF Launch, ExtraThreads
  <2>2. threads \in Nat /\ (threads < 2 => ~Sound(doc))
    <3>1. threads = ThreadsOf(doc.threads)
      BY <1>a, <2>1 DEF Behind
    <3>2. threads \in Nat
      BY <3>1, ThreadsSound
    <3>3. threads >= 2 <=> doc.threads # 1 /\ (doc.threads = Absent => Hardware # 1)
      BY <3>1, ThreadsSound
    <3>4. Sound(doc) => doc.threads # 1 /\ (doc.threads = Absent => Hardware # 1)
      BY Zenon DEF Sound
    <3>5. QED
      BY <3>2, <3>3, <3>4
  <2>3. Behind' /\ PortSoFar'
    BY <1>a, <2>1, <2>2 DEF Behind, PortSoFar, AcceptorPort
  <2>4. PagesSoFar'
    BY <1>a, <2>1 DEF PagesSoFar, PagesAsRead, FirstPage
  <2>5. at' \in Ended => ~Sound(doc)
    <3>1. Sound(doc) => doc.binds /\ doc.ssl \in {"absent", "usable"}
      BY DEF Sound
    <3>2. QED
      BY <2>1, <2>2, <3>1
  <2>6. QED
    BY <1>a, <1>b, <2>1, <2>3, <2>4, <2>5
<1>9. QED
  BY <1>1, <1>2, <1>3, <1>4, <1>5, <1>6, <1>7, <1>8

\* A turn of the loop over the error pages: the first one is the file's.
LEMMA LoadErrorPageStep ==
  ASSUME StartInv, LoadErrorPage
  PROVE  StartInv'
<1> USE DEF UntilLaunch, UntilAddress, UntilRoutes, UntilSSL, UntilRoles, UntilPages, UntilThreads,
            UntilPort, UntilSecret, UntilOpen, Ended, Places
<1>1. /\ at = "pages" /\ at' = at /\ doc.pages # <<>> /\ cursor' = NextPage /\ cursor # "none"
      /\ UNCHANGED <<secret, port, threads, ssl, io, listens, doc, titles, filed, config>>
      /\ doc \in Documents /\ config = doc.rate
      /\ Behind /\ PortSoFar /\ PagesSoFar /\ ElementsSoFar
      /\ port \in Nat \cup {Absent, Bad} /\ ssl \in BOOLEAN
  BY DEF LoadErrorPage, Sections, accessVars, rateVars, StartInv
<1>2. Behind' /\ PortSoFar'
  BY <1>1 DEF Behind, PortSoFar
<1>3. ElementsSoFar'
  BY <1>1 DEF ElementsSoFar
<1>4. PagesSoFar'
  <2>1. CASE cursor = "first"
    <3>1. pages = <<>> /\ cursor' \in {"stray", "none"}
      BY <1>1, <2>1 DEF PagesSoFar, NextPage
    <3>2. pages' = IF doc.pages[1].code = Bad \/ doc.pages[1].file = "" THEN pages
                   ELSE Put(pages, doc.pages[1].code, doc.pages[1].file)
      BY <2>1 DEF LoadErrorPage
    <3>3. 1 \in DOMAIN doc.pages
      <4>1. doc.pages \in Seq([code : Nat \cup {Bad}, file : STRING])
        BY <1>1, StartupAssumption
      <4>2. QED
        BY <1>1, <4>1
    <3>4. PagesAsRead'
      <4> DEFINE page == doc.pages[1]
      <4>1. DOMAIN pages = {} /\ UNCHANGED doc
        BY <1>1, <3>1
      <4>2. FirstPage = {p \in {page} : p.code # Bad /\ p.file # ""} /\ FirstPage' = FirstPage
        BY <1>1 DEF FirstPage
      <4> HIDE DEF page
      <4>3. CASE page.code = Bad \/ page.file = ""
        <5>1. FirstPage = {} /\ pages' = pages
          BY <3>2, <4>2, <4>3 DEF page
        <5>2. QED
          BY <4>1, <4>2, <5>1 DEF PagesAsRead
      <4>4. CASE ~(page.code = Bad \/ page.file = "")
        <5>1. FirstPage = {page} /\ pages' = Put(pages, page.code, page.file)
          BY <3>2, <4>2, <4>4 DEF page
        <5>2. DOMAIN pages' = {page.code} /\ pages'[page.code] = page.file
          BY <4>1, <5>1 DEF Put
        <5>3. QED
          BY <4>2, <5>1, <5>2 DEF PagesAsRead
      <4>5. QED
        BY <4>3, <4>4
    <3>5. cursor' = "stray" => doc.stray
      BY <1>1 DEF NextPage
    <3>6. QED
      BY <1>1, <2>1, <3>1, <3>4, <3>5 DEF PagesSoFar
  <2>2. CASE cursor = "stray"
    BY <1>1, <2>2 DEF PagesSoFar, NextPage
  <2>3. QED
    BY <1>1, <2>1, <2>2 DEF PagesSoFar
<1>5. QED
  BY <1>1, <1>2, <1>3, <1>4 DEF StartInv

\* The history of roles grows by the element that is read.
LEMMA RoleRead ==
  ASSUME titles \in Seq(RoleElements), NEW e \in RoleElements, LoadRole(e)
  PROVE  /\ Len(titles') = Len(titles) + 1
         /\ titles'[Len(titles) + 1] = e
         /\ \A i \in 1..Len(titles) : titles'[i] = titles[i]
<1>1. titles' = Append(titles, e)
  BY DEF LoadRole
<1>2. QED
  BY <1>1

\* The steps on roles and routes: the next element is the file's next one.
LEMMA ElementStep ==
  ASSUME AccessInv, StartInv, LoadNextRole \/ RolesLoaded \/ LoadNextRoute \/ RoutesLoaded
  PROVE  AccessStep /\ StartInv'
<1> USE DEF UntilLaunch, UntilAddress, UntilRoutes, UntilSSL, UntilRoles, UntilPages, UntilThreads,
            UntilPort, UntilSecret, UntilOpen, Ended, Places
<1>a. /\ UNCHANGED <<doc, settings, config>> /\ doc \in Documents /\ config = doc.rate
      /\ Behind /\ PortSoFar /\ PagesSoFar /\ ElementsSoFar
      /\ port \in Nat \cup {Absent, Bad} /\ ssl \in BOOLEAN
  BY DEF LoadNextRole, RolesLoaded, LoadNextRoute, RoutesLoaded, rateVars, StartInv
<1>b. /\ titles \in Seq(RoleElements) /\ filed \in Seq(RouteElements)
      /\ doc.roles \in Seq(RoleElements) /\ doc.routes \in Seq(RouteElements)
  BY DocumentType DEF AccessInv, AccessTypes
<1>c. ASSUME at' \in Places, Behind', PortSoFar', PagesSoFar', ElementsSoFar',
             at' \in Ended => ~Sound(doc)
      PROVE  StartInv'
  <2>1. at' \in Ended => ~Sound(doc)'
    BY <1>a, <1>c DEF Sound
  <2>2. (doc \in Documents)' /\ (config = doc.rate)' /\ port' = port /\ ssl' = ssl
    BY <1>a DEF settings
  <2>3. QED
    BY <1>a, <1>c, <2>1, <2>2 DEF StartInv
<1>1. CASE LoadNextRole
  <2> DEFINE last == Len(titles) + 1
             e == doc.roles[last]
  <2>1. /\ at = "roles" /\ Len(titles) < Len(doc.roles) /\ LoadRole(e)
        /\ at' = IF phase' = "exited" THEN "exited" ELSE at
    BY <1>1 DEF LoadNextRole
  <2>2. e \in RoleElements
    BY <1>b, <2>1
  <2>3. /\ titles' = Append(titles, e) /\ filed' = filed
        /\ e.title = "" => phase' = "exited"
        /\ e.title # "" => phase' = "roles"
    BY <2>1 DEF LoadRole
  <2>4. /\ Len(titles') = last /\ titles'[last] = e
        /\ \A i \in 1..Len(titles) : titles'[i] = titles[i]
    BY <1>b, <2>1, <2>2, RoleRead
  <2>5. at' = IF e.title = "" THEN "exited" ELSE "roles"
    BY <2>1, <2>3
  <2>6. ElementsSoFar'
    <3>1. \A i \in 1..Len(titles') : i = last \/ i \in 1..Len(titles)
      BY <1>b, <2>4
    <3>2. Len(titles') <= Len(doc.roles)
      BY <1>b, <2>1, <2>4
    <3>3. \A i \in 1..Len(titles') : titles'[i] = doc.roles[i]
      BY <1>a, <2>4, <3>1 DEF ElementsSoFar
    <3>4. at' \notin Ended => \A i \in 1..Len(titles') : titles'[i].title # ""
      BY <1>a, <2>1, <2>4, <2>5, <3>1 DEF ElementsSoFar
    <3>5. QED
      BY <1>a, <2>3, <3>2, <3>3, <3>4 DEF ElementsSoFar
  <2>7. Behind' /\ PortSoFar'
    BY <1>a, <2>1, <2>5 DEF Behind, PortSoFar, settings
  <2>8. PagesSoFar'
    BY <1>a, <2>1, <2>5 DEF PagesSoFar, PagesAsRead, FirstPage, settings
  <2>9. at' \in Ended => ~Sound(doc)
    <3>1. last \in DOMAIN doc.roles
      BY <1>b, <2>1
    <3>2. QED
      BY <2>5, <3>1 DEF Sound
  <2>10. at' \in Places
    BY <2>5
  <2>11. StartInv'
    BY <1>c, <2>6, <2>7, <2>8, <2>9, <2>10
  <2>12. QED
    BY <2>1, <2>2, <2>11 DEF AccessStep
<1>2. CASE RolesLoaded
  <2>1. /\ at = "roles" /\ Len(titles) = Len(doc.roles) /\ at' = "ssl" /\ ExpandStars
        /\ UNCHANGED <<titles, filed>>
    BY <1>2 DEF RolesLoaded, ExpandStars
  <2>2. ElementsSoFar'
    BY <1>a, <2>1 DEF ElementsSoFar
  <2>3. Behind' /\ PortSoFar'
    BY <1>a, <2>1 DEF Behind, PortSoFar, settings
  <2>4. PagesSoFar'
    BY <1>a, <2>1 DEF PagesSoFar, PagesAsRead, FirstPage, settings
  <2>5. StartInv'
    BY <1>c, <2>1, <2>2, <2>3, <2>4
  <2>6. QED
    BY <2>1, <2>5 DEF AccessStep
<1>3. CASE LoadNextRoute
  <2> DEFINE e == doc.routes[Len(filed) + 1]
  <2>1. /\ at = "routes" /\ Len(filed) < Len(doc.routes) /\ LoadRoute(e) /\ at' = at
    BY <1>3 DEF LoadNextRoute
  <2>2. e \in RouteElements
    BY <1>b, <2>1
  <2>3. titles' = titles /\ Len(filed') = Len(filed) + 1
    BY <1>b, <2>1, <2>2 DEF LoadRoute
  <2>4. ElementsSoFar'
    <3>1. Len(filed') <= Len(doc.routes)
      BY <1>b, <2>1, <2>3
    <3>2. QED
      BY <1>a, <2>1, <2>3, <3>1 DEF ElementsSoFar
  <2>5. Behind' /\ PortSoFar'
    BY <1>a, <2>1, <2>3 DEF Behind, PortSoFar, settings
  <2>6. PagesSoFar'
    BY <1>a, <2>1 DEF PagesSoFar, PagesAsRead, FirstPage, settings
  <2>7. StartInv'
    BY <1>c, <2>1, <2>4, <2>5, <2>6
  <2>8. QED
    BY <2>1, <2>2, <2>7 DEF AccessStep
<1>4. CASE RoutesLoaded
  <2>1. /\ at = "routes" /\ at' = "address" /\ Serve /\ UNCHANGED <<titles, filed>>
    BY <1>4 DEF RoutesLoaded, Serve
  <2>2. ElementsSoFar'
    BY <1>a, <2>1 DEF ElementsSoFar
  <2>3. Behind' /\ PortSoFar'
    BY <1>a, <2>1 DEF Behind, PortSoFar, settings
  <2>4. PagesSoFar'
    BY <1>a, <2>1 DEF PagesSoFar, PagesAsRead, FirstPage, settings
  <2>5. StartInv'
    BY <1>c, <2>1, <2>2, <2>3, <2>4
  <2>6. QED
    BY <2>1, <2>5 DEF AccessStep
<1>5. QED
  BY <1>1, <1>2, <1>3, <1>4

\* The steps on the limiter, and those that leave the document and the settings.
LEMMA LimiterStep ==
  ASSUME StartInv, UNCHANGED <<doc, settings, accessVars, config>>,
         UNCHANGED at \/ (at = "pipeline" /\ at' = "launch")
  PROVE  StartInv'
<1> USE DEF UntilLaunch, UntilAddress, UntilRoutes, UntilSSL, UntilRoles, UntilPages, UntilThreads,
            UntilPort, UntilSecret, UntilOpen, Ended, Places
<1>1. /\ UNCHANGED <<doc, secret, port, threads, cursor, pages, ssl, io, listens, titles, filed, config>>
      /\ doc \in Documents /\ config = doc.rate /\ at \in Places
      /\ Behind /\ PortSoFar /\ PagesSoFar /\ ElementsSoFar
      /\ port \in Nat \cup {Absent, Bad} /\ ssl \in BOOLEAN
      /\ at \in Ended => ~Sound(doc)
  BY DEF settings, accessVars, StartInv
<1>2. Behind' /\ PortSoFar'
  BY <1>1 DEF Behind, PortSoFar
<1>3. PagesSoFar'
  BY <1>1 DEF PagesSoFar, PagesAsRead, FirstPage
<1>4. ElementsSoFar'
  BY <1>1 DEF ElementsSoFar
<1>5. at' \in Ended => ~Sound(doc)'
  BY <1>1 DEF Sound
<1>6. QED
  BY <1>1, <1>2, <1>3, <1>4, <1>5 DEF StartInv

\* Whatever happens while the file is loaded, and after.
LoadStep ==
  \/ Load
  \/ Launch
  \/ Limit /\ UNCHANGED <<doc, at, settings, accessVars>>
  \/ UNCHANGED startupVars

LEMMA LoadKept == LoadInv /\ LoadStep => LoadInv'
<1> SUFFICES ASSUME LoadInv, LoadStep PROVE LoadInv'
  OBVIOUS
<1>a. AccessInv /\ RateInv /\ StartInv
  BY DEF LoadInv
<1>1. CASE \/ Open \/ LoadJWTSecret \/ LoadPort \/ LoadThreads \/ ErrorPagesLoaded
           \/ LoadSSL \/ LoadHostIP \/ Launch
  <2>1. Sections
    BY <1>1 DEF Open, LoadJWTSecret, LoadPort, LoadThreads, ErrorPagesLoaded, LoadSSL, LoadHostIP, Launch
  <2>2. StartInv'
    BY <1>a, <1>1, <2>1, SectionStep
  <2>3. UNCHANGED accessVars /\ UNCHANGED rateVars
    BY <2>1 DEF Sections
  <2>4. AccessInv'
    BY <1>a, <2>3, AccessKept DEF AccessStep
  <2>5. RateInv'
    BY <1>a, <2>3, RateKept DEF RateStep
  <2>6. QED
    BY <2>2, <2>4, <2>5 DEF LoadInv
<1>2. CASE LoadErrorPage
  <2>1. StartInv'
    BY <1>a, <1>2, LoadErrorPageStep
  <2>2. UNCHANGED accessVars /\ UNCHANGED rateVars
    BY <1>2 DEF LoadErrorPage, Sections
  <2>3. AccessInv'
    BY <1>a, <2>2, AccessKept DEF AccessStep
  <2>4. RateInv'
    BY <1>a, <2>2, RateKept DEF RateStep
  <2>5. QED
    BY <2>1, <2>3, <2>4 DEF LoadInv
<1>3. CASE LoadNextRole \/ RolesLoaded \/ LoadNextRoute \/ RoutesLoaded
  <2>1. AccessStep
    BY <1>a, <1>3, ElementStep
  <2>2. StartInv'
    BY <1>a, <1>3, ElementStep
  <2>3. AccessInv'
    BY <1>a, <2>1, AccessKept
  <2>4. UNCHANGED rateVars
    BY <1>3 DEF LoadNextRole, RolesLoaded, LoadNextRoute, RoutesLoaded
  <2>5. RateInv'
    BY <1>a, <2>4, RateKept DEF RateStep
  <2>6. QED
    BY <2>2, <2>3, <2>5 DEF LoadInv
<1>4. CASE InstallPipeline \/ (Limit /\ UNCHANGED <<doc, at, settings, accessVars>>)
  <2>1. RateStep
    BY <1>4 DEF InstallPipeline, RateStep
  <2>2. RateInv'
    BY <1>a, <2>1, RateKept
  <2>3. UNCHANGED <<doc, settings, accessVars, config>>
    BY <1>4 DEF InstallPipeline, LoadPipeline, Limit
  <2>4. UNCHANGED at \/ (at = "pipeline" /\ at' = "launch")
    BY <1>4 DEF InstallPipeline
  <2>5. StartInv'
    BY <1>a, <2>3, <2>4, LimiterStep
  <2>6. AccessInv'
    BY <1>a, <2>3, AccessKept DEF AccessStep
  <2>7. QED
    BY <2>2, <2>5, <2>6 DEF LoadInv
<1>5. CASE UNCHANGED startupVars
  <2>1. UNCHANGED accessVars /\ UNCHANGED rateVars /\ UNCHANGED at /\ UNCHANGED doc /\ UNCHANGED settings
    BY <1>5 DEF startupVars
  <2>2. AccessInv'
    BY <1>a, <2>1, AccessKept DEF AccessStep
  <2>3. RateInv'
    BY <1>a, <2>1, RateKept DEF RateStep
  <2>4. UNCHANGED config
    BY <2>1 DEF rateVars
  <2>5. StartInv'
    BY <1>a, <2>1, <2>4, LimiterStep
  <2>6. QED
    BY <2>2, <2>3, <2>5 DEF LoadInv
<1>6. QED
  BY <1>1, <1>2, <1>3, <1>4, <1>5 DEF LoadStep, Load

-----------------------------------------------------------------------------
\* What the account of the sections says of a server that runs.

LEMMA SoundServed == StartInv => ServesExactlySound
<1> USE DEF UntilLaunch, UntilAddress, UntilRoutes, UntilSSL, UntilRoles, UntilPages, UntilThreads,
            UntilPort, UntilSecret, UntilOpen, Ended
<1> SUFFICES ASSUME StartInv, at = "serving" PROVE Sound(doc)
  BY DEF StartInv, ServesExactlySound, Final
<1>1. /\ doc.opens /\ doc.host # "empty" /\ doc.logs /\ doc.resolves /\ doc.binds
      /\ secret = SecretOf(doc.jwt) /\ secret \notin {"exit", "throw"}
      /\ doc.port # Bad /\ doc.ssl \notin {"incomplete", "blank", "unusable"}
      /\ threads = ThreadsOf(doc.threads) /\ threads >= 2
      /\ Len(titles) = Len(doc.roles)
  BY DEF StartInv, Behind
<1>2. /\ doc.jwt.file # "unreadable"
      /\ doc.jwt.file = "absent" => doc.jwt.text # "empty"
      /\ doc.jwt.file = "absent" /\ doc.jwt.text = "absent" => doc.jwt.generate # "bad"
  BY <1>1, SecretSound
<1>3. doc.threads # 1 /\ (doc.threads = Absent => Hardware # 1)
  BY <1>1, ThreadsSound
<1>4. doc.ssl \in {"absent", "usable"}
  BY <1>1, DocumentType
<1>5. \A i \in DOMAIN doc.roles : doc.roles[i].title # ""
  <2>1. /\ \A i \in 1..Len(titles) : titles[i] = doc.roles[i]
        /\ \A i \in 1..Len(titles) : titles[i].title # ""
    BY DEF StartInv, ElementsSoFar
  <2>2. DOMAIN doc.roles = 1..Len(titles)
    BY <1>1, DocumentType
  <2>3. QED
    BY <2>1, <2>2
<1>6. QED
  BY <1>1, <1>2, <1>3, <1>4, <1>5 DEF Sound

\* A number below another is its own remainder.
LEMMA OwnRemainder ==
  ASSUME NEW n \in Nat, NEW p \in 1..(n - 1)
  PROVE  p \in Nat \ {0} /\ p % n = p
  OBVIOUS

\* The number of a port is no mark of a missing one, and stays as it is.
LEMMA PortFits ==
  ASSUME NEW p \in 1..(PortNumbers - 1)
  PROVE  p # Absent /\ AcceptorPort(p) = p
<1>1. PortNumbers \in Nat
  BY DEF PortNumbers
<1>2. p \in Nat \ {0} /\ p % PortNumbers = p
  BY ONLY p \in 1..(PortNumbers - 1), <1>1, OwnRemainder
<1>3. p # Absent
  BY ONLY <1>2 DEF Absent
<1>4. QED
  BY ONLY <1>2, <1>3 DEF AcceptorPort

LEMMA SettingsServed == StartInv => SettingsAsWritten
<1> USE DEF UntilLaunch, UntilAddress, UntilRoutes, UntilSSL, UntilRoles, UntilPages, UntilThreads,
            UntilPort, UntilSecret, UntilOpen, Ended
<1> SUFFICES ASSUME StartInv, at = "serving"
             PROVE  /\ doc.port \in 1..(PortNumbers - 1) /\ ~(doc.port = 80 /\ ssl) =>
                         listens = doc.port
                    /\ doc.port = Absent => listens = (IF doc.ssl = "absent" THEN 80 ELSE 443)
                    /\ doc.threads > 0 => io + 1 = doc.threads
                    /\ doc.jwt.file = "good" => secret = "file"
                    /\ doc.jwt.file = "absent" /\ doc.jwt.text = "given" => secret = "text"
                    /\ PagesAsRead
  BY DEF SettingsAsWritten
<1>1. /\ secret = SecretOf(doc.jwt) /\ ssl = (doc.ssl # "absent")
      /\ threads = ThreadsOf(doc.threads) /\ threads >= 2 /\ io = threads - 1
      /\ listens = AcceptorPort(port)
  BY DEF StartInv, Behind
<1>2. port = IF ssl THEN HttpsPort(IF doc.port = Absent THEN 80 ELSE doc.port)
             ELSE IF doc.port = Absent THEN 80 ELSE doc.port
  BY DEF StartInv, PortSoFar
<1>3. doc.port \in Nat \cup {Absent, Bad}
  BY DocumentType
<1>4. doc.port \in 1..(PortNumbers - 1) /\ ~(doc.port = 80 /\ ssl) => listens = doc.port
  <2> SUFFICES ASSUME doc.port \in 1..(PortNumbers - 1), ~(doc.port = 80 /\ ssl)
               PROVE  listens = doc.port
    OBVIOUS
  <2>1. doc.port # Absent /\ AcceptorPort(doc.port) = doc.port
    BY PortFits
  <2>2. port = doc.port
    BY <1>2, <2>1 DEF HttpsPort
  <2>3. QED
    BY <1>1, <2>1, <2>2
<1>5. doc.port = Absent => listens = (IF doc.ssl = "absent" THEN 80 ELSE 443)
  <2>1. doc.port = Absent => port = (IF doc.ssl = "absent" THEN 80 ELSE 443)
    BY <1>1, <1>2 DEF HttpsPort
  <2>2. QED
    BY <1>1, <2>1 DEF AcceptorPort, PortNumbers
<1>6. doc.threads > 0 => io + 1 = doc.threads
  <2>1. ThreadsOf(doc.threads) \in Nat
    BY ThreadsSound
  <2>2. doc.threads > 0 => ThreadsOf(doc.threads) = doc.threads
    BY ThreadsSound
  <2>3. QED
    BY <1>1, <2>1, <2>2
<1>7. /\ doc.jwt.file = "good" => secret = "file"
      /\ doc.jwt.file = "absent" /\ doc.jwt.text = "given" => secret = "text"
  BY <1>1 DEF SecretOf
<1>8. PagesAsRead
  <2>1. PagesSoFar
    BY DEF StartInv
  <2>2. CASE cursor = "none"
    BY <2>1, <2>2 DEF PagesSoFar
  <2>3. CASE cursor = "first"
    <3>1. doc.pages = <<>> /\ pages = <<>>
      BY <2>1, <2>3 DEF PagesSoFar
    <3>2. DOMAIN pages = {} /\ FirstPage = {}
      BY <3>1 DEF FirstPage
    <3>3. QED
      BY <3>2 DEF PagesAsRead
  <2>4. QED
    BY <2>1, <2>2, <2>3 DEF PagesSoFar
<1>9. QED
  BY <1>4, <1>5, <1>6, <1>7, <1>8

LEMMA LoadedAsWritten ==
  ASSUME LoadInv
  PROVE  /\ ServesExactlySound /\ SettingsAsWritten
         /\ GrantsAsWritten /\ RoutesGuardedAsWritten /\ LimiterAsConfigured
<1>1. AccessInv /\ RateInv /\ StartInv
  BY DEF LoadInv
<1>2. ServesExactlySound /\ SettingsAsWritten
  BY <1>1, SoundServed, SettingsServed
<1>3. GrantsAsWritten /\ RoutesGuardedAsWritten
  BY <1>1, AccessAsWritten
<1>4. LimiterAsConfigured
  BY <1>1, RateKeptAsWritten
<1>5. QED
  BY <1>2, <1>3, <1>4
=============================================================================
