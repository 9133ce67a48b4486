----------------------------- MODULE AccessConfig -----------------------------
(***************************************************************************)
(* Who may use what: Config::loadRoles and Config::loadRoutes read the     *)
(* <Role> and <Route> elements in the order of the file (src/src/          *)
(* config.cpp), Router::updateEndpoint files the routes, and then          *)
(* Authenticator::validate asks findRole and includesRole.                 *)
(*                                                                         *)
(* Roles and endpoints are names (get_role_hash is the identity); a Role   *)
(* element has a title and the texts of its Includes in order, a Route     *)
(* element the attributes that matter for access, "" for a missing one.    *)
(* Scripts, arguments and limiters of a route are left out.                *)
(***************************************************************************)
EXTENDS Integers, Sequences

CONSTANTS Names,         \* names of roles
          RoleElements,  \* records [title, includes]
          RouteElements, \* records [endpoint, method, protected, access_role]
          MaxRoles,      \* bound: Role elements in the file
          MaxRoutes      \* bound: Route elements in the file

ASSUME AccessConfigAssumption ==
  /\ {"viewer", "user", "admin"} \subseteq Names
  /\ "*" \notin Names /\ "" \notin Names
  /\ MaxRoles \in Nat /\ MaxRoutes \in Nat
  /\ \A e \in RoleElements : e.title \in Names \cup {""} /\ e.includes \in Seq(Names \cup {"*"})
  /\ \A e \in RouteElements : e.access_role \in Names \cup {""}

VARIABLES phase,   \* "roles", "routes", "serving", or "exited" after a FATAL
          roles,   \* Config::roles: the includes of each role that is defined
          full,    \* full_include_roles
          routes,  \* Router::endpoints: by <<endpoint, method>>
          titles,  \* history: the Role elements read
          filed    \* history: the Route elements read

accessVars == <<phase, roles, full, routes, titles, filed>>

Put(f, x, v) == [y \in DOMAIN f \cup {x} |-> IF y = x THEN v ELSE f[y]]

\* Router's constructor: GET and HEAD of "/".
DefaultRoutes == [id \in {<<"/", "GET">>, <<"/", "HEAD">>} |->
                    [protected |-> FALSE, access_role |-> "viewer"]]

AccessInit ==
  /\ phase = "roles"
  /\ roles = [t \in {"viewer", "user", "admin"} |->
                CASE t = "viewer" -> {}
                  [] t = "user"   -> {"viewer"}
                  [] t = "admin"  -> {"user", "viewer"}]
  /\ full = {}
  /\ routes = DefaultRoutes
  /\ titles = <<>>
  /\ filed = <<>>

-----------------------------------------------------------------------------
\* Includes are read up to the first "*".
BeforeStar(e) == {e.includes[i] : i \in {j \in DOMAIN e.includes :
                                           \A h \in 1..j : e.includes[h] # "*"}}
HasStar(e) == \E i \in DOMAIN e.includes : e.includes[i] = "*"

\* Slip: a role read earlier in the file keeps its includes.
MergedRole(e) == BeforeStar(e) \cup (IF e.title \in DOMAIN roles THEN roles[e.title] ELSE {})

\* A second element for a title replaces the first, but full_include_roles
\* keeps pointing at the title's entry.
NewRole(e) == BeforeStar(e)

LoadRole(e) ==
  /\ phase = "roles"
  /\ titles' = Append(titles, e)
  /\ IF e.title = ""
     THEN phase' = "exited" /\ UNCHANGED <<roles, full>>
     ELSE /\ roles' = Put(roles, e.title, NewRole(e))
          /\ full' = full \cup (IF HasStar(e) THEN {e.title} ELSE {})
          /\ UNCHANGED phase
  /\ UNCHANGED <<routes, filed>>

\* "*" adds every title that is defined, also further down in the file.
ExpandStars ==
  /\ phase = "roles"
  /\ roles' = [t \in DOMAIN roles |-> IF t \in full THEN roles[t] \cup DOMAIN roles ELSE roles[t]]
  /\ phase' = "routes"
  /\ UNCHANGED <<full, routes, titles, filed>>

-----------------------------------------------------------------------------
Endpoint(e) == IF e.endpoint = "" THEN "/" ELSE e.endpoint

\* Slip: the default for a missing access role is forgotten.
AccessRoleRaw(e) == IF e.protected # "true" THEN "viewer" ELSE e.access_role

\* Only the word "true" protects; the default role is the most restrictive.
AccessRole(e) ==
  IF e.protected # "true" THEN "viewer"
  ELSE IF e.access_role = "" THEN "admin" ELSE e.access_role

RouteFor(e) == [protected |-> e.protected = "true", access_role |-> AccessRole(e)]

\* Slip: the first element for an endpoint and a method is kept.
FileFirst(e) ==
  IF <<Endpoint(e), e.method>> \in DOMAIN routes THEN routes
  ELSE Put(routes, <<Endpoint(e), e.method>>, RouteFor(e))

\* updateEndpoint and addMethod: the other methods of the endpoint stay.
File(e) == Put(routes, <<Endpoint(e), e.method>>, RouteFor(e))

LoadRoute(e) ==
  /\ phase = "routes"
  /\ filed' = Append(filed, e)
  /\ routes' = IF e.method = "NOT_ALLOWED" THEN routes ELSE File(e)
  /\ UNCHANGED <<phase, roles, full, titles>>

Serve ==
  /\ phase = "routes"
  /\ phase' = "serving"
  /\ UNCHANGED <<roles, full, routes, titles, filed>>

AccessFinished == phase \in {"serving", "exited"} /\ UNCHANGED accessVars

AccessNext == \/ \E e \in RoleElements : Len(titles) < MaxRoles /\ LoadRole(e)
              \/ ExpandStars
              \/ \E e \in RouteElements : Len(filed) < MaxRoutes /\ LoadRoute(e)
              \/ Serve
              \/ AccessFinished

AccessSpec == AccessInit /\ [][AccessNext]_accessVars

-----------------------------------------------------------------------------
\* Slip: the role of the route is asked for the role in the token.
GrantsReversed(r, required) ==
  r \in DOMAIN roles /\ (r = required \/ (required \in DOMAIN roles /\ r \in roles[required]))

\* validate's question about a token with role r: findRole and includesRole.
Grants(r, required) == r \in DOMAIN roles /\ (r = required \/ required \in roles[r])

AccessTypeOK ==
  /\ phase \in {"roles", "routes", "serving", "exited"}
  /\ DOMAIN roles \subseteq Names
  /\ \A t \in DOMAIN roles : roles[t] \subseteq Names
  /\ full \subseteq DOMAIN roles
  /\ \A id \in DOMAIN routes :
       routes[id].protected \in BOOLEAN /\ routes[id].access_role \in Names
  /\ Len(titles) <= MaxRoles /\ Len(filed) <= MaxRoutes

\* What one Includes says, over all elements of the file and the built-in roles;
\* "*" names every defined role.
Says(t, n) ==
  \/ <<t, n>> \in {<<"user", "viewer">>, <<"admin", "user">>, <<"admin", "viewer">>}
  \/ \E i \in DOMAIN titles : titles[i].title = t /\ n \in BeforeStar(titles[i])
  \/ t \in full /\ n \in DOMAIN roles

\* n follows from t by a chain of Includes: it is in every set that has t and
\* what its members say.
Follows(t, n) ==
  \A S \in SUBSET Names :
    t \in S /\ (\A a \in S, b \in Names : Says(a, b) => b \in S) => n \in S

\* A token opens only what its role reaches by the Includes of the file: no
\* order of elements, replaced definition or "*" gives a role anything more.
GrantsWithinHierarchy ==
  phase = "serving" =>
    \A r \in Names, n \in Names : Grants(r, n) => Follows(r, n)

LastFor(i) == \A j \in DOMAIN titles : j > i => titles[j].title # titles[i].title

\* What an element says its title may have: itself, its Includes up to a "*", and
\* for a "*" every role defined before or after it.
WrittenIn(e) ==
  {e.title} \cup BeforeStar(e) \cup (IF HasStar(e) THEN DOMAIN roles ELSE {})

\* Some element of the title has a "*".  That of a replaced element outlives it:
\* full_include_roles points at the title's entry, where the last element now is
\* (config.cpp:436-447).
Starred(i) ==
  \E j \in DOMAIN titles : titles[j].title = titles[i].title /\ HasStar(titles[j])

\* Of several elements for one title the last one counts: what it says is granted,
\* and nothing else.  This is false of one thing, the "*" of an element that was
\* replaced: it still gives every defined role.
LastElementCounts ==
  phase = "serving" =>
    \A i \in DOMAIN titles : LastFor(i) =>
      \A n \in Names :
        Grants(titles[i].title, n) <=>
          \/ n \in WrittenIn(titles[i])
          \/ Starred(i) /\ n \in DOMAIN roles

\* What a role is granted is what the last element of its title says, and what a
\* "*" of any of its elements says, and follows from the file.
GrantsAsWritten == GrantsWithinHierarchy /\ LastElementCounts

SameRoute(e, f) == Endpoint(e) = Endpoint(f) /\ e.method = f.method
LastFiled(i) == \A j \in DOMAIN filed : j > i => ~SameRoute(filed[j], filed[i])

\* A route that its last element protects is closed to every role from which
\* the access role (admin when the file names none) does not follow, and a route
\* that it does not protect asks for no role: whatever the file says of the
\* same endpoint with other methods, or said of this route before.
RoutesGuardedAsWritten ==
  phase = "serving" =>
    \A i \in DOMAIN filed : LastFiled(i) /\ filed[i].method # "NOT_ALLOWED" =>
      LET e == filed[i]
          route == routes[<<Endpoint(e), e.method>>]
          asked == IF e.access_role = "" THEN "admin" ELSE e.access_role
      IN  /\ route.protected = (e.protected = "true")
          /\ e.protected = "true" =>
               \A r \in Names : Grants(r, route.access_role) => Follows(r, asked)
=============================================================================
