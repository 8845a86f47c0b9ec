------------------------------ MODULE RouteScopes ------------------------------
(***************************************************************************)
(* Which requests a route covers: host patterns (host_match.rs), path      *)
(* scopes and resource namespaces (resource_guard.rs), the order in which  *)
(* routes are tried and the analysis of overlapping routes (config.rs),    *)
(* and the indexed choice of a TCP route by server name (tcp.rs).          *)
(* Each is an operator that follows the code and is compared with what it  *)
(* is meant to compute, for every input of the bounded sets.               *)
(*                                                                         *)
(* A path and a label are sequences of bytes, a name is its labels (a root *)
(* dot is an empty last label), "A" is the upper case of "a".              *)
(***************************************************************************)
EXTENDS Naturals, FiniteSets, Sequences, SequencesExt, FiniteSetsExt

CONSTANTS
    MaxOperand,      \* bytes of a route's path_prefix
    MaxLabel,        \* bytes of a label
    RoutePriorities,
    RoutePaths,      \* path settings of a route: [mode, prefix, case]
    RouteHosts,      \* host settings of a route: [host, hosts, regex]
    RequestHosts,    \* authorities a request may name
    ServerPatterns,  \* host patterns of TCP routes selected by server name
    ServerNames      \* server names a ClientHello may carry

ASSUME ScopeConstants == {MaxOperand, MaxLabel} \subseteq Nat /\ RoutePriorities \subseteq Nat

VARIABLE comparison   \* the latest comparison: its kind and inputs
scopeVars == <<comparison>>

-----------------------------------------------------------------------------
(* Bytes *)
Folded(b) == IF b = "A" THEN "a" ELSE b
SameBytes(left, right, fold) ==
    /\ Len(left) = Len(right)
    /\ \A i \in DOMAIN left :
          left[i] = right[i] \/ (fold /\ Folded(left[i]) = Folded(right[i]))
Strings(bytes, least, most) == UNION {[1..n -> bytes] : n \in least..most}
TrimSlashes(s) == SubSeq(s, 1, Max({0} \union {i \in DOMAIN s : s[i] # "/"}))

-----------------------------------------------------------------------------
(* host_match.rs *)
NoHost == [kind |-> "none"]
Name(labels) == [kind |-> "name", labels |-> labels]
Address(number, brackets) == [kind |-> "ip", number |-> number, brackets |-> brackets]

Lowered(name) ==
    Name([i \in DOMAIN name.labels |->
             [k \in DOMAIN name.labels[i] |-> Folded(name.labels[i][k])]])

(* is_glob *)
IsGlob(pattern) ==
    pattern.kind = "name" /\ \E i \in DOMAIN pattern.labels :
        {"*", "?"} \intersect ToSet(pattern.labels[i]) # {}

(* valid_labels *)
ValidLabels(labels, wildcards) ==
    \A i \in DOMAIN labels :
        /\ labels[i] # <<>> /\ Len(labels[i]) <= MaxLabel
        /\ Head(labels[i]) # "-" /\ Last(labels[i]) # "-"
        /\ wildcards \/ {"*", "?"} \intersect ToSet(labels[i]) = {}

(* match_label: consecutive stars become one; a state is the number of pattern
   bytes passed, and a star may be passed without a byte. *)
Compact(pattern) ==
    FoldLeft(LAMBDA made, b : IF b = "*" /\ made # <<>> /\ Last(made) = "*" THEN made
                              ELSE Append(made, b), <<>>, pattern)
Close(p, states) == states \union {s + 1 : s \in {t \in states : t < Len(p) /\ p[t + 1] = "*"}}
Advanced(p, states, b) ==
    LET literal == {s \in states : s < Len(p) /\ p[s + 1] # "*"
                                     /\ (p[s + 1] = "?" \/ Folded(p[s + 1]) = Folded(b))}
        stars == {s \in states : s < Len(p) /\ p[s + 1] = "*"}
    IN  Close(p, {s + 1 : s \in literal} \union stars)
MatchLabel(pattern, label) ==
    LET p == Compact(pattern)
    IN  Len(p) \in Close(p, FoldLeft(LAMBDA states, b : Advanced(p, states, b),
                                     Close(p, {0}), label))

(* matches *)
HostMatches(pattern, host) ==
    CASE "none" \in {pattern.kind, host.kind} -> FALSE
      [] pattern.kind = "ip" -> host.kind = "ip" /\ host.number = pattern.number
      [] host.kind = "ip" -> FALSE
      [] ~IsGlob(pattern) ->
            /\ Len(pattern.labels) = Len(host.labels)
            /\ \A i \in DOMAIN host.labels : SameBytes(pattern.labels[i], host.labels[i], TRUE)
      [] OTHER ->
            /\ ValidLabels(pattern.labels, TRUE) /\ ValidLabels(host.labels, FALSE)
            /\ Len(pattern.labels) = Len(host.labels)
            /\ \A i \in DOMAIN host.labels : MatchLabel(pattern.labels[i], host.labels[i])

(* What a glob means: each byte of the label is spelled by a literal, by "?" or
   by a star, from left to right. *)
GlobMeans(pattern, label) ==
    LET Spelt[i \in 0..Len(pattern), j \in 0..Len(label)] ==
            IF i = 0 THEN j = 0
            ELSE IF pattern[i] = "*" THEN Spelt[i - 1, j] \/ (j > 0 /\ Spelt[i, j - 1])
            ELSE /\ j > 0
                 /\ pattern[i] = "?" \/ Folded(pattern[i]) = Folded(label[j])
                 /\ Spelt[i - 1, j - 1]
    IN  Spelt[Len(pattern), Len(label)]

-----------------------------------------------------------------------------
(* resource_guard.rs: a scope is [mode, operand, fold] *)
StartsWith(path, prefix, fold) ==
    Len(path) >= Len(prefix) /\ SameBytes(SubSeq(path, 1, Len(prefix)), prefix, fold)

(* path_matches *)
PathMatches(scope, path) ==
    CASE scope.mode = "prefix" -> StartsWith(path, scope.operand, scope.fold)
      [] scope.mode = "exact" -> SameBytes(path, scope.operand, scope.fold)
      [] scope.mode = "segment" ->
            LET base == TrimSlashes(scope.operand)
            IN  \/ base = <<>>
                \/ /\ StartsWith(path, base, scope.fold)
                   /\ Len(path) > Len(base) => path[Len(base) + 1] = "/"

(* scopes_intersect *)
Atoms(scope) ==
    LET base == TrimSlashes(scope.operand)
    IN  CASE scope.mode = "segment" /\ base # <<>> ->
                {[atom |-> "exact", bytes |-> base], [atom |-> "prefix", bytes |-> Append(base, "/")]}
          [] scope.mode = "segment" -> {[atom |-> "prefix", bytes |-> <<>>]}
          [] OTHER -> {[atom |-> scope.mode, bytes |-> scope.operand]}
AtomsMeet(x, y, fold) ==
    CASE x.atom = "exact" /\ y.atom = "exact" -> SameBytes(x.bytes, y.bytes, fold)
      [] x.atom = "exact" -> StartsWith(x.bytes, y.bytes, fold)
      [] y.atom = "exact" -> StartsWith(y.bytes, x.bytes, fold)
      [] OTHER -> StartsWith(x.bytes, y.bytes, fold) \/ StartsWith(y.bytes, x.bytes, fold)
ScopesIntersect(a, b) ==
    \E x \in Atoms(a), y \in Atoms(b) : AtomsMeet(x, y, a.fold \/ b.fold)

Scopes == {[mode |-> "prefix", operand |-> <<>>, fold |-> FALSE]} \union
          [mode : {"prefix", "exact", "segment"}, fold : BOOLEAN,
           operand : {<<"/">> \o s : s \in Strings({"/", "a", "A"}, 0, MaxOperand - 1)}]
RequestPaths == {<<"/">> \o s : s \in Strings({"/", "a", "A"}, 0, MaxOperand)}

-----------------------------------------------------------------------------
(* Routes: [enabled, priority, path, host, listeners, auth, transform,       *)
(* resource].  auth is whether the route has an authenticator.  validate     *)
(* lets no route be Protected without one, and none have workload_auth or a  *)
(* resource policy without being Protected, so auth also decides what the    *)
(* code asks of access_mode.  Header and JSON predicates, which only narrow  *)
(* a route, are left out.                                                    *)

(* is_path_scoped_protection, path_case_insensitive *)
PathScopedProtection(r) == r.path.prefix # <<>> /\ r.auth
PathCaseInsensitive(r) ==
    IF r.path.case = "default" THEN PathScopedProtection(r) ELSE r.path.case = "insensitive"

(* route_scope *)
RouteScope(r) ==
    IF r.path.prefix = <<>> THEN [mode |-> "prefix", operand |-> <<>>, fold |-> FALSE]
    ELSE [mode |-> r.path.mode, operand |-> r.path.prefix, fold |-> PathCaseInsensitive(r)]

(* effective_public_listeners *)
EffectiveListeners(r) == IF r.listeners = {} THEN {"default"} ELSE r.listeners
(* listener_matches; a workload listener has no public identity *)
ListenerMatches(r, listener) ==
    IF listener = "workload" THEN r.listeners = {} ELSE listener \in EffectiveListeners(r)

(* host_matches: `host`, `hosts` and `host_regex` are all required; what a
   regular expression accepts is a set of names. *)
RouteHostMatches(r, host) ==
    /\ r.host.host # NoHost => HostMatches(r.host.host, host)
    /\ r.host.hosts # {} => \E pattern \in r.host.hosts : HostMatches(pattern, host)
    /\ r.host.regex # {} => host \in r.host.regex
Unrestricted(r) == r.host.host = NoHost /\ r.host.hosts = {} /\ r.host.regex = {}

(* basic_match_path, for the path the namespace check has made canonical *)
BasicMatch(r, q) ==
    /\ ListenerMatches(r, q.listener)
    /\ Unrestricted(r) \/ RouteHostMatches(r, q.host)
    /\ PathMatches(RouteScope(r), q.path)

(* The loop over Snapshot.http, which build sorted by descending priority and,
   the sort being stable, by position. *)
Ordered(table) ==
    SortSeq([i \in DOMAIN table |-> i],
            LAMBDA i, j : table[i].priority > table[j].priority
                             \/ (table[i].priority = table[j].priority /\ i < j))
SelectRoute(table, q) ==
    LET order == Ordered(table)
        hits == {k \in DOMAIN order : table[order[k]].enabled /\ BasicMatch(table[order[k]], q)}
    IN  IF hits = {} THEN 0 ELSE order[Min(hits)]

(* selected_before *)
SelectedBefore(table, i, j) ==
    \/ table[i].priority > table[j].priority
    \/ table[i].priority = table[j].priority /\ i < j

\* Mutant: a glob is compared as if it were a name.
HostPatternsNamesOnly(r) ==
    IF r.host.regex # {} THEN {"any"}
    ELSE LET all == r.host.hosts \union ({r.host.host} \ {NoHost})
         IN  IF all = {} THEN {"any"} ELSE {"listed"}

(* hosts_may_overlap *)
HostPatterns(r) ==
    IF r.host.regex # {} THEN {"any"}
    ELSE LET all == r.host.hosts \union ({r.host.host} \ {NoHost})
         IN  IF all = {} \/ \E h \in all : IsGlob(h) THEN {"any"} ELSE {"listed"}
RootTrimmed(labels) == IF Last(labels) = <<>> THEN Front(labels) ELSE labels
HostKey(pattern) ==
    IF pattern.kind = "ip" THEN [kind |-> "ip", number |-> pattern.number]
    ELSE Lowered(Name(RootTrimmed(pattern.labels)))
(* Patterns equal but for the case of their letters *)
SamePattern(h, n) ==
    IF h.kind = "ip" THEN h = n
    ELSE n.kind = "name" /\ Len(h.labels) = Len(n.labels)
            /\ \A i \in DOMAIN h.labels : SameBytes(h.labels[i], n.labels[i], TRUE)
HostKeys(r) == {HostKey(h) : h \in r.host.hosts \union ({r.host.host} \ {NoHost})}
HostsMayOverlap(left, right) ==
    \/ "any" \in HostPatterns(left) \union HostPatterns(right)
    \/ HostKeys(left) \intersect HostKeys(right) # {}

(* validate_path_case_overlap *)
CaseOverlap(left, right) ==
    LET sensitive(r) == [RouteScope(r) EXCEPT !.fold = FALSE]
    IN  /\ left.path.prefix # <<>> /\ right.path.prefix # <<>>
        /\ PathCaseInsensitive(left) # PathCaseInsensitive(right)
        /\ ScopesIntersect(RouteScope(left), RouteScope(right))
        /\ ~ScopesIntersect(sensitive(left), sensitive(right))
        /\ HostsMayOverlap(left, right)
        /\ EffectiveListeners(left) \intersect EffectiveListeners(right) # {}

(* warnings: the unauthenticated routes that can shadow a protected one *)
Shadows(table, other, protected) ==
    /\ other # protected
    /\ table[other].enabled /\ table[protected].enabled
    /\ PathScopedProtection(table[protected]) /\ ~table[other].auth
    /\ SelectedBefore(table, other, protected)
    /\ HostsMayOverlap(table[other], table[protected])
    /\ EffectiveListeners(table[other]) \intersect EffectiveListeners(table[protected]) # {}
    /\ ScopesIntersect(RouteScope(table[other]), RouteScope(table[protected]))

(* resource_hosts_preserved *)
HostsPreserved(old, new) ==
    \/ Unrestricted(new)
    \/ /\ ~Unrestricted(old)
       /\ IF old.host.regex # {} \/ new.host.regex # {} THEN old.host.regex = new.host.regex
          ELSE \A h \in old.host.hosts \union ({old.host.host} \ {NoHost}) :
                  \E n \in new.host.hosts \union ({new.host.host} \ {NoHost}) : SamePattern(h, n)

-----------------------------------------------------------------------------
(* resource_guard::check.  A request names a host, what a trusted proxy      *)
(* forwarded and, in absolute form, the authority of its target.             *)
ScopeHost(r, host) ==
    \/ RouteHostMatches(r, host)
    \/ host.kind = "name" /\ RouteHostMatches(r, Name(RootTrimmed(host.labels)))
SameHost(left, right) ==
    IF "none" \in {left.kind, right.kind} THEN left = right ELSE SamePattern(left, right)
RootDotted(host) == host.kind = "name" /\ Last(host.labels) = <<>>

GuardsFor(table, q, hosts) ==
    {i \in DOMAIN table : ListenerMatches(table[i], q.listener)
                            /\ \E host \in hosts : ScopeHost(table[i], host)}
Resources(table, q, host) ==
    {table[i].resource : i \in {g \in GuardsFor(table, q, {host}) :
        table[g].resource # "none" /\ PathMatches(RouteScope(table[g]), q.path)}}

(* authentication_path_guards *)
AuthenticationGuard(r) == r.auth \/ (r.path.prefix # <<>> /\ r.transform)
(* A disabled route whose response transform covers the request: no fallback *)
(* may answer what it would have transformed.                                *)
TransformWithheld(table, q, host) ==
    \E i \in GuardsFor(table, q, {host}) :
        /\ AuthenticationGuard(table[i]) /\ ~table[i].enabled /\ table[i].transform
        /\ PathMatches(RouteScope(table[i]), q.path)

(* `guarded` is every resource guard and authentication guard of the table *)
CheckResource(table, q) ==
    LET guarded == {i \in DOMAIN table : table[i].resource # "none" \/ AuthenticationGuard(table[i])}
        candidates == {q.host, q.forwarded} \union (IF q.absolute = NoHost THEN {} ELSE {q.absolute})
        matching == GuardsFor(table, q, candidates) \intersect guarded
        boundary == \E i \in matching : table[i].resource # "none" \/ ~Unrestricted(table[i])
    IN  CASE matching = {} -> [status |-> 200, resource |-> "none"]
          [] \/ boundary /\ ~SameHost(q.host, q.forwarded)
             \/ q.absolute # NoHost /\ ~SameHost(q.host, q.absolute)
             \/ RootDotted(q.host) -> [status |-> 400, resource |-> "none"]
          [] TransformWithheld(table, q, q.host) -> [status |-> 404, resource |-> "none"]
          [] OTHER ->
                LET found == Resources(table, q, q.host)
                IN  IF Cardinality(found) > 1 THEN [status |-> 403, resource |-> "none"]
                    ELSE [status |-> 200,
                          resource |-> IF found = {} THEN "none" ELSE CHOOSE r \in found : TRUE]

-----------------------------------------------------------------------------
(* TCP routes that share a listener: [priority, hosts, regex], all enabled.  *)

(* SniMatch::validate, canonical_pattern: DNS names only, distinct but for case *)
ServerMatchValid(r) ==
    /\ r.hosts # {} \/ r.regex # {}
    /\ \A h \in r.hosts : h.kind = "name" /\ ValidLabels(h.labels, TRUE)
    /\ \A h, g \in r.hosts : Lowered(h) = Lowered(g) => h = g
(* Config::validate: no pattern twice at one priority of a listener *)
ServerTableValid(table) ==
    \A i, j \in DOMAIN table : i # j /\ table[i].priority = table[j].priority =>
        /\ {Lowered(h) : h \in table[i].hosts} \intersect {Lowered(h) : h \in table[j].hosts} = {}
        /\ table[i].regex = {} \/ table[i].regex # table[j].regex

(* simple_wildcard_suffix *)
SimpleWildcard(pattern) ==
    Len(pattern.labels) > 1 /\ Head(pattern.labels) = <<"*">> /\ ~IsGlob(Name(Tail(pattern.labels)))
(* ListenerRoutes::build: the routes of one priority, indexed by literal name,
   by the suffix of a simple wildcard, and in order by glob and by expression *)
Listed(table, priority, name) ==
    LET group == {i \in DOMAIN table : table[i].priority = priority}
        ByPattern(holds(_)) == {i \in group : \E h \in table[i].hosts : holds(Lowered(h))}
        Suffixed(h) == SimpleWildcard(h) /\ Len(name.labels) > 1 /\ Tail(h.labels) = Tail(name.labels)
        Spelled(h) == IsGlob(h) /\ ~SimpleWildcard(h) /\ HostMatches(h, name)
    IN  <<ByPattern(LAMBDA h : ~IsGlob(h) /\ h = name), ByPattern(Suffixed), ByPattern(Spelled),
          {i \in group : name \in table[i].regex}>>
(* route_for_server_name *)
RouteForServerName(table, asked) ==
    LET Found(p) == SelectSeq(Listed(table, p, Lowered(asked)), LAMBDA routes : routes # {})
        hits == {p \in {table[i].priority : i \in DOMAIN table} : Found(p) # <<>>}
    IN  IF hits = {} THEN 0 ELSE Min(Head(Found(Max(hits))))
(* What its settings say a route covers *)
CoversName(r, name) == Lowered(name) \in r.regex \/ \E h \in r.hosts : HostMatches(h, name)

-----------------------------------------------------------------------------
(* Config::validate: host, hosts and host_regex exclude one another. *)
HostSettingsValid(h) ==
    Cardinality({h.host} \ {NoHost}) + Min({1, Cardinality(h.hosts)}) + Min({1, Cardinality(h.regex)}) <= 1

Routes(auth) ==
    [enabled : {TRUE}, priority : RoutePriorities, path : RoutePaths, listeners : {{}, {"x"}},
     host : {h \in RouteHosts : HostSettingsValid(h)}, auth : {auth}, transform : {FALSE},
     resource : {"none"}]
Namespaces(resource) ==
    [enabled : {TRUE}, priority : {0}, path : {p \in RoutePaths : p.mode = "prefix"},
     host : {h \in RouteHosts : HostSettingsValid(h)}, listeners : {{}},
     auth : {TRUE}, transform : {FALSE}, resource : {resource}]
Withheld ==
    {[r EXCEPT !.enabled = FALSE, !.auth = FALSE, !.transform = TRUE] :
        r \in {n \in Namespaces("none") : n.path.prefix # <<>>}}
Asked ==
    [listener : {"default", "x", "workload"}, host : RequestHosts,
     path : {path \in RequestPaths : Len(path) < MaxOperand}]

CompareScopes == \E a, b \in Scopes : comparison' = [kind |-> "scopes", a |-> a, b |-> b]
CompareGlobs ==
    \E pattern \in Strings({"a", "b", "-", "*", "?"}, 1, MaxLabel),
       label \in Strings({"a", "A", "b", "-"}, 1, MaxLabel) :
        /\ ValidLabels(<<pattern>>, TRUE) /\ ValidLabels(<<label>>, FALSE)
        /\ comparison' = [kind |-> "globs", pattern |-> pattern, label |-> label]
CompareRoutes ==
    \E a \in Routes(FALSE), b \in Routes(TRUE) :
        /\ Min({a.priority, b.priority}) = Min(RoutePriorities)   \* only their order counts
        /\ \E table \in {<<a, b>>, <<b, a>>} : comparison' = [kind |-> "routes", table |-> table]
CompareNamespaces ==
    \E a \in Namespaces("billing"), b \in Namespaces("payroll") \union Namespaces("none") \union Withheld :
       \E host, forwarded \in RequestHosts, absolute \in RequestHosts \union {NoHost} :
          comparison' = [kind |-> "namespaces", table |-> <<a, b>>, host |-> host,
                         forwarded |-> forwarded, absolute |-> absolute]
ServerRoutes ==
    {r \in [priority : RoutePriorities, regex : {{}, {Lowered(CHOOSE n \in ServerNames : TRUE)}},
            hosts : {h \in SUBSET ServerPatterns : Cardinality(h) <= 2}] : ServerMatchValid(r)}
CompareNames ==
    \E a, b \in ServerRoutes :
        /\ ServerTableValid(<<a, b>>)
        /\ comparison' = [kind |-> "names", table |-> <<a, b>>]

ScopesInit == comparison = [kind |-> "none"]
ScopesNext ==
    /\ comparison.kind = "none"
    /\ CompareScopes \/ CompareGlobs \/ CompareRoutes \/ CompareNamespaces \/ CompareNames

(* Two scopes are said to intersect exactly when some path is in both; the bit
   machine accepts a label exactly when the glob spells it; a request that an
   unauthenticated route answers although a protected route of the same table
   covers it has been warned about; routes of different case handling that
   share a request also share a path as it is written; hosts that count as preserved still match;
   whichever authority of an accepted request an origin believes, it names
   the same resource, and none that only a withheld transform covers; and the index of a listener finds a route for exactly the
   server names some route covers, of the highest priority that covers it, and
   the one that lists the name itself before any that only matches it.
   (scopes_intersect, match_label, Config::warnings, validate_path_case_overlap,
   resource_hosts_preserved, resource_guard::check, route_for_server_name) *)
ScopesExact ==
    /\ comparison.kind = "scopes" =>
          ScopesIntersect(comparison.a, comparison.b)
            = \E path \in RequestPaths : PathMatches(comparison.a, path) /\ PathMatches(comparison.b, path)
    /\ comparison.kind = "globs" =>
          MatchLabel(comparison.pattern, comparison.label)
            = GlobMeans(comparison.pattern, comparison.label)
    /\ comparison.kind = "routes" =>
          LET table == comparison.table
          IN  /\ \A q \in Asked, p \in DOMAIN table :
                   BasicMatch(table[p], q) =>
                      LET chosen == SelectRoute(table, q)
                      IN  /\ chosen # p => SelectedBefore(table, chosen, p)
                          /\ chosen # p /\ PathScopedProtection(table[p]) /\ ~table[chosen].auth =>
                                Shadows(table, chosen, p)
                          /\ \A n \in DOMAIN table : HostsPreserved(table[p], table[n]) =>
                                RouteHostMatches(table[n], q.host)
              /\ (~CaseOverlap(table[1], table[2])
                     /\ PathCaseInsensitive(table[1]) # PathCaseInsensitive(table[2])
                     /\ <<>> \notin {table[1].path.prefix, table[2].path.prefix}
                     /\ \E q \in Asked : BasicMatch(table[1], q) /\ BasicMatch(table[2], q)) =>
                    \E path \in RequestPaths : \A i \in DOMAIN table :
                        PathMatches([RouteScope(table[i]) EXCEPT !.fold = FALSE], path)
    /\ comparison.kind = "namespaces" =>
          \A path \in {r.path : r \in Asked} :
             LET q == [listener |-> "default", host |-> comparison.host, path |-> path,
                       forwarded |-> comparison.forwarded, absolute |-> comparison.absolute]
                 checked == CheckResource(comparison.table, q)
                 believed == {q.host, q.forwarded} \union ({q.absolute} \ {NoHost})
             IN  checked.status = 200 =>
                    \A host \in believed :
                        /\ Resources(comparison.table, q, host) \subseteq {checked.resource}
                        /\ ~TransformWithheld(comparison.table, q, host)
    /\ comparison.kind = "names" =>
          \A name \in ServerNames :
             LET table == comparison.table
                 chosen == RouteForServerName(table, name)
                 covering == {i \in DOMAIN table : CoversName(table[i], name)}
             IN  /\ IF covering = {} THEN chosen = 0 ELSE chosen \in covering
                 /\ \A i \in covering :
                       /\ table[i].priority <= table[chosen].priority
                       /\ table[i].priority = table[chosen].priority
                             /\ Lowered(name) \in {Lowered(h) : h \in table[i].hosts} => i = chosen
=============================================================================
