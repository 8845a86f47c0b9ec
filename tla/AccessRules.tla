----------------------------- MODULE AccessRules ------------------------------
(***************************************************************************)
(* The decisions on one request that need no state: Accept-Language        *)
(* (language_policy.rs), country (country_policy.rs,                       *)
(* country_observation.rs), cross-site requests (path_csrf.rs), password   *)
(* (basic_auth.rs), resource permission and canonical path                 *)
(* (resource_policy.rs).  Each is an operator that follows the code; a     *)
(* request is judged by one of them for every input of the bounded sets.   *)
(*                                                                         *)
(* A language range is its sequence of subtags, a digest the tuple of what *)
(* was hashed, a quality one of 0 .. MaxQuality, a path a sequence of      *)
(* bytes in which ".e" stands for an escaped dot and so on.                *)
(***************************************************************************)
EXTENDS Naturals, FiniteSets, Sequences, SequencesExt, FiniteSetsExt

CONSTANTS
    LanguageRanges,  \* ranges of headers and rules
    MaxQuality,
    MaxMembers,      \* members of an Accept-Language header
    Codes,           \* country codes
    Sites,           \* origins: [scheme, host, port]
    Names, Passwords,
    MaxPath          \* bytes of a path

ASSUME AccessConstants == {MaxQuality, MaxMembers, MaxPath} \subseteq Nat

VARIABLE judgement   \* the latest judgement: its kind, inputs and verdict
judgementVars == <<judgement>>

-----------------------------------------------------------------------------
(* language_policy.rs *)
Wild == <<"*">>
(* basic_filter_validated *)
BasicFilter(range, tag) == range = Wild \/ IsPrefix(range, tag)

(* AcceptLanguage::parse_values: a duplicate range or too many refuse all *)
ParseLanguage(members) ==
    IF \/ Len(members) > MaxMembers
       \/ \E i, j \in DOMAIN members : i # j /\ members[i].range = members[j].range
    THEN "invalid" ELSE "present"

(* CompiledLanguagePolicy::new *)
LanguagePolicyValid(p) == p.allow # {} \/ p.deny # {}

MatchesRule(rule, preference) ==
    (preference.range # Wild \/ rule = Wild) /\ BasicFilter(rule, preference.range)

(* CompiledLanguagePolicy::allows *)
Highest(members) == IF members = <<>> THEN 0 ELSE Max({members[i].quality : i \in DOMAIN members})
SelectedMembers(p, members) ==
    {members[i] : i \in {k \in DOMAIN members :
        /\ members[k].quality > 0
        /\ p.mode = "any" \/ members[k].quality = Highest(members)}}
LanguageAllows(p, header) ==
    IF ~p.enforce THEN "allowed"
    ELSE IF header.missing THEN (IF p.onMissing = "allow" THEN "allowed" ELSE "denied")
    ELSE IF ParseLanguage(header.members) = "invalid" THEN "invalid"
    ELSE LET chosen == SelectedMembers(p, header.members)
             hit(rules) == \E r \in rules, m \in chosen : MatchesRule(r, m)
         IN  IF Highest(header.members) # 0 /\ ~hit(p.deny) /\ (p.allow = {} \/ hit(p.allow))
             THEN "allowed" ELSE "denied"

LanguagePolicies ==
    {p \in [mode : {"any", "preferred"}, onMissing : {"allow", "deny"}, enforce : BOOLEAN,
            allow : kSubset(1, LanguageRanges) \union {{}}, deny : kSubset(1, LanguageRanges) \union {{}}] :
        LanguagePolicyValid(p)}
Preferences == [range : LanguageRanges, quality : 0 .. MaxQuality]
Headers ==
    [missing : {FALSE}, members : UNION {[1 .. n -> Preferences] : n \in 0 .. MaxMembers}]
        \union {[missing |-> TRUE, members |-> <<>>]}

JudgeLanguage ==
    \E p \in LanguagePolicies, h \in Headers :
        judgement' = [kind |-> "language", policy |-> p, header |-> h, verdict |-> LanguageAllows(p, h)]

-----------------------------------------------------------------------------
(* country_policy.rs: Policy::compile and CompiledCountryPolicy *)
CountryPolicyValid(p) ==
    /\ p.allow # {} \/ p.deny # {}
    /\ p.allow # {} => p.onUnknown = "deny"
(* Observation::validate *)
ObservationValid(o) ==
    CASE o.state \in {"not_checked", "not_configured"} -> ~o.known /\ ~o.generation /\ ~o.error
      [] o.state = "known" -> o.known /\ o.generation /\ ~o.error
      [] o.state = "unknown" -> ~o.known /\ o.generation /\ ~o.error
      [] OTHER -> ~o.known /\ o.error
(* policy_country, evaluate_code and the route's decision in proxy.rs *)
CountryDecision(p, o) ==
    IF ~p.enforce THEN "allowed"
    ELSE IF ~ObservationValid(o) \/ o.state \notin {"known", "unknown"} THEN "unavailable"
    ELSE IF o.state = "unknown" THEN (IF p.onUnknown = "allow" THEN "allowed" ELSE "denied")
    ELSE IF o.country \notin p.deny /\ (p.allow = {} \/ o.country \in p.allow)
    THEN "allowed" ELSE "denied"

CountryPolicies ==
    {p \in [allow : SUBSET Codes, deny : SUBSET Codes, onUnknown : {"allow", "deny"}, enforce : BOOLEAN] :
        CountryPolicyValid(p)}
Observations ==
    [state : {"not_checked", "not_configured", "known", "unknown", "unavailable"}, country : Codes,
     known : BOOLEAN, generation : BOOLEAN, error : BOOLEAN]
JudgeCountry ==
    \E p \in CountryPolicies, o \in Observations :
        judgement' = [kind |-> "country", policy |-> p, seen |-> o, verdict |-> CountryDecision(p, o)]

-----------------------------------------------------------------------------
(* path_csrf.rs.  A header is absent, given twice, unreadable, "null" or a *)
(* site; the destination is the verified authority.                        *)
Absent == [given |-> "absent"]
Site(s) == [given |-> "site", site |-> s]
OriginHeaders == {Absent, [given |-> "twice"], [given |-> "bad"], [given |-> "null"]}
                    \union {Site(s) : s \in Sites}
(* source: Origin decides, Referer only without one; either must be readable *)
SourceOf(origin, referer) ==
    IF "twice" \in {origin.given, referer.given} \/ referer.given \in {"bad", "null"} THEN [given |-> "bad"]
    ELSE IF origin.given # "absent" THEN origin
    ELSE referer

DefaultPort(scheme) == IF scheme = "https" THEN 443 ELSE 80
(* A port of the authority wins over the verified explicit port *)
Destination(d) ==
    [scheme |-> d.scheme, host |-> d.host,
     port |-> CASE d.port # 0 -> d.port
                [] d.port = 0 /\ d.forwarded # 0 -> d.forwarded
                [] OTHER -> DefaultPort(d.scheme)]
RuleVerdict(rule, src, dest) ==
    CASE src.given = "bad" -> 400
      [] src.given = "absent" -> IF rule.missing THEN 200 ELSE 403
      [] src.given = "null" -> 403
      [] OTHER -> IF src.site \in rule.allowed \/ (rule.same /\ src.site = Destination(dest))
                  THEN 200 ELSE 403
(* check: the first rule that refuses *)
CheckCsrf(rules, src, dest) ==
    LET refusing == {i \in DOMAIN rules : rules[i].selects /\ RuleVerdict(rules[i], src, dest) # 200}
    IN  IF refusing = {} THEN 200 ELSE RuleVerdict(rules[Min(refusing)], src, dest)

CsrfRules ==
    {r \in [selects : BOOLEAN, allowed : kSubset(1, Sites) \union {{}}, same : BOOLEAN, missing : BOOLEAN] :
        r.same \/ r.allowed # {}}
Destinations == {[scheme |-> s.scheme, host |-> s.host, port |-> p, forwarded |-> f] :
                    s \in Sites, p \in {0, 8443}, f \in {0, 8443}}
JudgeCsrf ==
    \E a, b \in CsrfRules, o, r \in OriginHeaders, d \in Destinations :
        judgement' = [kind |-> "csrf", rules |-> <<a, b>>, origin |-> o, referer |-> r, dest |-> d,
                 verdict |-> CheckCsrf(<<a, b>>, SourceOf(o, r), d)]

-----------------------------------------------------------------------------
(* basic_auth.rs.  A credential: [name, scheme, salt, hash, identity]. *)
Zero == <<>>
Hashed(scheme, salt, password) == <<scheme, salt, password>>
Credential(name, scheme, salt, password) ==
    [name |-> name, scheme |-> scheme, salt |-> salt, hash |-> Hashed(scheme, salt, password),
     identity |-> name]

(* verify_credentials scans them all and keeps what matched, per scheme *)
ScanStart ==
    [matched |-> FALSE, index |-> 1,
     sha256 |-> [selected |-> FALSE, salt |-> 0, expected |-> Zero],
     sha1 |-> [selected |-> FALSE, salt |-> 0, expected |-> Zero]]
Scanned(creds, name) ==
    FoldLeft(LAMBDA scan, i :
                IF creds[i].name # name THEN scan
                ELSE [scan EXCEPT !.matched = TRUE, !.index = i,
                         ![creds[i].scheme] = [selected |-> TRUE, salt |-> creds[i].salt,
                                               expected |-> creds[i].hash]],
             ScanStart, [i \in 1 .. Len(creds) |-> i])
VerifyCredentials(creds, name, password) ==
    LET scan == Scanned(creds, name)
        good(scheme) == /\ scan[scheme].selected
                        /\ Hashed(scheme, scan[scheme].salt, password) = scan[scheme].expected
    IN  [known |-> scan.matched,
         user |-> IF scan.matched /\ (good("sha256") \/ good("sha1")) THEN name ELSE "nobody",
         identity |-> IF scan.matched THEN creds[scan.index].identity ELSE "nobody"]

(* verify, verify_with_proxy: a known name in Proxy-Authorization is final *)
VerifyBasic(creds, acceptProxy, proxy, authorization) ==
    LET tried(header) == IF header.given = "basic" THEN VerifyCredentials(creds, header.name, header.password)
                         ELSE [known |-> FALSE, user |-> "nobody", identity |-> "nobody"]
    IN  IF acceptProxy /\ tried(proxy).known THEN tried(proxy) ELSE tried(authorization)

(* credential_metadata: configuration refuses two credentials of one name *)
CredentialsValid(creds) == \A i, j \in DOMAIN creds : creds[i].name = creds[j].name => i = j
CredentialLists ==
    LET one == {Credential(n, s, 1, p) : n \in Names, s \in {"sha256", "sha1"}, p \in Passwords}
    IN  {c \in UNION {[1 .. k -> one] : k \in 1 .. 2} : CredentialsValid(c)}
AuthHeaders == {Absent} \union
    {[given |-> "basic", name |-> n, password |-> p] : n \in Names \union {"other"}, p \in Passwords}
JudgeBasic ==
    \E c \in CredentialLists, a \in BOOLEAN, x, y \in AuthHeaders :
        judgement' = [kind |-> "basic", creds |-> c, accept |-> a, proxy |-> x, authorization |-> y,
                 verdict |-> VerifyBasic(c, a, x, y)]

-----------------------------------------------------------------------------
(* resource_policy.rs: ResourcePolicy::allows.  An external subject is a   *)
(* list of header values, of which there must be exactly one.              *)
ResourceAllows(p, source, subjects, method) ==
    /\ p.source = source /\ Len(subjects) = 1
    /\ subjects[1] # "listed" \/ source # "external"   \* valid_subject: no comma
    /\ \E rule \in p.allow : subjects[1] \in rule.subjects /\ rule.methods \intersect {"any", method} # {}
AllowRules == [subjects : kSubset(1, Names \union {"listed"}), methods : {{"any"}, {"GET"}}]
JudgeResource ==
    \E s, t \in {"basic", "jwt", "external"}, allow \in kSubset(1, AllowRules) \union {{}},
       who \in UNION {[1 .. n -> Names \union {"listed"}] : n \in 0 .. 2}, m \in {"GET", "PUT"} :
        judgement' = [kind |-> "resource", policy |-> [source |-> s, allow |-> allow], source |-> t,
                 subjects |-> who, method |-> m,
                 verdict |-> ResourceAllows([source |-> s, allow |-> allow], t, who, m)]

(* canonical_path *)
PathBytes == {"/", ".", "a", "/e", ".e", "ae", "%e"}
Escaped(b) == b \in {"/e", ".e", "ae", "%e"}
Decoded(b) == CASE b = "/e" -> "/" [] b = ".e" -> "." [] b = "ae" -> "a" [] b = "%e" -> "%" [] OTHER -> b
SegmentsOf(p) ==
    LET cuts == SetToSortSeq({i \in DOMAIN p : p[i] = "/"}, <)
        upto(k) == IF k = Len(cuts) THEN Len(p) ELSE cuts[k + 1] - 1
    IN  [k \in DOMAIN cuts |-> SubSeq(p, cuts[k] + 1, upto(k))]
CanonicalPath(p) ==
    LET out == [i \in DOMAIN p |-> Decoded(p[i])]
        segments == SegmentsOf(out)
    IN  IF \/ Head(p) # "/"
           \/ \E i \in DOMAIN p : out[i] = "%" \/ (out[i] = "/" /\ Escaped(p[i]))
           \/ \E k \in DOMAIN segments : segments[k] \in {<<".">>, <<".", ".">>}
           \/ \E k \in 1 .. Len(segments) - 1 : segments[k] = <<>>
        THEN <<>> ELSE out
JudgePath ==
    \E n \in 1 .. MaxPath : \E p \in [1 .. n -> PathBytes] :
        judgement' = [kind |-> "path", path |-> p, verdict |-> CanonicalPath(p)]

-----------------------------------------------------------------------------
GateInit == judgement = [kind |-> "none"]
GateNext ==
    /\ judgement.kind = "none"
    /\ JudgeLanguage \/ JudgeCountry \/ JudgeCsrf \/ JudgeBasic \/ JudgeResource \/ JudgePath

(* What the decisions promise, whatever the request claims.  A language    *)
(* policy admits no header without a positive preference, does not depend  *)
(* on the order of preferences, admits no more when a rule is denied, and  *)
(* by a named allow rule only somebody who named that language.  A         *)
(* database that could not be asked is never an unknown country.  With     *)
(* several rules a request passes only if each would pass it alone, "null" *)
(* never passes and a Referer never replaces an Origin.  A user is         *)
(* authenticated by that user's own password and gets that user's          *)
(* identity; a known name with a wrong password is final.  A principal of  *)
(* another source has no permission, and a path that is decoded once more  *)
(* stays as it is.                                                         *)
(* (CompiledLanguagePolicy::allows, CompiledCountryPolicy::evaluate_code,  *)
(* path_csrf::check, verify_with_proxy, ResourcePolicy::allows,            *)
(* canonical_path)                                                         *)
DecisionsSound ==
    /\ judgement.kind = "language" =>
          LET p == judgement.policy  h == judgement.header
              named == {m \in ToSet(h.members) : m.quality > 0 /\ m.range # Wild}
          IN  /\ judgement.verdict = LanguageAllows(p, [h EXCEPT !.members = Reverse(h.members)])
              /\ judgement.verdict = "allowed" /\ p.enforce =>
                    /\ ~h.missing => \E i \in DOMAIN h.members : h.members[i].quality > 0
                    /\ p.deny = {} \/ LanguageAllows([p EXCEPT !.deny = {}, !.allow = p.allow], h) = "allowed"
                    /\ ~h.missing /\ p.allow # {} /\ Wild \notin p.allow =>
                          \E m \in named, r \in p.allow : IsPrefix(r, m.range)
    /\ judgement.kind = "country" /\ judgement.policy.enforce /\ judgement.verdict = "allowed" =>
          /\ judgement.seen.state \in {"known", "unknown"}
          /\ ~judgement.seen.error /\ judgement.seen.generation
          /\ judgement.policy.allow # {} =>
                judgement.seen.known /\ judgement.seen.country \in judgement.policy.allow
    /\ judgement.kind = "csrf" =>
          LET alone(i) == CheckCsrf(<<judgement.rules[i]>>,
                                  SourceOf(judgement.origin, judgement.referer), judgement.dest)
          IN  /\ (judgement.verdict = 200) = (alone(1) = 200 /\ alone(2) = 200)
              /\ judgement.verdict = 200 /\ (\E i \in 1 .. 2 : judgement.rules[i].selects) =>
                    /\ judgement.origin.given # "null"
                    /\ judgement.origin.given = "site" =>
                          judgement.origin.site \in UNION {judgement.rules[i].allowed : i \in 1 .. 2}
                              \union {Destination(judgement.dest)}
    /\ judgement.kind = "basic" /\ judgement.verdict.user # "nobody" =>
          \E i \in DOMAIN judgement.creds, h \in {judgement.proxy, judgement.authorization} :
              /\ h.given = "basic" /\ h.name = judgement.verdict.user /\ judgement.creds[i].name = h.name
              /\ judgement.creds[i].hash[3] = h.password
              /\ judgement.verdict.identity = judgement.creds[i].identity
              /\ h # judgement.proxy /\ judgement.accept /\ judgement.proxy.given = "basic" =>
                    \A k \in DOMAIN judgement.creds : judgement.creds[k].name # judgement.proxy.name
    /\ judgement.kind = "resource" /\ judgement.verdict =>
          /\ judgement.source = judgement.policy.source
          /\ \A k \in DOMAIN judgement.subjects :
                \E rule \in judgement.policy.allow : judgement.subjects[k] \in rule.subjects
    /\ judgement.kind = "path" /\ judgement.verdict # <<>> =>
        CanonicalPath(judgement.verdict) = judgement.verdict
=============================================================================
