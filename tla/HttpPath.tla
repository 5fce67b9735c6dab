------------------------------- MODULE HttpPath -------------------------------
(***************************************************************************)
(* The HTTP side of a fetch and its cookie jar: which jar it may use       *)
(* (cookie_jar_resolve.rs), what it sends (request_opts.rs), the redirects *)
(* it follows itself while storing what each hop sets (http_only.rs,       *)
(* cookie_jar.rs), when it goes on to the browser (pipeline/mod.rs) and    *)
(* what comes back from there into the jar.  Servers answer as they like,  *)
(* and another fetch of the profile stores cookies at any time.            *)
(***************************************************************************)
EXTENDS Naturals, FiniteSets

CONSTANTS Hosts,     \* host names and cookie domains
          Up,        \* Up[h]: h and its parent domains
          Suffixes,  \* domains under which names belong to unrelated owners
          Addresses, \* hosts that are IP addresses
          Urls,      \* the URLs there are: [scheme, host, path]
          PathUp,    \* PathUp[p]: the cookie paths that cover p
          Dir,       \* Dir[p]: default_path of p
          Settings,  \* builders, each with a client and its host: [caller, client]
          Offers,    \* cookies a response may set: [name, domain, path, secure, gone]
          Jars,      \* what a jar may hold before
          MaxHops,   \* 10 in the source
          MaxOthers, \* bound on cookies other fetches store
          MaxBody    \* bound on the length of a body

None == "none"

ASSUME HopsAssumption == MaxHops \in Nat /\ MaxOthers \in Nat /\ MaxBody \in Nat
ASSUME DomainsAssumption == \A h \in Hosts : h \in Up[h] /\ Up[h] \subseteq Hosts

\* What a URL and a builder are, and that the caller is no host.
ASSUME UrlsAssumption == \A u \in Urls : u.host \in Hosts
ASSUME CallerAssumption == "caller" \notin Hosts
ASSUME SettingsAssumption ==
  \A s \in Settings : /\ s.caller.url \in Urls
                      /\ s.caller.render \in {"none", "auto", "always"}
                      /\ \A c \in s.caller.cookies : c.by = "caller"
ASSUME OffersAssumption == \A o \in Offers : o.domain \in Hosts \cup {None}

\* Whoever set a stored cookie was allowed to: a host for itself, or for a domain of
\* its own that is nobody else's.
Lawful(e) ==
  /\ e.by \in Hosts /\ e.domain \in Hosts
  /\ IF e.hostOnly THEN e.domain = e.by ELSE e.domain \in Up[e.by] \ Suffixes
ASSUME JarsAssumption == \A j \in Jars : \A e \in j : Lawful(e)

VARIABLES
  caller, client, httpPc,
  jarPath,   \* builder.cookie_jar.path: None, a profile (its own jar) or another path
  knew,      \* the active profile, if the host has told
  served,    \* the profile whose browser runs the page
  jar,       \* what is stored there
  opts,      \* options: what is left of the caller's after the redirects so far
  url, hop,
  resp,      \* the answer to this hop
  snapshot,  \* the jar as loaded before a merge
  body,      \* bytes due and stored, the cap, and whether it was reached
  wire,      \* the request that waits for its answer
  sent,      \* whether there has been one
  injected, browser,  \* the snapshot a browser fetch installed; the browser's cookies
  got,       \* what Network.getCookies answered
  others,
  left,      \* a redirect has left the origin asked for
  ended

jars == <<jar, snapshot, others>>
pageside == <<injected, browser, got>>
request == <<opts, url, hop, wire, sent, left>>
fixed == <<caller, client, knew, served>>
httpVars == <<fixed, httpPc, jarPath, jars, request, resp, body, pageside, ended>>

Origin(u) == <<u.scheme, u.host>>
DomainMatches(d, h) == d \in Up[h]
PathMatches(p, q) == p \in PathUp[q]

Entry(name, domain, hostOnly, path, secure, by, val) ==
  [name |-> name, domain |-> domain, hostOnly |-> hostOnly, path |-> path,
   secure |-> secure, by |-> by, val |-> val]

\* What the caller's own cookies look like: no one set them.
Own(c) == c.by = "caller"

NoUrl == [scheme |-> None, host |-> None, path |-> None]
BadUrl == [NoUrl EXCEPT !.scheme = "bad"]  \* a location that is no http(s) URL
NoOffer == [name |-> None, domain |-> None, path |-> None, secure |-> FALSE, gone |-> FALSE]
NoAnswer == [status |-> 0, to |-> NoUrl, sets |-> NoOffer]
NoBody == [due |-> 0, stored |-> 0, cap |-> 0, cut |-> FALSE]
NoWire == [url |-> NoUrl, headers |-> {}, cookies |-> {}, method |-> None, body |-> None]

HttpInit ==
  /\ \E s \in Settings : caller = s.caller /\ client = s.client
  /\ httpPc = "resolve"
  /\ jarPath = caller.jar
  /\ knew = None /\ served = None
  /\ jar \in Jars
  /\ opts = [headers |-> {}, cookies |-> {}, method |-> None, body |-> None]
  /\ url = caller.url
  /\ hop = 0
  /\ resp = NoAnswer
  /\ snapshot = {}
  /\ body = NoBody
  /\ wire = NoWire /\ sent = FALSE
  /\ injected = {} /\ browser = {} /\ got = {}
  /\ others = 0
  /\ left = FALSE
  /\ ended = None

Ends(how) == httpPc' = "over" /\ ended' = how
Goes(to) == httpPc' = to /\ UNCHANGED ended

-------------------------------------------------------------------------------
(* Which jar.                                                              *)

\* Resolution needs no host: the jar is off, there is no host, or it is not started.
asksNobody == client.kind = "hostless" \/ (client.kind = "inline" /\ ~client.started)

\* A jar that is named must be the active profile's.
IsTheProfiles(path) == path = client.active

\* The paths it may end with; none, if the one named is refused.
resolved ==
  IF caller.noJar THEN {None}
  ELSE IF asksNobody \/ ~client.info THEN {jarPath}
  ELSE IF jarPath # None THEN {p \in {jarPath} : IsTheProfiles(p)}
  ELSE {IF client.kind = "inline" /\ client.local THEN client.active ELSE None}

asked == IF caller.noJar \/ asksNobody \/ ~client.info THEN None ELSE client.active

ResolvesJar ==
  /\ httpPc = "resolve"
  /\ knew' = asked
  /\ \/ jarPath' \in resolved /\ Goes("prepare")
     \/ resolved = {} /\ Ends("invalid") /\ UNCHANGED jarPath
  /\ UNCHANGED <<caller, client, served, jars, request, resp, body, pageside>>

-------------------------------------------------------------------------------
(* What the caller asked for.                                              *)

resendable == caller.method \in {"GET", "HEAD"}

conflicting ==
  \/ caller.userAgents > 1 \/ caller.rawCookies > 1
  \/ (caller.rawCookies > 0 /\ caller.cookies # {})
  \/ caller.body = "both"

\* A raw Cookie header is a cookie that goes wherever the header goes.
rawCookie == Entry("sid", None, FALSE, None, FALSE, "caller", "own")

\* Refused before anything is sent.
refusedUnsent ==
  caller.evaluate /\ (caller.render = "none" \/ (caller.render = "auto" /\ ~resendable))

AsAsked == [headers |-> caller.headers,
            cookies |-> IF caller.rawCookies = 1 THEN {rawCookie} ELSE caller.cookies,
            method |-> caller.method, body |-> caller.body]

Prepares ==
  /\ httpPc = "prepare"
  /\ IF conflicting THEN Ends("invalid") /\ UNCHANGED opts
     ELSE /\ opts' = AsAsked
          /\ IF refusedUnsent THEN Ends("refused")
             ELSE Goes(IF caller.render = "always" THEN "browser" ELSE "client")
  /\ UNCHANGED <<fixed, jarPath, jars, url, hop, wire, sent, left, resp, body, pageside>>

-------------------------------------------------------------------------------
(* The jar's rules.                                                        *)

OfOffer(o, u, val) ==
  Entry(o.name, IF o.domain = None THEN u.host ELSE o.domain, o.domain = None,
        IF o.path = None THEN Dir[u.path] ELSE o.path, o.secure, u.host, val)

SameIdentity(c, d) == c.name = d.name /\ c.domain = d.domain /\ c.path = d.path

MaySetDomain(domain, h) ==
  domain # None => h \notin Addresses /\ domain \notin Suffixes /\ DomainMatches(domain, h)

PlaintextMay(held, o, u) ==
  u.scheme # "https" => ~o.secure /\ ~\E e \in held : e.secure /\ SameIdentity(e, OfOffer(o, u, None))

Accepts(held, o, u) == MaySetDomain(o.domain, u.host) /\ PlaintextMay(held, o, u)

\* Putting an entry on top of what is on disk; a deletion only takes away.
Put(onDisk, e, gone) ==
  {d \in onDisk : ~SameIdentity(d, e)} \cup (IF gone THEN {} ELSE {e})

DomainOf(e) == IF e.hostOnly THEN None ELSE e.domain

AppliesTo(e, u) ==
  /\ e.secure => u.scheme = "https"
  /\ IF e.hostOnly THEN e.domain = u.host ELSE DomainMatches(e.domain, u.host)
  /\ PathMatches(e.path, u.path)

applicable_cookies(u) == {e \in jar : AppliesTo(e, u)}

\* The jar's cookies under the caller's own.
merge_jar_cookies(mine, extra) ==
  mine \cup {e \in extra : \A c \in mine : c.name # e.name}

InScope(c, u) ==
  /\ (DomainOf(c) # None) => DomainMatches(DomainOf(c), u.host)
  /\ (c.path # None) => PathMatches(c.path, u.path)

-------------------------------------------------------------------------------
(* The HTTP attempt.                                                       *)

ownClient == caller.proxied \/ jarPath # None

\* A client of this fetch's own may not come to be.
BuildsClient ==
  /\ httpPc = "client"
  /\ \/ Goes("send")
     \/ ownClient /\ caller.proxied /\ Ends("invalid")
  /\ UNCHANGED <<fixed, jarPath, jars, request, resp, body, pageside>>

merged == IF jarPath = None THEN opts.cookies
          ELSE merge_jar_cookies(opts.cookies, applicable_cookies(url))

\* A redirect drops cookies that do not apply; the first hop refuses them.
hopCookies == IF hop = 0 THEN merged ELSE {c \in merged : InScope(c, url)}

SendsHop ==
  /\ httpPc = "send"
  /\ \/ /\ \A c \in hopCookies : InScope(c, url)
        /\ wire' = [url |-> url, headers |-> opts.headers, method |-> opts.method,
                    body |-> opts.body,
                    cookies |-> {c \in hopCookies : c.secure => url.scheme = "https"}]
        /\ sent' = TRUE
        /\ Goes("answer")
     \/ /\ \E c \in hopCookies : ~InScope(c, url)
        /\ Ends("invalid") /\ UNCHANGED <<wire, sent>>
  /\ UNCHANGED <<fixed, jarPath, jars, opts, url, hop, left, resp, body, pageside>>

Redirects == {302, 303, 307}
Locations == Urls \cup {NoUrl, BadUrl}

\* Without a jar reqwest has followed the redirects itself.
Answers ==
  /\ httpPc = "answer"
  /\ \E status \in {200, 404} \cup Redirects, sets \in Offers \cup {NoOffer} :
       /\ \E to \in IF status \in Redirects THEN Locations ELSE {NoUrl} :
            /\ jarPath = None => to = NoUrl /\ sets = NoOffer
            /\ resp' = [status |-> status, to |-> to, sets |-> sets]
       /\ Goes(IF jarPath # None /\ sets # NoOffer THEN "load" ELSE "route")
  /\ wire' = NoWire
  /\ UNCHANGED <<fixed, jarPath, jars, opts, url, hop, sent, left, body, pageside>>

\* persist_set_cookies reads the jar, and checks against what it read.
LoadsJar ==
  /\ httpPc = "load"
  /\ snapshot' = jar
  /\ Goes("store")
  /\ UNCHANGED <<fixed, jarPath, jar, others, request, resp, body, pageside>>

StoresCookies ==
  /\ httpPc = "store"
  /\ jar' = IF Accepts(snapshot, resp.sets, url)
            THEN Put(jar, OfOffer(resp.sets, url, "mine"), resp.sets.gone) ELSE jar
  /\ snapshot' = {}
  /\ resp' = [resp EXCEPT !.sets = NoOffer]
  /\ Goes("route")
  /\ UNCHANGED <<fixed, jarPath, others, request, body, pageside>>

OriginScoped == {"authorization", "host", "cookie2"}
AboutTheBody == {"content-type", "content-length"}

redirected == resp.status \in Redirects /\ resp.to # NoUrl
atLimit == hop = MaxHops
\* (Variant: hosts compared, not origins.)
sameHost(u, v) == u.host = v.host
SameOrigin(u, v) == Origin(u) = Origin(v)

turnsToGet(o) ==
  IF (resp.status = 302 /\ o.method = "POST") \/ (resp.status = 303 /\ o.method # "HEAD")
  THEN [o EXCEPT !.method = "GET", !.body = "none", !.headers = @ \ AboutTheBody]
  ELSE o

stripped(o, next) ==
  IF SameOrigin(url, next) THEN o
  ELSE [o EXCEPT !.headers = @ \ OriginScoped, !.cookies = {}]

Follows ==
  /\ httpPc = "route" /\ redirected
  /\ ~atLimit /\ resp.to # BadUrl
  /\ opts' = turnsToGet(stripped(opts, resp.to))
  /\ url' = resp.to
  /\ left' = (left \/ Origin(resp.to) # Origin(caller.url))
  /\ hop' = IF hop = MaxHops THEN hop ELSE hop + 1
  /\ resp' = [resp EXCEPT !.status = 0, !.to = NoUrl]
  /\ Goes("send")
  /\ UNCHANGED <<fixed, jarPath, jars, wire, sent, body, pageside>>

\* The variables of the hops are locals, of no use from here on.
ForgetsHops == url' = caller.url /\ hop' = 0 /\ left' = FALSE /\ opts' = AsAsked

Arrives ==
  /\ httpPc = "route" /\ ~redirected
  /\ \E due \in 0 .. MaxBody, cap \in 0 .. MaxBody :
       body' = [NoBody EXCEPT !.due = due, !.cap = cap]
  /\ Goes("body")
  /\ ForgetsHops
  /\ UNCHANGED <<fixed, jarPath, jars, wire, sent, resp, pageside>>

\* read_body_with_cap: chunk by chunk, keeping what fits.  (Variant: a full
\* buffer is taken for a cut one.)
fullAtCap(n) == body.cap # 0 /\ body.stored + n >= body.cap
PastCap(n) == body.cap # 0 /\ n > body.cap - body.stored

ReadsChunk ==
  /\ httpPc = "body" /\ ~body.cut
  /\ \E n \in 1 .. body.due - body.stored :
       body' = IF PastCap(n) THEN [body EXCEPT !.stored = body.cap, !.cut = TRUE]
               ELSE [body EXCEPT !.stored = @ + n]
  /\ UNCHANGED <<fixed, httpPc, jarPath, jars, request, resp, pageside, ended>>

bodyEnds == body.cut \/ body.stored = body.due

\* The first reason the code looks at wins; all lead to the browser.
escalates(kind) ==
  resp.status >= 400 \/ kind \in {"challenge", "shell"} \/ caller.wantsContent

Judges ==
  /\ httpPc = "body" /\ bodyEnds
  /\ \E kind \in {"page", "challenge", "shell"} :
       IF caller.render = "none" \/ ~resendable THEN Ends("http")
       ELSE IF escalates(kind) THEN Goes("browser")
       ELSE Ends(IF caller.evaluate THEN "refused" ELSE "http")
  /\ resp' = NoAnswer
  /\ body' = IF ended' = "http" THEN body ELSE NoBody
  /\ UNCHANGED <<fixed, jarPath, jars, request, pageside>>

failsAt == {"client", "send", "answer", "load", "store", "body"}
failsRouting == httpPc = "route" /\ redirected /\ (atLimit \/ resp.to = BadUrl)

\* A lost connection, a time limit, an unreadable jar, a bad or late redirect.
\* The blocking write of "store" is abandoned, or finishes all the same.
HttpFails ==
  /\ (httpPc \in failsAt \/ failsRouting)
  /\ IF caller.render = "auto" /\ resendable THEN Goes("browser") ELSE Ends("failed")
  /\ snapshot' = {} /\ wire' = NoWire /\ resp' = NoAnswer /\ body' = NoBody
  /\ ForgetsHops
  /\ UNCHANGED <<fixed, jarPath, jar, others, sent, pageside>>

-------------------------------------------------------------------------------
(* The browser attempt, as far as the jar goes.                            *)

\* An inline host started by now, and its profile's jar is looked up.
startedLate == client.kind = "inline" /\ ~client.started /\ jarPath = None /\ ~caller.noJar

StartsHost ==
  /\ httpPc = "browser" /\ startedLate
  /\ client' = [client EXCEPT !.started = TRUE]
  /\ jarPath' = IF client.info /\ client.local THEN client.active ELSE None
  /\ knew' = IF client.info THEN client.active ELSE None
  /\ UNCHANGED <<caller, served, httpPc, jars, request, resp, body, pageside, ended>>

\* The connection names the profile it wants (cdp_connection), whatever the host
\* said before; apply_browser_request_options refuses cookies out of scope.  The
\* page may end anywhere.
Injects ==
  /\ httpPc = "browser" /\ ~startedLate
  /\ IF \A c \in opts.cookies : InScope(c, caller.url)
     THEN /\ injected' = IF jarPath = None THEN {} ELSE jar
          /\ browser' = IF jarPath = None THEN {} ELSE
                {e \in applicable_cookies(caller.url) : \A c \in opts.cookies : c.name # e.name}
          /\ url' \in Urls
          /\ Goes("page")
     ELSE Ends("invalid") /\ UNCHANGED <<injected, browser, url>>
  /\ served' = IF client.asks = None THEN client.active ELSE client.asks
  /\ UNCHANGED <<caller, client, knew, jarPath, jars, opts, hop, wire, sent, left, resp, body, got>>

\* The page sets a cookie; the browser has checked it.
PageSets ==
  /\ httpPc = "page"
  /\ \E o \in Offers :
       /\ Accepts(browser, o, url) /\ ~o.gone
       /\ browser' = Put(browser, OfOffer(o, url, "page"), FALSE)
       /\ browser' # browser
  /\ UNCHANGED <<fixed, httpPc, jarPath, jars, request, resp, body, injected, got, ended>>

AsksBrowser ==
  /\ httpPc = "page"
  /\ got' = IF jarPath = None THEN {} ELSE {e \in browser : AppliesTo(e, url)}
  /\ Goes("sync")
  /\ UNCHANGED <<fixed, jarPath, jars, request, resp, body, injected, browser>>

\* What the browser still holds unchanged is not written back.  (Variant: it is.)
heldByBrowser == got
changedByPage == got \ injected

\* merge_browser_cookies, onto a jar read after the browser answered.
Syncs ==
  /\ httpPc = "sync"
  /\ LET fresh == {e \in changedByPage : MaySetDomain(DomainOf(e), url.host)}
     IN jar' = {d \in jar : ~\E e \in fresh : SameIdentity(d, e)} \cup fresh
  /\ Ends("browser")
  /\ UNCHANGED <<fixed, jarPath, snapshot, others, request, resp, body, pageside>>

BrowserFails ==
  /\ httpPc \in {"browser", "page", "sync"}
  /\ Ends("failed")
  /\ UNCHANGED <<fixed, jarPath, jars, request, resp, body, pageside>>

\* Another fetch of the profile, anywhere, with the same rules.
OtherFetch ==
  /\ others < MaxOthers /\ httpPc # "over" /\ jarPath # None
  /\ \E o \in Offers, u \in Urls :
       /\ Accepts(jar, o, u)
       /\ jar' = Put(jar, OfOffer(o, u, "other"), o.gone)
  /\ others' = others + 1
  /\ UNCHANGED <<fixed, httpPc, jarPath, snapshot, request, resp, body, pageside, ended>>

Fetches ==
  \/ ResolvesJar \/ Prepares \/ BuildsClient \/ SendsHop \/ Answers
  \/ LoadsJar \/ StoresCookies \/ Follows \/ Arrives \/ ReadsChunk \/ Judges
  \/ HttpFails \/ StartsHost \/ Injects \/ AsksBrowser \/ Syncs \/ BrowserFails

HttpNext == Fetches \/ PageSets \/ OtherFetch

HttpSpec == HttpInit /\ [][HttpNext]_httpVars

-------------------------------------------------------------------------------
(* Properties.                                                             *)

\* Types.
HttpTypeOK ==
  /\ httpPc \in failsAt \cup {"resolve", "prepare", "route", "browser", "page", "sync", "over"}
  /\ url \in Urls /\ hop \in 0 .. MaxHops /\ others \in 0 .. MaxOthers
  /\ \A c \in jar \cup snapshot \cup browser : c.domain \in Hosts /\ c.by \in Hosts
  /\ body.stored \in 0 .. body.due
  /\ ended \in {None, "invalid", "refused", "http", "failed", "browser"}

\* What the caller gave for one origin (credentials in headers, its own cookies) goes
\* to no other, nor back to it by way of another: redirects forget it for good
\* (send_http_response, is_origin_scoped_header).
CredentialsStayHome ==
  (httpPc = "answer" /\ left) =>
    /\ wire.headers \cap OriginScoped = {}
    /\ ~\E c \in wire.cookies : Own(c)

\* A stored cookie is sent where it applies and only within the site that set it,
\* whatever domain the response had named (merge, may_set_domain, applicable_cookies).
SameSite(h, k) == h = k \/ \E d \in Up[h] \cap Up[k] : d \notin Suffixes
CookiesStayInTheirSite ==
  \A c \in wire.cookies : ~Own(c) => AppliesTo(c, wire.url) /\ SameSite(c.by, wire.url.host)

\* A request whose method a redirect has changed is a GET without a body or the
\* headers of one; any other carries what the caller gave it.
ChangedMethodCarriesNoBody ==
  httpPc = "answer" =>
    IF wire.method = caller.method
    THEN wire.body = caller.body \/ (wire.method = "GET" /\ wire.body = "none")
    ELSE wire.method = "GET" /\ wire.body = "none" /\ wire.headers \cap AboutTheBody = {}

\* Whatever redirects do, what is sent is for the one it is sent to
\* (send_http_response).
RedirectsKeepSecrets ==
  CredentialsStayHome /\ CookiesStayInTheirSite /\ ChangedMethodCarriesNoBody

\* A body is called truncated when more of it was on its way than the cap holds, never
\* when it just fits, and what is stored is as much as there is room for.
TruncatedMeansMoreCame ==
  (ended = "http") =>
    /\ body.cut <=> (body.cap # 0 /\ body.due > body.cap)
    /\ body.stored = IF body.cut THEN body.cap ELSE body.due

\* JavaScript the caller wants run is run or refused, and a request that cannot be
\* sent twice is refused before it is sent once (reject_http_only_evaluate).
EvaluateIsRunOrRefused ==
  /\ caller.evaluate => ended # "http"
  /\ (ended = "refused" /\ ~resendable) => ~sent

\* What the caller is told of a fetch that ended over HTTP is so (read_body_with_cap,
\* reject_http_only_evaluate).
ResultsAreHonest == HttpTypeOK /\ TruncatedMeansMoreCame /\ EvaluateIsRunOrRefused

\* Once the host has said whose jar is its profile's, no other is used.
JarIsTheOneTheHostNamed ==
  (knew # None /\ ended # "invalid") => jarPath \in {None, knew}

\* A plaintext response puts no Secure cookie into the jar, and takes none out that
\* was there when the jar was read for the check (merge_response).  The jar it is
\* merged into is a later one: see SecureCookiesSurvivePlaintext.
storesPlaintext == httpPc = "store" /\ httpPc' = "route" /\ url.scheme = "http"
PlaintextSparesSecureCookies ==
  [][storesPlaintext =>
       /\ \A e \in jar' \ jar : ~e.secure
       /\ \A e \in jar \ jar' : e.secure => e \notin snapshot]_httpVars

\* What a browser fetch brings back into the jar is what its page has set: the cookies
\* it was given may have been updated or deleted by others since (holds_unchanged).
\* That may replace a Secure cookie from a plaintext page, which the browser never
\* had: only what it was given has "already been through those rules"
\* (cookie_jar.rs:169).
SyncBringsNothingStale ==
  [][(httpPc = "sync" /\ httpPc' = "over") => \A e \in jar' \ jar : e.val = "page"]_httpVars

\* The jar is the named profile's, and what is written to it passed its rules when
\* it was checked: from a plaintext response, and back from the browser.
JarKeepsItsRules ==
  []JarIsTheOneTheHostNamed /\ PlaintextSparesSecureCookies /\ SyncBringsNothingStale

-------------------------------------------------------------------------------
(* What the documentation says and the code does not do.                   *)

\* "A plaintext http:// response can neither set a Secure cookie nor replace one":
\* none that is in the jar it is written to, whoever put it there and when.
SecureCookiesSurvivePlaintext ==
  [][storesPlaintext => \A e \in jar \ jar' : ~e.secure]_httpVars

===============================================================================
