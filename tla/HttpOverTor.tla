----------------------------- MODULE HttpOverTor ----------------------------
(***************************************************************************)
(* torbrowser_driver/_http_over_tor_primitives.py: one call of             *)
(* tor_http_request, or of tor_http_sequence with its entries, against     *)
(* servers that set cookies, redirect anywhere, or do not answer.          *)
(***************************************************************************)
EXTENDS Integers, Sequences

CONSTANTS
    Hosts,          \* hosts that URLs name
    Cookies,        \* cookie names
    Values,         \* cookie values
    NoValue,        \* a cookie that is not set
    MaxRedirects,   \* _MAX_REDIRECTS
    MaxEntries,     \* bound: entries of a sequence
    BodyCap,        \* max_response_bytes of a request, which may be below zero
    BodySizes       \* sizes of responses

ASSUME HostsAssumption == Hosts # {}
ASSUME NoValueAssumption == NoValue \notin Values
ASSUME RedirectsAssumption == MaxRedirects \in Nat /\ MaxEntries \in Nat \ {0}
ASSUME BodiesAssumption == BodyCap \in Int /\ BodySizes \subseteq Nat

OwnCookies == {"absent", "empty", "given"}

VARIABLES
    http,           \* where the call is
    single,         \* it is a tor_http_request
    hasJar,         \* the jar is a dict and not None
    jar,            \* host -> cookie -> value
    ownCookie,      \* the Cookie among the entry's headers
    start, current, \* the host of the entry's URL, and of the hop at hand
    chain,          \* redirect_chain, as hosts
    sent,           \* the Cookie header of the hop
    results,        \* what the entries gave
    written,        \* the body in the file named by "filename"
    latest          \* history: the value each host last set, or the browser had

httpVars == <<http, single, hasJar, jar, ownCookie, start, current, chain, sent, results,
              written, latest>>

Jars == [Hosts -> [Cookies -> Values \cup {NoValue}]]
EmptyJar == [h \in Hosts |-> [c \in Cookies |-> NoValue]]
Bodies == {"text", "otherText", "binary"}   \* UTF-8, text in another encoding, no text

\* Every variable has its type.
HttpTypeOK ==
    /\ http \in {"idle", "entry", "hop", "answer", "done", "failed"}
    /\ single \in BOOLEAN /\ hasJar \in BOOLEAN /\ ownCookie \in OwnCookies
    /\ jar \in Jars /\ latest \in Jars
    /\ start \in Hosts /\ current \in Hosts
    /\ chain \in Seq(Hosts)
    /\ sent \in {"none", "own", "jar"}
    /\ results \in Seq([url : Hosts, from : Hosts, chain : Seq(Hosts), size : BodySizes,
                        bytes : Nat, truncated : BOOLEAN, body : Bodies])
    /\ Len(results) \in 0..MaxEntries
    /\ written \in {"nothing", "raw", "altered"}

FirstHost == CHOOSE h \in Hosts : TRUE

HttpInit ==
    /\ http = "idle" /\ single = TRUE /\ hasJar = FALSE /\ ownCookie = "absent"
    /\ jar = EmptyJar /\ latest = EmptyJar
    /\ start = FirstHost /\ current = FirstHost
    /\ chain = <<>> /\ sent = "none" /\ results = <<>> /\ written = "nothing"

\* The call begins.  A request has a jar only for the browser's cookies, a sequence
\* when cookie_jar is set; driver.get_cookies() may raise, and there are none then.
BeginHttp ==
    /\ http = "idle"
    /\ http' = "entry"
    /\ single' \in BOOLEAN
    /\ \E cookieJar, useBrowser \in BOOLEAN, held \in {EmptyJar} \cup Jars :
          /\ hasJar' = IF single' THEN useBrowser ELSE cookieJar
          /\ (useBrowser /\ hasJar') \/ held = EmptyJar
          /\ jar' = held /\ latest' = held
    /\ UNCHANGED <<ownCookie, start, current, chain, sent, results, written>>

\* The next entry, whose URL and method are accepted or end the call.
TakeEntry ==
    /\ http = "entry" /\ Len(results) < IF single THEN 1 ELSE MaxEntries
    /\ \/ /\ http' = "hop"
          /\ start' \in Hosts /\ current' = start'
          /\ ownCookie' \in OwnCookies
       \/ /\ http' = "failed"
          /\ UNCHANGED <<start, current, ownCookie>>
    /\ chain' = <<>>
    /\ UNCHANGED <<single, hasJar, jar, sent, results, written, latest>>

\* _cookie_header_from_jar: no header when the host has no cookie.
JarHas(h) == hasJar /\ \E c \in Cookies : jar[h][c] # NoValue

\* manager.request(): the Cookie header of the headers, or of the jar; it may raise.  An
\* empty Cookie among the headers is not sent, and keeps the jar's from being sent.
Hop ==
    /\ http = "hop"
    /\ http' \in {"answer", "failed"}
    /\ sent' = CASE ownCookie = "given" -> "own"
                 [] ownCookie = "absent" /\ JarHas(current) -> "jar"
                 [] OTHER -> "none"
    /\ UNCHANGED <<single, hasJar, jar, ownCookie, start, current, chain, results, written, latest>>

\* Mutant: the cookies of a redirect are kept for the host it leads to.
MergeTo(held, h, set, next) ==
    [held EXCEPT ![next] = [c \in Cookies |-> IF set[c] = NoValue THEN @[c] ELSE set[c]]]

\* The Set-Cookie headers of a response from h, whatever its status; the last one
\* of a name wins.
Merge(held, h, set, next) ==
    [held EXCEPT ![h] = [c \in Cookies |-> IF set[c] = NoValue THEN @[c] ELSE set[c]]]

SetCookies(set, next) ==
    /\ jar' = IF hasJar THEN Merge(jar, current, set, next) ELSE jar
    /\ latest' = [latest EXCEPT ![current] =
                    [c \in Cookies |-> IF set[c] = NoValue THEN @[c] ELSE set[c]]]

\* Mutant: one redirect too many is followed.
MayFollowOneMore == Len(chain) <= MaxRedirects + 1

MayFollow == Len(chain) < MaxRedirects

\* A redirect: refused unless it leads to http or https; the last hop of the loop
\* ends the call, and with it what earlier entries gave.
Redirected(next) ==
    /\ http = "answer"
    /\ \E set \in [Cookies -> Values \cup {NoValue}] : SetCookies(set, next)
    /\ \/ /\ MayFollow
          /\ http' = "hop"
          /\ chain' = Append(chain, next) /\ current' = next
       \/ /\ http' = "failed"
          /\ UNCHANGED <<chain, current>>
    /\ UNCHANGED <<single, hasJar, ownCookie, start, sent, results, written>>

Least(a, b) == IF a < b THEN a ELSE b

\* _serialise_response reads the cap and one byte more.
ReadBody(size) ==
    LET cap == IF BodyCap < 0 THEN 0 ELSE BodyCap
        read == Least(size, cap + 1)
    IN [bytes |-> Least(read, cap), truncated |-> read > cap]

\* Any other response ends the entry.
Answered(size, body) ==
    /\ http = "answer"
    /\ \E set \in [Cookies -> Values \cup {NoValue}] : SetCookies(set, current)
    /\ http' = "entry"
    /\ results' = Append(results,
          [url |-> current, from |-> start, chain |-> chain, size |-> size, body |-> body,
           bytes |-> ReadBody(size).bytes, truncated |-> ReadBody(size).truncated])
    /\ UNCHANGED <<single, hasJar, ownCookie, start, current, chain, sent, written>>

\* The answer, inline or in a file.  A request's file gets the body as it was packed
\* for the answer: text that is not UTF-8 has been decoded with replacements.
FinishHttp ==
    /\ http = "entry"
    /\ single => Len(results) = 1
    /\ http' = "done"
    /\ \/ UNCHANGED written
       \/ /\ single
          /\ written' = IF results[1].body = "otherText" THEN "altered" ELSE "raw"
    /\ UNCHANGED <<single, hasJar, jar, ownCookie, start, current, chain, sent, results, latest>>

HttpNext ==
    \/ BeginHttp \/ TakeEntry \/ Hop
    \/ \E h \in Hosts : Redirected(h)
    \/ \E size \in BodySizes, body \in Bodies : Answered(size, body)
    \/ FinishHttp

-----------------------------------------------------------------------------
(* Properties                                                              *)

\* A Cookie header taken from the jar carries what that very host last set, in any
\* hop of any entry, or the browser held for it, and all of it; a Cookie among the
\* headers, if only an empty one, keeps it from every hop of its entry.
CookiesGoToWhoSetThem ==
    http = "answer" =>
       /\ sent = "own" <=> ownCookie = "given"
       /\ sent = "jar" => ownCookie = "absent" /\ jar[current] = latest[current]
       /\ sent = "none" => ownCookie = "empty" \/ ~hasJar \/ \A c \in Cookies : latest[current][c] = NoValue

\* No more than MaxRedirects redirects are followed for an entry, and its answer
\* names the end of the chain that led to it.
ChainIsHonest ==
    /\ Len(chain) <= MaxRedirects
    /\ \A i \in DOMAIN results :
          LET r == results[i] IN
          /\ Len(r.chain) <= MaxRedirects
          /\ r.url = IF r.chain = <<>> THEN r.from ELSE r.chain[Len(r.chain)]

\* A body is never longer than its cap, and "truncated" says exactly that there was
\* more of it, also at the cap itself and with a cap of zero or less.
TruncationIsHonest ==
    \A i \in DOMAIN results :
       LET r == results[i] IN
       /\ r.truncated <=> r.size > r.bytes
       /\ r.truncated => r.bytes = IF BodyCap < 0 THEN 0 ELSE BodyCap

\* An answer tells what was followed to reach it and what of it was cut off.
HttpAnswersAreHonest == ChainIsHonest /\ TruncationIsHonest
=============================================================================
