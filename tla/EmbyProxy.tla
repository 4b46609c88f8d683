----------------------------- MODULE EmbyProxy -----------------------------
(* Playback through the proxy before Emby (service/embyproxy/proxy.go).  The *)
(* answer to a PlaybackInfo is rewritten so that the client comes back to    *)
(* the proxy with the source it wants; HandleMediaStream then sends it to    *)
(* the link that source resolves to, streams the source itself, or leaves    *)
(* the request to Emby.  The links and the sources are remembered for all    *)
(* requests; links only as many as there is room for, in the order of their  *)
(* use.  Of one item, time in ticks; the cache of users, whose identity the  *)
(* key of a link has anyway, is left out.                                    *)
EXTENDS Integers, Sequences, FiniteSets, Functions, SequencesExt

CONSTANTS Clients,       \* devices that play
          Auth,          \* the identity a client shows (authCacheHash), or NoAuth
          Agent,         \* its User-Agent and device headers
          Sources,       \* the versions of the item
          Kind,          \* of a source: "self" (/api/strm), "external" or "local"
          Seek,          \* sources of a format that is always streamed
          MaxPlays,      \* bound: requests for media, numbered as they arrive
          MaxInfos,      \* bound: devices, by their headers, that get a PlaybackInfo
          MaxCacheSize,  \* links the proxy remembers
          CacheTTL,      \* ticks a link is remembered at most
          Margin,        \* ticks before the end of a link's signature it is forgotten
          Floor,         \* ticks it is remembered at least, however short its signature
          Lives,         \* ticks a new signature may last, or have ended; the longest stands for none
          MaxTime        \* bound: ticks that pass
Plays == 1 .. MaxPlays
NoAuth == "none"
AnySource == "any"       \* a request without MediaSourceId
Unknown == "unknown"     \* no source is known yet
EmbyProxyAssumption ==
  /\ DOMAIN Auth = Clients /\ DOMAIN Agent = Clients
  /\ Kind \in [Sources -> {"self", "external", "local"}] /\ Seek \subseteq Sources
  /\ MaxCacheSize \in Nat \ {0} /\ {MaxPlays, MaxInfos, CacheTTL, Margin, Floor, MaxTime} \subseteq Nat
  /\ Lives \subseteq Int /\ \E n \in Lives : \A m \in Lives : m <= n
  /\ Sources \cap {AnySource, Unknown} = {}

VARIABLES
  now,
  play,           \* how far a request has come and what it carries
  given,          \* the redirect a request has just been given; kept for the property only
  links, expiry,  \* playbackURLCache: the answers by key, and the last tick of each
  order,          \* playbackCacheOrder
  strmSources     \* strmSourcesCache: the sources the proxy knows for some headers
linkVars == <<links, expiry, order>>
proxyVars == <<now, play, given, linkVars, strmSources>>

-----------------------------------------------------------------------------
(* What is asked and answered                                               *)

\* computeHeaderHash: the identity and what else tells devices apart.
Headers(c) == <<Auth[c], Agent[c]>>
\* Mutant: everybody passes for somebody.
AuthenticatedAlways(c) == TRUE
Authenticated(c) == Auth[c] # NoAuth
\* isHTTPPath: what Emby names by an address.
HttpSources == {s \in Sources : Kind[s] # "local"}
\* forceDirectPlay gives every source of the answer an address at the proxy.
Asked == Sources \cup {AnySource}

\* A redirect: to a link of a source, or to the address in its STRM file.  The
\* link is made for an agent and lives until a tick; by, the identity whose
\* request resolved it, and made, the tick of it, are kept for the property only.
Link(s, c, life) ==
  [to |-> "link", src |-> s, agent |-> Agent[c], made |-> now, until |-> now + life, by |-> Auth[c]]
Address(s, c) == [Link(s, c, CHOOSE n \in Lives : \A m \in Lives : m <= n) EXCEPT !.to = "address"]
Nothing == [to |-> "nothing"]      \* Emby answers, or the proxy streams
NotPlayed == [at |-> "new"]

-----------------------------------------------------------------------------
(* The caches                                                               *)

\* removeOrderKeyLocked (RemoveFirst) and moveOrderToEndLocked: of a key that is
\* there more than once the first one goes.
ToEnd(q, key) == Append(RemoveFirst(q, key), key)
Expired == {key \in DOMAIN links : now > expiry[key]}
\* Mutant: every link is remembered for the same time.
TTLUnsigned(answer) == CacheTTL
\* cdnSignatureRemain and the time to live of cachePlaybackURL: what is about to
\* end, or has ended, is remembered for the floor nevertheless.
TTL(answer) ==
  LET left == answer.until - now - Margin
      signed == IF left < Floor THEN Floor ELSE left
  IN IF signed < CacheTTL THEN signed ELSE CacheTTL

\* cachePlaybackURL: what has expired goes, then the keys at the front of the
\* order until there is room.  The key is appended, even where it is there.
RemoveExpired(q) == FoldLeft(LAMBDA p, key : RemoveFirst(p, key), q, SetToSeq(Expired))
CachePlaybackURL(key, answer) ==
  LET live == DOMAIN links \ Expired
      q == RemoveExpired(order)
      Kept(n) == live \ ToSet(SubSeq(q, 1, n))
      n == CHOOSE k \in 0 .. Len(q) :
             /\ Cardinality(Kept(k)) < MaxCacheSize \/ k = Len(q)
             /\ \A j \in 0 .. k - 1 : Cardinality(Kept(j)) >= MaxCacheSize
      keys == Kept(n) \cup {key}
  IN /\ links' = [k \in keys |-> IF k = key THEN answer ELSE links[k]]
     /\ expiry' = [k \in keys |-> IF k = key THEN now + TTL(answer) ELSE expiry[k]]
     /\ order' = Append(SubSeq(q, n + 1, Len(q)), key)

-----------------------------------------------------------------------------
(* Requests                                                                 *)

\* modifyPlaybackInfo: Emby answers with sources that have an address, those of the
\* item or the one that was asked for, and they replace what was cached for these
\* headers.
PlaybackInfo(c) ==
  \E S \in (SUBSET HttpSources) \ {{}} :
    /\ Authenticated(c)
    /\ Cardinality(DOMAIN strmSources \cup {Headers(c)}) <= MaxInfos
    /\ strmSources' = [h \in DOMAIN strmSources \cup {Headers(c)} |->
                         IF h = Headers(c) THEN S ELSE strmSources[h]]
    /\ given' = Nothing /\ UNCHANGED <<now, play, linkVars>>

FinishPlay(r, c, source, answer) ==
  /\ play' = [play EXCEPT ![r] = [at |-> "done"]]
  /\ given' = IF answer = Nothing THEN Nothing ELSE [client |-> c, source |-> source, answer |-> answer]
Miss(r, c, source, meta) ==
  /\ play' = [play EXCEPT ![r] = [at |-> "miss", client |-> c, source |-> source, meta |-> meta]]
  /\ given' = Nothing
\* Mutant: links are remembered by source alone.
KeyWithoutHeaders(source, c) == <<source, NoAuth>>
Key(source, c) == <<source, Headers(c)>>
Matches(source, S) == IF source = AnySource THEN S ELSE S \cap {source}
\* getCachedStrmSources: the source that is named, or any one; none when the entry
\* is too old, which stays where it is.
Known(source, c) ==
  IF Authenticated(c) /\ Headers(c) \in DOMAIN strmSources
  THEN {{}, Matches(source, strmSources[Headers(c)])} ELSE {{}}
MissWithKnown(r, c, source) ==
  \E known \in Known(source, c) :
    IF known = {} THEN Miss(r, c, source, Unknown)
    ELSE \E s \in known : Miss(r, c, source, s)

\* HandleMediaStream looks a link up (getCachedPlaybackURL) and, when there is none,
\* the sources.  What a request does between the two calls concerns one of them only.
Hit(r, c, source) ==
  LET key == Key(source, c) IN
  /\ Authenticated(c) /\ key \in DOMAIN links \ Expired
  /\ FinishPlay(r, c, source, links[key])
  /\ order' = ToEnd(order, key) /\ UNCHANGED <<links, expiry>>
NoHit(r, c, source) ==
  LET key == Key(source, c) IN
  /\ ~(Authenticated(c) /\ key \in DOMAIN links \ Expired)
  /\ MissWithKnown(r, c, source)
  /\ IF Authenticated(c) /\ key \in Expired
     THEN /\ links' = Restrict(links, DOMAIN links \ {key})
          /\ expiry' = Restrict(expiry, DOMAIN links \ {key})
          /\ order' = RemoveFirst(order, key)
     ELSE UNCHANGED linkVars
ArrivePlay(r) ==
  /\ play[r] = NotPlayed /\ \A k \in 1 .. r - 1 : play[k] # NotPlayed
  /\ \E c \in Clients : \E source \in Asked : Hit(r, c, source) \/ NoHit(r, c, source)
  /\ UNCHANGED <<now, strmSources>>

\* fetchPlaybackInfoFallback asks Emby: for the source that is named if it has an
\* address, else for one that has.
FromEmby(source) ==
  LET named == Matches(source, HttpSources) IN IF named # {} THEN named ELSE HttpSources
\* resolveRedirectChain: the link at the end of the redirects, or the address it
\* began with, when every attempt fails or the chain ends at /api/strm again.
Resolved(s, c) == {Link(s, c, life) : life \in Lives} \cup {Address(s, c)}
\* proxyStreamToStrm is for formats that seek and for the service's own addresses.
Streamed(s, answer) == s \in Seek \/ (Kind[s] = "self" /\ answer.to = "address")
\* A redirect is remembered for a client that showed who it is, and given.
Give(r, q, answer) ==
  /\ IF Authenticated(q.client) THEN CachePlaybackURL(Key(q.source, q.client), answer)
     ELSE UNCHANGED linkVars
  /\ FinishPlay(r, q.client, q.source, answer)
GiveNothing(r, q) == FinishPlay(r, q.client, q.source, Nothing) /\ UNCHANGED linkVars
\* The source is found and resolved, and where it leads is given or streamed; or
\* Emby does not answer and the request is left to it (passthroughToEmby).  Others
\* move between the miss and this: a link is as old as the end of its resolution.
Resolve(r) ==
  LET q == play[r] IN
  /\ q.at = "miss"
  /\ \/ \E s \in IF q.meta = Unknown THEN FromEmby(q.source) ELSE {q.meta} :
          \E answer \in Resolved(s, q.client) :
            IF Streamed(s, answer) THEN GiveNothing(r, q) ELSE Give(r, q, answer)
     \/ q.meta = Unknown /\ GiveNothing(r, q)
  /\ UNCHANGED <<now, strmSources>>

Tick == now < MaxTime /\ now' = now + 1 /\ given' = Nothing /\ UNCHANGED <<play, linkVars, strmSources>>

ProxyInit ==
  /\ now = 0 /\ play = [r \in Plays |-> NotPlayed] /\ given = Nothing
  /\ links = <<>> /\ expiry = <<>> /\ order = <<>> /\ strmSources = <<>>
ProxyNext ==
  \/ Tick
  \/ \E c \in Clients : PlaybackInfo(c)
  \/ \E r \in Plays : ArrivePlay(r) \/ Resolve(r)
ProxySpec == ProxyInit /\ [][ProxyNext]_proxyVars

-----------------------------------------------------------------------------
(* Properties                                                               *)

\* No more links are remembered than there is room for, and whatever is remembered
\* has its place in the order, or nothing would ever push it out.
ProxyTypeOK ==
  /\ now \in 0 .. MaxTime
  /\ \A r \in Plays : play[r].at \in {"new", "miss", "done"}
  /\ DOMAIN expiry = DOMAIN links /\ Cardinality(DOMAIN links) <= MaxCacheSize
  /\ DOMAIN links \subseteq ToSet(order)
  /\ \A h \in DOMAIN strmSources : strmSources[h] \subseteq HttpSources /\ h[1] # NoAuth

\* Where a client is sent fits it, whoever's request resolved the link and
\* whatever the caches held and lost: the source it named, if that has an address;
\* a link for its own agent and identity; one whose signature has not ended, or
\* that was resolved no longer ago than the floor; and never the service's own
\* address, which a player outside does not reach (HandleMediaStream, the caches).
RedirectFits ==
  given # Nothing =>
    LET a == given.answer IN
    /\ given.source \in HttpSources => a.src = given.source
    /\ a.agent = Agent[given.client] /\ a.by = Auth[given.client]
    /\ Kind[a.src] = "self" => a.to = "link"
    /\ a.until >= now \/ a.made + Floor >= now
=============================================================================
