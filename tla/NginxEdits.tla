---------------------------- MODULE NginxEdits -----------------------------
(***************************************************************************)
(* What plugins/nginx makes of a configuration: which server blocks it     *)
(* chooses for which domains, and how it changes them for a challenge, an  *)
(* installation and an enhancement.  Below them, how nginx itself reads    *)
(* the result.  Nothing here has a state: a configuration is a value.      *)
(*                                                                         *)
(* A configuration is a record: its server blocks in the order in which    *)
(* nginx reads them, whatever file they are in, and what the challenge     *)
(* adds to the http block.  Names and domains are sequences of labels.     *)
(***************************************************************************)
EXTENDS Integers, Sequences, FiniteSets, SequencesExt, FiniteSetsExt

CONSTANT Root \* the file nginx.conf

\* A listen directive; an address is left out, the ones the plugin derives keep it.
Listen == [port : {"80", "443", "8080"}, ssl : BOOLEAN, default : BOOLEAN, v6only : BOOLEAN]

Plain(port) == [port |-> port, ssl |-> FALSE, default |-> FALSE, v6only |-> FALSE]

Name == [form : {"exact", "star", "dot", "tail", "regex"}, labels : Seq(STRING)]

NameSet == {M \in SUBSET Name : IsFiniteSet(M)}

Block(Cert) ==
  [file : STRING, top : BOOLEAN, names : NameSet, listens : SUBSET Listen, cert : Cert,
   acme : {"none", "ours", "own"}, redirects : SUBSET Seq(STRING), hsts : BOOLEAN,
   chain : Cert]

Config(Cert) ==
  [blocks : Seq(Block(Cert)), include : BOOLEAN, bucket : {"none", "ours", "own"}]

\* What a user has written: nothing of a challenge.
ByHand(c) ==
  /\ ~c.include /\ c.bucket # "ours"
  /\ \A i \in DOMAIN c.blocks : c.blocks[i].acme # "ours"

-----------------------------------------------------------------------------
(* Choosing.                                                               *)

\* nameMatchScore; a regular expression is one for the names below its labels.  A label
\* counts for two, so that one more outweighs both the dot of a wildcard and the point
\* that HTTPS is worth.
NameMatchScore(name, d) ==
  LET n == 2 * Len(name.labels)
      sub == IsSuffix(name.labels, d) /\ name.labels # d
  IN  CASE name.form = "exact" /\ name.labels = d -> 1000 + n
        [] name.form = "star" /\ sub -> 501 + n
        [] name.form = "dot" /\ (sub \/ name.labels = d) -> 500 + n
        [] name.form = "tail" /\ IsPrefix(name.labels, d) /\ name.labels # d -> 400 + n
        [] name.form = "regex" /\ sub -> 100
        [] OTHER -> 0

ServerNameScore(b, d) == Max({0} \cup {NameMatchScore(n, d) : n \in b.names})

\* serverMatchesAny
Named(b, D) == \E d \in D : ServerNameScore(b, d) > 0

ServerIsHTTPS(b) == \E l \in b.listens : l.ssl \/ l.port = "443"

DefaultOn(b, ports) == \E l \in b.listens : l.default /\ l.port \in ports

HasPort(b, port) == \E l \in b.listens : l.port = port

\* findMatchingServers in one file: those that name a domain; or the default servers
\* of port 80, or else of 443, or else any.
FindMatchingServers(c, f, D) ==
  LET here == {i \in DOMAIN c.blocks : c.blocks[i].file = f}
      named == {i \in here : Named(c.blocks[i], D)}
      default(ports) == {i \in here : DefaultOn(c.blocks[i], ports)}
  IN  CASE named # {} -> named
        [] named = {} /\ default({"80"}) # {} -> default({"80"})
        [] named = {} /\ default({"80"}) = {} /\ default({"443"}) # {} -> default({"443"})
        [] OTHER -> default({"8080"})

Files(c) == {Root} \cup {c.blocks[i].file : i \in DOMAIN c.blocks}

FindAcrossFiles(c, D) == UNION {FindMatchingServers(c, f, D) : f \in Files(c)}

\* Slip: plain HTTP decides between equals.
RankPlain(b, d) == ServerNameScore(b, d) + (IF ServerIsHTTPS(b) THEN 0 ELSE 1)

\* selectBestServerPerDomain: HTTPS decides between equals, then the order.
Rank(b, d) == ServerNameScore(b, d) + (IF ServerIsHTTPS(b) THEN 1 ELSE 0)

\* Slip: the first block that names the domain is taken.
FirstFor(c, d) ==
  LET named == {i \in DOMAIN c.blocks : ServerNameScore(c.blocks[i], d) > 0}
  IN  IF named = {} THEN {} ELSE {Min(named)}

BestFor(c, d) ==
  {i \in DOMAIN c.blocks :
     /\ ServerNameScore(c.blocks[i], d) > 0
     /\ \A j \in DOMAIN c.blocks \ {i} :
          \/ ServerNameScore(c.blocks[j], d) = 0
          \/ Rank(c.blocks[j], d) < Rank(c.blocks[i], d)
          \/ Rank(c.blocks[j], d) = Rank(c.blocks[i], d) /\ i < j}

\* Slip: every block that names one of the domains.
HitsOverlapping(c, D) == FindAcrossFiles(c, D)

\* The best of each domain; or else what matches anyhow, the default servers.
Hits(c, D) ==
  LET best == UNION {BestFor(c, d) : d \in D}
  IN  IF best # {} THEN best ELSE FindAcrossFiles(c, D)

\* The blocks of S are changed.
Edit(c, S, Change(_)) ==
  [c EXCEPT !.blocks = [i \in DOMAIN @ |-> IF i \in S THEN Change(@[i]) ELSE @[i]]]

-----------------------------------------------------------------------------
(* Installing.                                                             *)

\* Slip: a block without a listen is not given its port 80.
AddListenSSLOnly(listens) ==
  LET onHttps == {l \in listens : l.port = "443"}
      secure(l) == [l EXCEPT !.ssl = TRUE]
  IN  IF onHttps # {}
      THEN {IF l \in onHttps THEN secure(l) ELSE l : l \in listens}
      ELSE listens \cup {secure(Plain("443"))}

\* addListenSSL.  A block without a listen listens on port 80.
AddListenSSL(listens) ==
  LET all == IF listens = {} THEN {Plain("80")} ELSE listens
      onHttps == {l \in all : l.port = "443"}
      secure(l) == [l EXCEPT !.ssl = TRUE]
      new == secure(Plain("443"))
  IN  CASE onHttps # {} -> {IF l \in onHttps THEN secure(l) ELSE l : l \in all}
        [] onHttps = {} /\ \E l \in all : l.port = "80" -> all \cup {new}
        [] OTHER -> all \cup {new, [new EXCEPT !.v6only = TRUE]}

\* insertSSLDirectives, and the include of options-ssl-nginx.conf
InsertSSLDirectives(b, cert) ==
  [b EXCEPT !.cert = cert, !.listens = AddListenSSL(@)]

Literal(b) == {n.labels : n \in {m \in b.names : m.form = "exact"}}

\* Slip: a block that answers HTTPS as well is redirected like any other.
AddRedirectAnyway(b, D) ==
  IF HasPort(b, "80") THEN [b EXCEPT !.redirects = @ \cup (Literal(b) \cap D)] ELSE b

\* addRedirectIfHTTPOnly: one `if ($host = name)` for each domain the block names.
AddRedirectIfHTTPOnly(b, D) ==
  IF HasPort(b, "80") /\ ~ServerIsHTTPS(b)
  THEN [b EXCEPT !.redirects = @ \cup (Literal(b) \cap D)]
  ELSE b

\* findHTTPVHosts looks at the top level of the files, and a `server` inside http{}
\* is not there.
FindHTTPVHosts(c, S) ==
  {i \in DOMAIN c.blocks :
     /\ c.blocks[i].top /\ HasPort(c.blocks[i], "80") /\ ~ServerIsHTTPS(c.blocks[i])
     /\ \E j \in S : ServerIsHTTPS(c.blocks[j]) /\ c.blocks[i].names \cap c.blocks[j].names # {}}

EnsureRedirectExists(c, S, D) ==
  Edit(c, FindHTTPVHosts(c, S), LAMBDA b : AddRedirectIfHTTPOnly(b, D))

\* The redirect is asked for of a block that has just been made HTTPS, and so is none.
Install(c, D, cert, redirect) ==
  LET secured(b) == InsertSSLDirectives(b, cert)
      installed == Edit(c, Hits(c, D),
                        LAMBDA b : IF redirect THEN AddRedirectIfHTTPOnly(secured(b), D)
                                   ELSE secured(b))
  IN  IF redirect THEN EnsureRedirectExists(installed, Hits(c, D), D) ELSE installed

-----------------------------------------------------------------------------
(* Enhancing.                                                              *)

\* Enhance reads nginx.conf alone, without what it includes.
EnhanceHits(c, D) ==
  {i \in FindMatchingServers(c, Root, D) : ServerIsHTTPS(c.blocks[i])}

Enhance(c, D, what) ==
  LET S == EnhanceHits(c, D)
      inRoot == FindHTTPVHosts(c, S) \cap {i \in DOMAIN c.blocks : c.blocks[i].file = Root}
  IN  CASE what = "hsts" -> Edit(c, S, LAMBDA b : [b EXCEPT !.hsts = TRUE])
        [] what = "staple" -> Edit(c, S, LAMBDA b : [b EXCEPT !.chain = b.cert])
        [] what = "redirect" -> Edit(c, inRoot, LAMBDA b : AddRedirectIfHTTPOnly(b, D))

-----------------------------------------------------------------------------
(* The challenge.                                                          *)

ChallengeHits(c, D) == FindAcrossFiles(c, D)

\* injectChallengeLocations: the rewrite, unless there is one already, and in the
\* http block the include and the bucket size.
Inject(c, D) ==
  [Edit(c, ChallengeHits(c, D),
        LAMBDA b : [b EXCEPT !.acme = IF @ = "none" THEN "ours" ELSE @])
     EXCEPT !.include = TRUE, !.bucket = IF @ = "none" THEN "ours" ELSE @]

\* The files it remembers to clean.
Touched(c, D) == {c.blocks[i].file : i \in ChallengeHits(c, D)}

\* Slip: what the http block was given is taken out only of a file that has a rewrite.
RemoveInTouched(c, files, include, bucket) ==
  [Edit(c, {i \in DOMAIN c.blocks : c.blocks[i].file \in files},
        LAMBDA b : [b EXCEPT !.acme = "none"])
     EXCEPT !.include = @ /\ ~(include /\ Root \in files),
            !.bucket = IF @ = "ours" /\ bucket /\ Root \in files THEN "none" ELSE @]

\* removeChallengeLocations: every acme-challenge rewrite of those files goes, a
\* user's own with them; the include and the bucket size go if this Prepare added
\* them.
RemoveChallenge(c, files, include, bucket) ==
  [Edit(c, {i \in DOMAIN c.blocks : c.blocks[i].file \in files},
        LAMBDA b : [b EXCEPT !.acme = "none"])
     EXCEPT !.include = @ /\ ~include,
            !.bucket = IF @ = "ours" /\ bucket THEN "none" ELSE @]

-----------------------------------------------------------------------------
(* How nginx reads it.                                                     *)

\* `nginx -t`: the include is of a file that exists, and one socket is given its
\* options once.
Loads(c, challengeConf) ==
  /\ c.include => challengeConf
  /\ Cardinality({i \in DOMAIN c.blocks : \E l \in c.blocks[i].listens : l.v6only}) <= 1

Answers(b, port) == HasPort(b, port) \/ (port = "80" /\ b.listens = {})

\* nginx's own order: an exact name, the longest leading wildcard, the longest
\* trailing one, the first regular expression; of equals the first.
Precedence(b, d) ==
  LET rank(n) == NameMatchScore(n, d) + (CASE n.form = "dot" /\ n.labels = d -> 1000
                                           [] n.form = "star" -> -1
                                           [] OTHER -> 0)
  IN  Max({0} \cup {rank(n) : n \in {m \in b.names : NameMatchScore(m, d) > 0}})

\* The block that answers for d on the port: {} if nothing listens there.
Routes(c, port, d) ==
  LET on == {i \in DOMAIN c.blocks : Answers(c.blocks[i], port)}
      named == {i \in on : Precedence(c.blocks[i], d) > 0}
      default == {i \in on : DefaultOn(c.blocks[i], {port})}
      first(S) == IF S = {} THEN {} ELSE {Min(S)}
  IN  CASE named # {} ->
             first({i \in named : \A j \in named :
                      Precedence(c.blocks[j], d) <= Precedence(c.blocks[i], d)})
        [] named = {} /\ default # {} -> first(default)
        [] OTHER -> first(on)
=============================================================================
