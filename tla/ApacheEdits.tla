---------------------------- MODULE ApacheEdits ----------------------------
(***************************************************************************)
(* What plugins/apache makes of a configuration, the counterpart of        *)
(* NginxEdits: which virtual hosts it chooses, how it changes or copies    *)
(* them, and how Apache reads the result.                                  *)
(*                                                                         *)
(* A configuration has its virtual hosts at places, numbers in the order   *)
(* in which Apache reads them.  The hosts written by hand are at even ones,*)
(* so that there is a place for a copy: it goes to the file                *)
(* <source>-le-ssl.conf, which sorts just before its source.               *)
(***************************************************************************)
EXTENDS Naturals, Sequences, FiniteSets, SequencesExt, FiniteSetsExt

Copy == "-le-ssl" \* the part of a site that the plugin has made

Name == [form : {"exact", "star"}, labels : Seq(STRING)]

Host(Cert) ==
  [file : STRING, part : {"source", Copy}, port : {"80", "443"}, names : SUBSET Name,
   macro : BOOLEAN, cert : Cert, includes : Seq({"user", "snippet"}),
   redirects : SUBSET Name, hsts : BOOLEAN, staple : BOOLEAN, snippets : Nat]

IsConfig(c, Cert) ==
  /\ c = [blocks |-> c.blocks]
  /\ DOMAIN c.blocks \subseteq Nat \ {0}
  /\ c.blocks \in [DOMAIN c.blocks -> Host(Cert)]

\* What a user has written: no copies yet, nor snippets of a challenge.
ByHand(c) ==
  \A i \in DOMAIN c.blocks :
    i % 2 = 0 /\ c.blocks[i].part = "source" /\ c.blocks[i].snippets = 0

-----------------------------------------------------------------------------
(* Choosing.                                                               *)

\* vhostMatchesAny
Names(v, d) ==
  \E n \in v.names :
    \/ n.form = "exact" /\ n.labels = d
    \/ n.form = "star" /\ IsSuffix(n.labels, d) /\ n.labels # d

Named(v, D) == \E d \in D : Names(v, d)

OnPort(c, port) == {i \in DOMAIN c.blocks : c.blocks[i].port = port}

\* findMatchingVHosts, which does not look into a <Macro>
Visible(c) == {i \in DOMAIN c.blocks : ~c.blocks[i].macro}

Hits(c, D, port) == {i \in OnPort(c, port) \cap Visible(c) : Named(c.blocks[i], D)}

Edit(c, S, Change(_)) ==
  [c EXCEPT !.blocks = [i \in DOMAIN @ |-> IF i \in S THEN Change(@[i]) ELSE @[i]]]

-----------------------------------------------------------------------------
(* Installing.                                                             *)

\* setOrAppend of the Include: it takes the place of the first one there is.
SetInclude(includes) == <<"snippet">> \o (IF includes = <<>> THEN <<>> ELSE Tail(includes))

\* applySSLDirectives
ApplySSLDirectives(v, cert) ==
  [v EXCEPT !.cert = cert, !.includes = SetInclude(@)]

\* addRewriteRedirect: for every name of the host, once.
AddRewriteRedirect(v) ==
  IF v.redirects = {} THEN [v EXCEPT !.redirects = v.names] ELSE v

\* cloneAsSSLVHost: everything is copied.
CloneAsSSLVHost(v, cert) ==
  [v EXCEPT !.port = "443", !.part = Copy, !.cert = cert, !.includes = Append(@, "snippet")]

\* sslVHostDestination of the source file f is there.
HasCopy(c, f) == \E i \in DOMAIN c.blocks : c.blocks[i].file = f /\ c.blocks[i].part = Copy

\* The copy of host i is written to a file of its own: of several with one source
\* file the last is what the file holds.
Written(c, S) ==
  {i \in S : \A j \in S : c.blocks[j].file = c.blocks[i].file => j <= i}

\* The place just before the first host of the file f.
CopyPlace(c, f) == Min({i \in DOMAIN c.blocks : c.blocks[i].file = f}) - 1

\* Each host of S that has no copy yet gets one; of a file that has, every copy in it
\* is changed to the new certificate (updateExistingSSLVHost).
Clone(c, S, cert) ==
  LET old == {i \in S : HasCopy(c, c.blocks[i].file)}
      updated == Edit(c, {i \in DOMAIN c.blocks :
                            /\ c.blocks[i].part = Copy
                            /\ \E j \in old : c.blocks[j].file = c.blocks[i].file},
                      LAMBDA v : ApplySSLDirectives(v, cert))
      new == Written(c, S \ old)
      place(i) == CopyPlace(c, c.blocks[i].file)
      source(k) == CHOOSE i \in new : place(i) = k
  IN  [updated EXCEPT !.blocks =
         [k \in DOMAIN c.blocks \cup {place(i) : i \in new} |->
            IF k \in DOMAIN c.blocks THEN @[k] ELSE CloneAsSSLVHost(c.blocks[source(k)], cert)]]

\* Hosts on port 443 are changed; when there is none, those on port 80 are copied.
Install(c, D, cert, redirect) ==
  LET on443 == Hits(c, D, "443")
      installed == IF on443 # {}
                   THEN Edit(c, on443, LAMBDA v : ApplySSLDirectives(v, cert))
                   ELSE Clone(c, Hits(c, D, "80"), cert)
  IN  IF redirect
      THEN Edit(installed, Hits(installed, D, "80"), AddRewriteRedirect)
      ELSE installed

\* Enhance
Enhance(c, D, what) ==
  LET on443 == Hits(c, D, "443")
  IN  CASE what = "hsts" -> Edit(c, on443, LAMBDA v : [v EXCEPT !.hsts = TRUE])
        [] what = "staple" -> Edit(c, on443, LAMBDA v : [v EXCEPT !.staple = TRUE])
        [] what = "redirect" -> Edit(c, Hits(c, D, "80"), AddRewriteRedirect)

-----------------------------------------------------------------------------
(* The challenge.                                                          *)

\* Slip: when no host names a domain, those without a name are taken to answer.
ChallengeHitsNameless(c, D) ==
  LET named == Hits(c, D, "80")
      nameless == {i \in OnPort(c, "80") \cap Visible(c) : c.blocks[i].names = {}}
  IN  IF named \cup nameless # {} THEN named \cup nameless
      ELSE {i \in Visible(c) : Named(c.blocks[i], D)}

\* The hosts on port 80 that name a domain and with them those without a name; or
\* else all of port 80; or else those that name a domain on any port.
ChallengeHits(c, D) ==
  LET named == Hits(c, D, "80")
      all == OnPort(c, "80") \cap Visible(c)
      nameless == {i \in all : c.blocks[i].names = {}}
  IN  CASE named # {} -> named \cup nameless
        [] named = {} /\ all # {} -> all
        [] OTHER -> {i \in Visible(c) : Named(c.blocks[i], D)}

\* injectChallengeAliases: one more snippet, whatever is there.
Inject(c, D) ==
  Edit(c, ChallengeHits(c, D), LAMBDA v : [v EXCEPT !.snippets = @ + 1])

Path(v) == <<v.file, v.part>>

Touched(c, D) == {Path(c.blocks[i]) : i \in ChallengeHits(c, D)}

\* Slip: the search ends at the first marker.
RemoveOneMarker(c, paths) ==
  Edit(c, {i \in DOMAIN c.blocks : Path(c.blocks[i]) \in paths},
       LAMBDA v : [v EXCEPT !.snippets = IF @ = 0 THEN 0 ELSE @ - 1])

\* removeChallengeAliases: everything marked in those files.
RemoveChallenge(c, paths) ==
  Edit(c, {i \in DOMAIN c.blocks : Path(c.blocks[i]) \in paths},
       LAMBDA v : [v EXCEPT !.snippets = 0])

-----------------------------------------------------------------------------
(* How Apache reads it.                                                    *)

\* The host that answers for d on the port: the first that names it, or the first.  A
\* <Macro> is a template that nothing uses here.
Routes(c, port, d) ==
  LET on == OnPort(c, port) \cap Visible(c)
      named == {i \in on : Names(c.blocks[i], d)}
      first(S) == IF S = {} THEN {} ELSE {Min(S)}
  IN  IF named # {} THEN first(named) ELSE first(on)
=============================================================================
