--------------------------- MODULE Servers_proofs ---------------------------
(***************************************************************************)
(* The plugins leave the server as it is wanted, for any configuration to  *)
(* begin with, any domains and any number of runs.                         *)
(*                                                                         *)
(* The operators of NginxEdits and ApacheEdits take the change of a block  *)
(* as an operator.  The lemmas of the first parts give what they make of a *)
(* configuration block by block, with changes that are functions (NEdited, *)
(* AEdited), and say what an edit neither sees nor touches.  The invariant *)
(* (IInv) has the configuration agree with what is wanted, as far as       *)
(* edits can see, wherever a run may end or fail: by itself, in the        *)
(* snapshot, or once the plugin has taken its challenge out.               *)
(***************************************************************************)
EXTENDS Servers, FiniteSetTheorems, WellFoundedInduction, TLAPS

\* A set of numbers has a least element.
LEMMA Least ==
  ASSUME NEW T, T \subseteq Nat, T # {}
  PROVE  \E x \in T : \A y \in T : x <= y
<1> DEFINE R == {ss \in Nat \X Nat : ss[1] < ss[2]}
<1>1. IsWellFoundedOn(R, Nat)
  BY NatLessThanWellFounded, Zenon DEF OpToRel
<1> HIDE DEF R
<1>2. PICK x \in T : \A y \in T : ~(<<y, x>> \in R)
  BY <1>1, WFMin, Zenon
<1>3. ASSUME NEW y \in T, y < x PROVE FALSE
  <2>1. <<y, x>> \in Nat \X Nat
    OBVIOUS
  <2> QED BY <1>2, <1>3, <2>1 DEF R
<1> QED BY <1>3

\* So the Min of both modules is what its name says.
LEMMA AMin ==
  ASSUME NEW T, T \subseteq Nat, T # {}
  PROVE  A!Min(T) \in T /\ \A y \in T : A!Min(T) <= y
  BY Least DEF A!Min

LEMMA NMin ==
  ASSUME NEW T, T \subseteq Nat, T # {}
  PROVE  N!Min(T) \in T /\ \A y \in T : N!Min(T) <= y
  BY Least DEF N!Min

-----------------------------------------------------------------------------
(* nginx: what an edit makes of a configuration.                           *)

\* A sequence changed item by item is a sequence.
LEMMA SameLength ==
  ASSUME NEW B, NEW s \in Seq(B), NEW t, t = [i \in DOMAIN s |-> t[i]],
         \A i \in DOMAIN s : t[i] \in B
  PROVE  t \in Seq(B)
<1>1. PICK n \in Nat : s \in [1..n -> B]
  OBVIOUS
<1>2. t \in [1..n -> B]
  BY <1>1
<1> QED BY <1>2

\* The search for a server looks at names, files and defaults.
LEMMA NMatchCongruent ==
  ASSUME NEW c1, NEW c2, NEW S, DOMAIN c1.blocks = DOMAIN c2.blocks,
         \A i \in DOMAIN c1.blocks :
           /\ c1.blocks[i].names = c2.blocks[i].names
           /\ c1.blocks[i].file = c2.blocks[i].file
           /\ \A P : N!DefaultOn(c1.blocks[i], P) = N!DefaultOn(c2.blocks[i], P)
  PROVE  /\ \A f : N!FindMatchingServers(c1, f, S) = N!FindMatchingServers(c2, f, S)
         /\ N!FindAcrossFiles(c1, S) = N!FindAcrossFiles(c2, S)
<1>1. ASSUME NEW i \in DOMAIN c1.blocks, NEW d
      PROVE  N!ServerNameScore(c1.blocks[i], d) = N!ServerNameScore(c2.blocks[i], d)
  BY DEF N!ServerNameScore
<1>2. ASSUME NEW f
      PROVE  N!FindMatchingServers(c1, f, S) = N!FindMatchingServers(c2, f, S)
  <2>1. \A i \in DOMAIN c1.blocks : N!Named(c1.blocks[i], S) = N!Named(c2.blocks[i], S)
    BY <1>1, Zenon DEF N!Named
  <2>2. {i \in DOMAIN c1.blocks : c1.blocks[i].file = f} = {i \in DOMAIN c2.blocks : c2.blocks[i].file = f}
    OBVIOUS
  <2> DEFINE here == {i \in DOMAIN c1.blocks : c1.blocks[i].file = f}
  <2>3. {i \in here : N!Named(c1.blocks[i], S)} = {i \in here : N!Named(c2.blocks[i], S)}
    BY <2>1
  <2>4. \A P : {i \in here : N!DefaultOn(c1.blocks[i], P)} = {i \in here : N!DefaultOn(c2.blocks[i], P)}
    OBVIOUS
  <2> QED BY <2>2, <2>3, <2>4 DEF N!FindMatchingServers
<1>3. N!Files(c1) = N!Files(c2)
  BY DEF N!Files
<1>4. N!FindAcrossFiles(c1, S) = N!FindAcrossFiles(c2, S)
  BY <1>2, <1>3 DEF N!FindAcrossFiles
<1> QED BY <1>2, <1>4

\* The choice of a block looks at names, files and listens.
LEMMA NChoiceCongruent ==
  ASSUME NEW c1, NEW c2, NEW S, DOMAIN c1.blocks = DOMAIN c2.blocks,
         \A i \in DOMAIN c1.blocks :
           /\ c1.blocks[i].names = c2.blocks[i].names
           /\ c1.blocks[i].file = c2.blocks[i].file
           /\ c1.blocks[i].listens = c2.blocks[i].listens
  PROVE  /\ N!FindAcrossFiles(c1, S) = N!FindAcrossFiles(c2, S)
         /\ N!Hits(c1, S) = N!Hits(c2, S)
         /\ N!EnhanceHits(c1, S) = N!EnhanceHits(c2, S)
<1> DEFINE I == DOMAIN c1.blocks
<1>1. ASSUME NEW i \in I, NEW d
      PROVE  N!ServerNameScore(c1.blocks[i], d) = N!ServerNameScore(c2.blocks[i], d)
  BY DEF N!ServerNameScore
<1>2. ASSUME NEW i \in I
      PROVE  N!ServerIsHTTPS(c1.blocks[i]) = N!ServerIsHTTPS(c2.blocks[i])
  BY DEF N!ServerIsHTTPS
<1>3. \A i \in I : \A P : N!DefaultOn(c1.blocks[i], P) = N!DefaultOn(c2.blocks[i], P)
  BY DEF N!DefaultOn
<1>4. /\ \A f : N!FindMatchingServers(c1, f, S) = N!FindMatchingServers(c2, f, S)
      /\ N!FindAcrossFiles(c1, S) = N!FindAcrossFiles(c2, S)
  BY <1>3, NMatchCongruent
<1>5. ASSUME NEW d PROVE N!BestFor(c1, d) = N!BestFor(c2, d)
  <2>1. \A i \in I : N!Rank(c1.blocks[i], d) = N!Rank(c2.blocks[i], d)
    BY <1>1, <1>2 DEF N!Rank
  <2> QED BY <2>1, <1>1 DEF N!BestFor
<1>6. N!Hits(c1, S) = N!Hits(c2, S)
  BY <1>4, <1>5, Zenon DEF N!Hits
<1>7. N!EnhanceHits(c1, S) = N!EnhanceHits(c2, S)
  <2>1. N!FindMatchingServers(c1, Root, S) \subseteq I
    BY DEF N!FindMatchingServers
  <2> QED BY <1>2, <1>4, <2>1 DEF N!EnhanceHits
<1> QED BY <1>4, <1>6, <1>7

\* addListenSSL: HTTPS is answered, plain HTTP and defaults are as they were, and a
\* second time changes nothing.
LEMMA NListen ==
  ASSUME NEW L \in SUBSET N!Listen
  PROVE  /\ N!AddListenSSL(L) \subseteq N!Listen
         /\ \E l \in N!AddListenSSL(L) : l.port = "443"
         /\ \A l \in N!AddListenSSL(L) : l.port = "443" => l.ssl
         /\ (\E l \in N!AddListenSSL(L) : l.port = "80")
              <=> (L = {} \/ \E l \in L : l.port = "80")
         /\ \A P : (\E l \in N!AddListenSSL(L) : l.default /\ l.port \in P)
                     <=> (\E l \in L : l.default /\ l.port \in P)
         /\ N!AddListenSSL(N!AddListenSSL(L)) = N!AddListenSSL(L)
<1> DEFINE all == IF L = {} THEN {N!Plain("80")} ELSE L
           secure(l) == [l EXCEPT !.ssl = TRUE]
           onHttps == {l \in all : l.port = "443"}
           new == secure(N!Plain("443"))
           R == N!AddListenSSL(L)
<1>1. all \subseteq N!Listen /\ new \in N!Listen /\ [new EXCEPT !.v6only = TRUE] \in N!Listen
  <2>1. N!Plain("80") \in N!Listen /\ N!Plain("443") \in N!Listen
    BY DEF N!Listen, N!Plain
  <2>2. new \in N!Listen
    BY <2>1 DEF N!Listen
  <2> HIDE DEF new
  <2>3. [new EXCEPT !.v6only = TRUE] \in N!Listen
    BY <2>2 DEF N!Listen
  <2> QED BY <2>1, <2>2, <2>3
<1>2. \A l \in N!Listen : /\ secure(l) \in N!Listen /\ secure(l).ssl
                          /\ secure(l).port = l.port /\ secure(l).default = l.default
                          /\ (l.ssl => secure(l) = l)
  BY DEF N!Listen
<1>3. new.port = "443" /\ new.ssl /\ ~new.default /\ [new EXCEPT !.v6only = TRUE].port = "443"
      /\ [new EXCEPT !.v6only = TRUE].ssl /\ ~[new EXCEPT !.v6only = TRUE].default
  BY DEF N!Plain
<1>4. (\E l \in all : l.port = "80") <=> (L = {} \/ \E l \in L : l.port = "80")
  BY DEF N!Plain
<1>5. ASSUME NEW P
      PROVE  (\E l \in all : l.default /\ l.port \in P) <=> (\E l \in L : l.default /\ l.port \in P)
  BY DEF N!Plain
<1>6. R = CASE onHttps # {} -> {IF l \in onHttps THEN secure(l) ELSE l : l \in all}
        [] onHttps = {} /\ \E l \in all : l.port = "80" -> all \cup {new}
        [] OTHER -> all \cup {new, [new EXCEPT !.v6only = TRUE]}
  BY Zenon DEF N!AddListenSSL
<1> HIDE DEF all, secure, new, R
<1>7. R \subseteq N!Listen /\ (\E l \in R : l.port = "443") /\ (\A l \in R : l.port = "443" => l.ssl)
      /\ ((\E l \in R : l.port = "80") <=> (\E l \in all : l.port = "80"))
  <2>1. CASE onHttps # {}
    <3>1. R = {IF l \in onHttps THEN secure(l) ELSE l : l \in all}
      BY <1>6, <2>1
    <3> QED BY <3>1, <2>1, <1>1, <1>2
  <2>2. CASE onHttps = {} /\ \E l \in all : l.port = "80"
    <3>1. R = all \cup {new}
      BY <1>6, <2>2
    <3> QED BY <3>1, <2>2, <1>1, <1>3
  <2>3. CASE onHttps = {} /\ ~\E l \in all : l.port = "80"
    <3>1. R = all \cup {new, [new EXCEPT !.v6only = TRUE]}
      BY <1>6, <2>3
    <3> QED BY <3>1, <2>3, <1>1, <1>3
  <2> QED BY <2>1, <2>2, <2>3
<1>8. ASSUME NEW P
      PROVE  (\E l \in R : l.default /\ l.port \in P) <=> (\E l \in all : l.default /\ l.port \in P)
  <2>1. CASE onHttps # {}
    <3>1. R = {IF l \in onHttps THEN secure(l) ELSE l : l \in all}
      BY <1>6, <2>1
    <3> QED BY <3>1, <2>1, <1>1, <1>2
  <2>2. CASE onHttps = {}
    <3>1. R = all \cup {new} \/ R = all \cup {new, [new EXCEPT !.v6only = TRUE]}
      BY <1>6, <2>2
    <3> QED BY <3>1, <1>3
  <2> QED BY <2>1, <2>2
<1>9. N!AddListenSSL(R) = R
  <2>1. N!AddListenSSL(R) = {IF l \in {m \in R : m.port = "443"} THEN secure(l) ELSE l : l \in R}
    BY <1>7 DEF N!AddListenSSL, secure
  <2>2. \A l \in R : (IF l \in {m \in R : m.port = "443"} THEN secure(l) ELSE l) = l
    BY <1>7, <1>2
  <2> QED BY <2>1, <2>2
<1> QED BY <1>4, <1>5, <1>7, <1>8, <1>9 DEF R

BlockN == N!Block(Cert)

\* A block, whatever is said of its rewrite.
KnownBlock(b) == IF b.acme = "own" THEN [b EXCEPT !.acme = "none"] ELSE b

NKnown(c) == [c EXCEPT !.blocks = [i \in DOMAIN @ |-> KnownBlock(@[i])]]

\* The blocks of S are changed by a function.
NEdited(c, S, F) ==
  [c EXCEPT !.blocks = [i \in DOMAIN @ |-> IF i \in S THEN F[@[i]] ELSE @[i]]]

Secure(S) == [b \in BlockN |-> N!InsertSSLDirectives(b, S)]
Redirect(S) == [b \in BlockN |-> N!AddRedirectIfHTTPOnly(b, S)]
Hsts == [b \in BlockN |-> [b EXCEPT !.hsts = TRUE]]
Staple == [b \in BlockN |-> [b EXCEPT !.chain = b.cert]]

\* A change that an installer makes: not of what identifies a block, and not of the
\* rewrite of a challenge nor because of it.
Neutral(F) ==
  /\ F \in [BlockN -> BlockN]
  /\ \A b \in BlockN :
       /\ F[b].file = b.file /\ F[b].top = b.top /\ F[b].names = b.names
       /\ F[b].acme = b.acme
       /\ F[KnownBlock(b)] = KnownBlock(F[b])

\* The parts of a configuration of nginx.
LEMMA BlockFields ==
  ASSUME NEW c \in N!Config(Cert)
  PROVE  /\ c = [blocks |-> c.blocks, include |-> c.include, bucket |-> c.bucket]
         /\ c.blocks \in Seq(BlockN) /\ DOMAIN c.blocks \subseteq Nat
         /\ \A i \in DOMAIN c.blocks : c.blocks[i] \in BlockN
  BY DEF N!Config, BlockN

\* A block without its rewrite is a block.
LEMMA KnownBlockType ==
  ASSUME NEW b \in BlockN
  PROVE  /\ KnownBlock(b) \in BlockN
         /\ KnownBlock(b).names = b.names /\ KnownBlock(b).listens = b.listens
         /\ KnownBlock(b).file = b.file /\ KnownBlock(b).top = b.top
         /\ KnownBlock(b).cert = b.cert
  BY DEF BlockN, N!Block, KnownBlock

\* Configurations differ in their blocks.
LEMMA NWith ==
  ASSUME NEW c, c = [blocks |-> c.blocks, include |-> c.include, bucket |-> c.bucket], NEW x
  PROVE  /\ [c EXCEPT !.blocks = x] = [blocks |-> x, include |-> c.include, bucket |-> c.bucket]
         /\ [c EXCEPT !.blocks = x].blocks = x
  OBVIOUS

\* NKnown, block by block.
LEMMA NKnownShape ==
  ASSUME NEW c \in N!Config(Cert)
  PROVE  /\ NKnown(c) \in N!Config(Cert)
         /\ NKnown(c) = [blocks |-> [i \in DOMAIN c.blocks |-> KnownBlock(c.blocks[i])],
                         include |-> c.include, bucket |-> c.bucket]
<1> DEFINE X == [i \in DOMAIN c.blocks |-> KnownBlock(c.blocks[i])]
<1>1. NKnown(c) = [c EXCEPT !.blocks = X]
  BY DEF NKnown
<1>2. \A i \in DOMAIN c.blocks : X[i] \in BlockN
  BY BlockFields, KnownBlockType
<1>3. X = [i \in DOMAIN c.blocks |-> X[i]]
  OBVIOUS
<1> HIDE DEF X
<1>4. X \in Seq(BlockN)
  BY <1>2, <1>3, BlockFields, SameLength
<1>5. NKnown(c) = [blocks |-> X, include |-> c.include, bucket |-> c.bucket]
  BY <1>1, BlockFields, NWith
<1>6. NKnown(c) \in N!Config(Cert)
  BY <1>4, <1>5 DEF N!Config, BlockN
<1> QED BY <1>5, <1>6 DEF X

\* An edit, block by block, and what can be seen of it.
LEMMA NEditedShape ==
  ASSUME NEW c \in N!Config(Cert), NEW S, NEW F, Neutral(F)
  PROVE  /\ NEdited(c, S, F) \in N!Config(Cert)
         /\ NEdited(c, S, F) =
              [blocks |-> [i \in DOMAIN c.blocks |-> IF i \in S THEN F[c.blocks[i]] ELSE c.blocks[i]],
               include |-> c.include, bucket |-> c.bucket]
         /\ NEdited(NKnown(c), S, F) = NKnown(NEdited(c, S, F))
<1> DEFINE X == [i \in DOMAIN c.blocks |-> IF i \in S THEN F[c.blocks[i]] ELSE c.blocks[i]]
           e == NEdited(c, S, F)
           k == NKnown(c)
<1>1. e = [c EXCEPT !.blocks = X]
  BY DEF NEdited
<1>2. \A i \in DOMAIN c.blocks : X[i] \in BlockN
  BY BlockFields DEF Neutral
<1>3. X = [i \in DOMAIN c.blocks |-> X[i]]
  OBVIOUS
<1>4. \A i \in DOMAIN c.blocks : X[i] = IF i \in S THEN F[c.blocks[i]] ELSE c.blocks[i]
  OBVIOUS
<1> HIDE DEF X, e, k
<1>5. X \in Seq(BlockN)
  BY <1>2, <1>3, BlockFields, SameLength
<1>6. e = [blocks |-> X, include |-> c.include, bucket |-> c.bucket]
  BY <1>1, BlockFields, NWith
<1>7. e \in N!Config(Cert)
  BY <1>5, <1>6 DEF N!Config, BlockN
<1>8. NKnown(e) = [blocks |-> [i \in DOMAIN c.blocks |-> KnownBlock(X[i])],
                   include |-> c.include, bucket |-> c.bucket]
  <2>1. DOMAIN X = DOMAIN c.blocks
    BY <1>3
  <2>2. NKnown(e) = [blocks |-> [i \in DOMAIN e.blocks |-> KnownBlock(e.blocks[i])],
                     include |-> e.include, bucket |-> e.bucket]
    BY <1>7, NKnownShape
  <2> QED BY <1>6, <2>1, <2>2
<1>9. NEdited(k, S, F) = [blocks |-> [i \in DOMAIN c.blocks |->
            IF i \in S THEN F[KnownBlock(c.blocks[i])] ELSE KnownBlock(c.blocks[i])],
          include |-> c.include, bucket |-> c.bucket]
  <2> DEFINE Y == [i \in DOMAIN k.blocks |-> IF i \in S THEN F[k.blocks[i]] ELSE k.blocks[i]]
  <2>1. k = [blocks |-> [i \in DOMAIN c.blocks |-> KnownBlock(c.blocks[i])],
             include |-> c.include, bucket |-> c.bucket]
    BY NKnownShape DEF k
  <2>2. NEdited(k, S, F) = [k EXCEPT !.blocks = Y]
    BY DEF NEdited
  <2>3. Y = [i \in DOMAIN c.blocks |->
               IF i \in S THEN F[KnownBlock(c.blocks[i])] ELSE KnownBlock(c.blocks[i])]
    BY <2>1
  <2> HIDE DEF Y
  <2>4. NEdited(k, S, F) = [blocks |-> Y, include |-> c.include, bucket |-> c.bucket]
    BY <2>1, <2>2
  <2> QED BY <2>3, <2>4
<1>10. ASSUME NEW i \in DOMAIN c.blocks
       PROVE  KnownBlock(X[i]) = IF i \in S THEN F[KnownBlock(c.blocks[i])] ELSE KnownBlock(c.blocks[i])
  BY <1>4, BlockFields DEF Neutral
<1>11. [i \in DOMAIN c.blocks |-> KnownBlock(X[i])] = [i \in DOMAIN c.blocks |->
            IF i \in S THEN F[KnownBlock(c.blocks[i])] ELSE KnownBlock(c.blocks[i])]
  BY <1>10
<1>12. NEdited(k, S, F) = NKnown(e)
  BY <1>8, <1>9, <1>11
<1> QED BY <1>6, <1>7, <1>12 DEF X, e, k

\* The changes of an installer have nothing to do with rewrites.
LEMMA NNeutral ==
  ASSUME NEW S \in Orders
  PROVE  Neutral(Secure(S)) /\ Neutral(Redirect(S)) /\ Neutral(Hsts) /\ Neutral(Staple)
<1>1. S \in Cert /\ S \subseteq Seq(STRING)
  BY ServersAssumption DEF Cert, Orders
<1>2. Neutral(Secure(S))
  <2>1. ASSUME NEW b \in BlockN
        PROVE  [b EXCEPT !.cert = S, !.listens = N!AddListenSSL(@)] \in BlockN
    <3>1. N!AddListenSSL(b.listens) \in SUBSET N!Listen
      BY NListen DEF BlockN, N!Block
    <3> QED BY <3>1, <1>1 DEF BlockN, N!Block
  <2>2. Secure(S) = [b \in BlockN |-> [b EXCEPT !.cert = S, !.listens = N!AddListenSSL(@)]]
    BY DEF Secure, N!InsertSSLDirectives
  <2>3. ASSUME NEW b \in BlockN
        PROVE  /\ Secure(S)[b].file = b.file /\ Secure(S)[b].top = b.top /\ Secure(S)[b].names = b.names
               /\ Secure(S)[b].acme = b.acme
               /\ Secure(S)[KnownBlock(b)] = KnownBlock(Secure(S)[b])
    <3>1. KnownBlock(b) \in BlockN
      BY KnownBlockType
    <3>2. Secure(S)[b] = [b EXCEPT !.cert = S, !.listens = N!AddListenSSL(@)]
      BY <2>2
    <3>3. Secure(S)[KnownBlock(b)] = [KnownBlock(b) EXCEPT !.cert = S, !.listens = N!AddListenSSL(@)]
      BY <2>2, <3>1
    <3> QED BY <3>2, <3>3 DEF BlockN, N!Block, KnownBlock
  <2> QED BY <2>1, <2>2, <2>3 DEF Neutral
<1>3. Neutral(Redirect(S))
  <2> DEFINE R(b) == IF N!HasPort(b, "80") /\ ~N!ServerIsHTTPS(b)
                     THEN [b EXCEPT !.redirects = @ \cup (N!Literal(b) \cap S)] ELSE b
  <2>1. Redirect(S) = [b \in BlockN |-> R(b)]
    BY DEF Redirect, N!AddRedirectIfHTTPOnly
  <2>2. ASSUME NEW b \in BlockN
        PROVE  /\ R(b) \in BlockN
               /\ R(b).file = b.file /\ R(b).top = b.top /\ R(b).names = b.names /\ R(b).acme = b.acme
               /\ R(KnownBlock(b)) = KnownBlock(R(b))
    <3>1. b.redirects \cup (N!Literal(b) \cap S) \in SUBSET Seq(STRING)
      BY <1>1 DEF BlockN, N!Block
    <3>2. N!HasPort(KnownBlock(b), "80") <=> N!HasPort(b, "80")
      BY KnownBlockType DEF N!HasPort
    <3>3. N!ServerIsHTTPS(KnownBlock(b)) <=> N!ServerIsHTTPS(b)
      BY KnownBlockType DEF N!ServerIsHTTPS
    <3>4. N!Literal(KnownBlock(b)) = N!Literal(b)
      BY KnownBlockType DEF N!Literal
    <3> QED BY <3>1, <3>2, <3>3, <3>4 DEF BlockN, N!Block, KnownBlock
  <2> HIDE DEF R
  <2>3. \A b \in BlockN : KnownBlock(b) \in BlockN
    BY KnownBlockType
  <2> QED BY <2>1, <2>2, <2>3 DEF Neutral
<1>4. Neutral(Hsts)
  <2>1. \A b \in BlockN : KnownBlock(b) \in BlockN
    BY KnownBlockType
  <2> QED BY <2>1 DEF Neutral, Hsts, BlockN, N!Block, KnownBlock
<1>5. Neutral(Staple)
  <2>1. \A b \in BlockN : KnownBlock(b) \in BlockN
    BY KnownBlockType
  <2> QED BY <2>1 DEF Neutral, Staple, BlockN, N!Block, KnownBlock
<1> QED BY <1>2, <1>3, <1>4, <1>5

\* Install and Enhance with changes that are functions.
NInstalled(c, S, redirect) ==
  LET hits == N!Hits(c, S)
      m == NEdited(c, hits, Secure(S))
  IN  IF redirect THEN NEdited(m, N!FindHTTPVHosts(m, hits), Redirect(S)) ELSE m

NEnhanced(c, S, what) ==
  LET hits == N!EnhanceHits(c, S)
      inRoot == N!FindHTTPVHosts(c, hits) \cap {i \in DOMAIN c.blocks : c.blocks[i].file = Root}
  IN  CASE what = "hsts" -> NEdited(c, hits, Hsts)
        [] what = "staple" -> NEdited(c, hits, Staple)
        [] what = "redirect" -> NEdited(c, inRoot, Redirect(S))

\* An edit by an operator is one by its function.
LEMMA NEditedIs ==
  ASSUME NEW c \in N!Config(Cert), NEW S, NEW F \in [BlockN -> BlockN],
         NEW G, DOMAIN G = DOMAIN c.blocks,
         \A i \in DOMAIN c.blocks : G[i] = F[c.blocks[i]]
  PROVE  NEdited(c, S, F)
           = [c EXCEPT !.blocks = [i \in DOMAIN @ |-> IF i \in S THEN G[i] ELSE @[i]]]
<1>1. [i \in DOMAIN c.blocks |-> IF i \in S THEN F[c.blocks[i]] ELSE c.blocks[i]]
        = [i \in DOMAIN c.blocks |-> IF i \in S THEN G[i] ELSE c.blocks[i]]
  OBVIOUS
<1> QED BY <1>1 DEF NEdited

\* N!Install is NInstalled.
LEMMA NInstallIs ==
  ASSUME NEW c \in N!Config(Cert), NEW S \in Orders, NEW r \in BOOLEAN
  PROVE  N!Install(c, S, S, r) = NInstalled(c, S, r)
<1> DEFINE hits == N!Hits(c, S)
           m == NEdited(c, hits, Secure(S))
           T == N!FindHTTPVHosts(m, hits)
<1>1. m \in N!Config(Cert)
  BY NEditedShape, NNeutral
<1>2. ASSUME NEW b \in BlockN
      PROVE  N!AddRedirectIfHTTPOnly(N!InsertSSLDirectives(b, S), S) = N!InsertSSLDirectives(b, S)
  <2> DEFINE s == N!InsertSSLDirectives(b, S)
  <2>1. s = [b EXCEPT !.cert = S, !.listens = N!AddListenSSL(@)]
    BY DEF N!InsertSSLDirectives
  <2>2. s.listens = N!AddListenSSL(b.listens)
    BY <2>1 DEF BlockN, N!Block
  <2>3. \E l \in s.listens : l.port = "443"
    BY <2>2, NListen DEF BlockN, N!Block
  <2> HIDE DEF s
  <2>4. N!AddRedirectIfHTTPOnly(s, S) = s
    BY <2>3 DEF N!AddRedirectIfHTTPOnly, N!ServerIsHTTPS
  <2> QED BY <2>4 DEF s
<1>3. ASSUME NEW i \in DOMAIN c.blocks
      PROVE  (IF r THEN N!AddRedirectIfHTTPOnly(N!InsertSSLDirectives(c.blocks[i], S), S)
              ELSE N!InsertSSLDirectives(c.blocks[i], S)) = Secure(S)[c.blocks[i]]
  BY <1>2, BlockFields DEF Secure
<1>4. m = N!Edit(c, hits, LAMBDA b : IF r THEN N!AddRedirectIfHTTPOnly(N!InsertSSLDirectives(b, S), S)
                                   ELSE N!InsertSSLDirectives(b, S))
  <2>1. [i \in DOMAIN c.blocks |-> IF i \in hits THEN Secure(S)[c.blocks[i]] ELSE c.blocks[i]]
         = [i \in DOMAIN c.blocks |-> IF i \in hits THEN
             (IF r THEN N!AddRedirectIfHTTPOnly(N!InsertSSLDirectives(c.blocks[i], S), S)
              ELSE N!InsertSSLDirectives(c.blocks[i], S)) ELSE c.blocks[i]]
    BY <1>3
  <2> QED BY <2>1 DEF N!Edit, NEdited
<1> HIDE DEF m
<1>5. NEdited(m, T, Redirect(S)) = N!EnsureRedirectExists(m, hits, S)
  <2>1. \A i \in DOMAIN m.blocks : Redirect(S)[m.blocks[i]] = N!AddRedirectIfHTTPOnly(m.blocks[i], S)
    BY <1>1, BlockFields DEF Redirect
  <2>2. [i \in DOMAIN m.blocks |-> IF i \in T THEN Redirect(S)[m.blocks[i]] ELSE m.blocks[i]]
        = [i \in DOMAIN m.blocks |-> IF i \in T THEN N!AddRedirectIfHTTPOnly(m.blocks[i], S) ELSE m.blocks[i]]
    BY <2>1
  <2> QED BY <2>2 DEF NEdited, N!EnsureRedirectExists, N!Edit
<1>6. N!Install(c, S, S, r) = IF r THEN N!EnsureRedirectExists(m, hits, S) ELSE m
  BY <1>4 DEF N!Install
<1> QED BY <1>5, <1>6 DEF NInstalled, m

\* N!Enhance is NEnhanced.
LEMMA NEnhanceIs ==
  ASSUME NEW c \in N!Config(Cert), NEW S \in Orders, NEW what \in {"hsts", "staple", "redirect"}
  PROVE  N!Enhance(c, S, what) = NEnhanced(c, S, what)
<1> DEFINE hits == N!EnhanceHits(c, S)
           inRoot == N!FindHTTPVHosts(c, hits) \cap {i \in DOMAIN c.blocks : c.blocks[i].file = Root}
<1>1. NEdited(c, hits, Hsts) = N!Edit(c, hits, LAMBDA b : [b EXCEPT !.hsts = TRUE])
  <2>1. [i \in DOMAIN c.blocks |-> IF i \in hits THEN Hsts[c.blocks[i]] ELSE c.blocks[i]]
        = [i \in DOMAIN c.blocks |-> IF i \in hits THEN [c.blocks[i] EXCEPT !.hsts = TRUE] ELSE c.blocks[i]]
    BY BlockFields DEF Hsts
  <2> QED BY <2>1 DEF NEdited, N!Edit
<1>2. NEdited(c, hits, Staple) = N!Edit(c, hits, LAMBDA b : [b EXCEPT !.chain = b.cert])
  <2>1. [i \in DOMAIN c.blocks |-> IF i \in hits THEN Staple[c.blocks[i]] ELSE c.blocks[i]]
        = [i \in DOMAIN c.blocks |-> IF i \in hits THEN [c.blocks[i] EXCEPT !.chain = c.blocks[i].cert]
                                     ELSE c.blocks[i]]
    BY BlockFields DEF Staple
  <2> QED BY <2>1 DEF NEdited, N!Edit
<1>3. NEdited(c, inRoot, Redirect(S)) = N!Edit(c, inRoot, LAMBDA b : N!AddRedirectIfHTTPOnly(b, S))
  <2>1. [i \in DOMAIN c.blocks |-> IF i \in inRoot THEN Redirect(S)[c.blocks[i]] ELSE c.blocks[i]]
        = [i \in DOMAIN c.blocks |-> IF i \in inRoot THEN N!AddRedirectIfHTTPOnly(c.blocks[i], S)
                                     ELSE c.blocks[i]]
    BY BlockFields DEF Redirect
  <2> QED BY <2>1 DEF NEdited, N!Edit
<1> QED BY <1>1, <1>2, <1>3 DEF N!Enhance, NEnhanced

\* FindHTTPVHosts does not see rewrites.
LEMMA NVHostsKnown ==
  ASSUME NEW c \in N!Config(Cert), NEW S \in SUBSET DOMAIN c.blocks
  PROVE  N!FindHTTPVHosts(NKnown(c), S) = N!FindHTTPVHosts(c, S)
<1> DEFINE k == NKnown(c)
<1>1. DOMAIN k.blocks = DOMAIN c.blocks
  BY NKnownShape
<1>2. ASSUME NEW i \in DOMAIN c.blocks
      PROVE  /\ k.blocks[i].names = c.blocks[i].names
             /\ k.blocks[i].top = c.blocks[i].top
             /\ N!HasPort(k.blocks[i], "80") <=> N!HasPort(c.blocks[i], "80")
             /\ N!ServerIsHTTPS(k.blocks[i]) <=> N!ServerIsHTTPS(c.blocks[i])
  <2>1. k.blocks[i] = KnownBlock(c.blocks[i]) /\ c.blocks[i] \in BlockN
    BY NKnownShape, BlockFields
  <2> QED BY <2>1, KnownBlockType DEF N!HasPort, N!ServerIsHTTPS
<1> HIDE DEF k
<1>3. \A i \in DOMAIN c.blocks :
        (\E j \in S : N!ServerIsHTTPS(k.blocks[j]) /\ k.blocks[i].names \cap k.blocks[j].names # {})
          <=> (\E j \in S : N!ServerIsHTTPS(c.blocks[j]) /\ c.blocks[i].names \cap c.blocks[j].names # {})
  BY <1>2
<1>4. \A i : i \in N!FindHTTPVHosts(k, S) <=> i \in N!FindHTTPVHosts(c, S)
  BY <1>1, <1>2, <1>3 DEF N!FindHTTPVHosts
<1> QED BY <1>4 DEF k, N!FindHTTPVHosts

\* What is chosen are blocks of the configuration.
LEMMA NHitsIn ==
  ASSUME NEW c, NEW S
  PROVE  /\ N!FindAcrossFiles(c, S) \subseteq DOMAIN c.blocks
         /\ N!Hits(c, S) \subseteq DOMAIN c.blocks
         /\ N!EnhanceHits(c, S) \subseteq DOMAIN c.blocks
<1>1. \A f : N!FindMatchingServers(c, f, S) \subseteq DOMAIN c.blocks
  BY DEF N!FindMatchingServers
<1>2. N!FindAcrossFiles(c, S) \subseteq DOMAIN c.blocks
  BY <1>1 DEF N!FindAcrossFiles
<1>3. \A d : N!BestFor(c, d) \subseteq DOMAIN c.blocks
  BY DEF N!BestFor
<1>4. UNION {N!BestFor(c, d) : d \in S} \subseteq DOMAIN c.blocks
  BY <1>3
<1>5. N!Hits(c, S) \subseteq DOMAIN c.blocks
  BY <1>2, <1>4 DEF N!Hits
<1>6. N!EnhanceHits(c, S) \subseteq DOMAIN c.blocks
  BY <1>1 DEF N!EnhanceHits
<1> QED BY <1>2, <1>5, <1>6

\* Nor does any choice of blocks see rewrites.
LEMMA NKnownChoice ==
  ASSUME NEW c \in N!Config(Cert), NEW S
  PROVE  /\ N!FindAcrossFiles(NKnown(c), S) = N!FindAcrossFiles(c, S)
         /\ N!Hits(NKnown(c), S) = N!Hits(c, S)
         /\ N!EnhanceHits(NKnown(c), S) = N!EnhanceHits(c, S)
<1> DEFINE k == NKnown(c)
<1>1. DOMAIN k.blocks = DOMAIN c.blocks
  BY NKnownShape
<1>2. \A i \in DOMAIN k.blocks :
        /\ k.blocks[i].names = c.blocks[i].names
        /\ k.blocks[i].file = c.blocks[i].file
        /\ k.blocks[i].listens = c.blocks[i].listens
  BY NKnownShape, KnownBlockType, BlockFields
<1> HIDE DEF k
<1> QED BY <1>1, <1>2, NChoiceCongruent DEF k

\* Of configurations that look the same the installer makes such.
LEMMA NInstalledKnown ==
  ASSUME NEW c \in N!Config(Cert), NEW S \in Orders, NEW r \in BOOLEAN
  PROVE  /\ NInstalled(c, S, r) \in N!Config(Cert)
         /\ NInstalled(NKnown(c), S, r) = NKnown(NInstalled(c, S, r))
<1> DEFINE hits == N!Hits(c, S)
           m == NEdited(c, hits, Secure(S))
           T == N!FindHTTPVHosts(m, hits)
           k == NKnown(c)
<1>1. m \in N!Config(Cert) /\ DOMAIN m.blocks = DOMAIN c.blocks
  BY NEditedShape, NNeutral
<1>2. NEdited(k, hits, Secure(S)) = NKnown(m)
  BY NEditedShape, NNeutral
<1>3. N!Hits(k, S) = hits
  BY NKnownChoice
<1>4. N!FindHTTPVHosts(NKnown(m), hits) = T
  <2>1. hits \in SUBSET DOMAIN m.blocks
    BY <1>1, NHitsIn
  <2> HIDE DEF m, hits
  <2> QED BY <1>1, <2>1, NVHostsKnown
<1> HIDE DEF m, k
<1>5. NEdited(m, T, Redirect(S)) \in N!Config(Cert)
      /\ NEdited(NKnown(m), T, Redirect(S)) = NKnown(NEdited(m, T, Redirect(S)))
  BY <1>1, NEditedShape, NNeutral
<1>6. NInstalled(k, S, r) = IF r THEN NEdited(NKnown(m), T, Redirect(S)) ELSE NKnown(m)
  BY <1>2, <1>3, <1>4 DEF NInstalled
<1>7. NInstalled(c, S, r) = IF r THEN NEdited(m, T, Redirect(S)) ELSE m
  BY DEF NInstalled, m
<1> QED BY <1>1, <1>5, <1>6, <1>7 DEF k

\* And so does an enhancement.
LEMMA NEnhancedKnown ==
  ASSUME NEW c \in N!Config(Cert), NEW S \in Orders, NEW what \in {"hsts", "staple", "redirect"}
  PROVE  /\ NEnhanced(c, S, what) \in N!Config(Cert)
         /\ NEnhanced(NKnown(c), S, what) = NKnown(NEnhanced(c, S, what))
<1> DEFINE hits == N!EnhanceHits(c, S)
           V == N!FindHTTPVHosts(c, hits)
           k == NKnown(c)
           rooted == {i \in DOMAIN c.blocks : c.blocks[i].file = Root}
<1>1. N!EnhanceHits(k, S) = hits /\ N!FindHTTPVHosts(k, hits) = V
  BY NKnownChoice, NVHostsKnown, NHitsIn
<1>2. {i \in DOMAIN k.blocks : k.blocks[i].file = Root} = rooted
  BY NKnownShape, KnownBlockType, BlockFields
<1> HIDE DEF k, rooted, V, hits
<1>3. NEnhanced(c, S, what) = CASE what = "hsts" -> NEdited(c, hits, Hsts)
        [] what = "staple" -> NEdited(c, hits, Staple)
        [] what = "redirect" -> NEdited(c, V \cap rooted, Redirect(S))
  BY DEF NEnhanced, hits, V, rooted
<1>4. NEnhanced(k, S, what) = CASE what = "hsts" -> NEdited(k, hits, Hsts)
        [] what = "staple" -> NEdited(k, hits, Staple)
        [] what = "redirect" -> NEdited(k, V \cap rooted, Redirect(S))
  BY <1>1, <1>2 DEF NEnhanced
<1>5. \A T : /\ NEdited(c, T, Hsts) \in N!Config(Cert)
             /\ NEdited(k, T, Hsts) = NKnown(NEdited(c, T, Hsts))
             /\ NEdited(c, T, Staple) \in N!Config(Cert)
             /\ NEdited(k, T, Staple) = NKnown(NEdited(c, T, Staple))
             /\ NEdited(c, T, Redirect(S)) \in N!Config(Cert)
             /\ NEdited(k, T, Redirect(S)) = NKnown(NEdited(c, T, Redirect(S)))
  BY NEditedShape, NNeutral DEF k
<1> QED BY <1>3, <1>4, <1>5 DEF k

-----------------------------------------------------------------------------
(* nginx: the challenge.                                                   *)

\* Inject, block by block.
LEMMA NInjectShape ==
  ASSUME NEW c \in N!Config(Cert), NEW S
  PROVE  /\ N!Inject(c, S) \in N!Config(Cert)
         /\ N!Inject(c, S) =
              [blocks |-> [i \in DOMAIN c.blocks |->
                 IF i \in N!FindAcrossFiles(c, S) /\ c.blocks[i].acme = "none"
                 THEN [c.blocks[i] EXCEPT !.acme = "ours"] ELSE c.blocks[i]],
               include |-> TRUE, bucket |-> IF c.bucket = "none" THEN "ours" ELSE c.bucket]
<1> DEFINE X == [i \in DOMAIN c.blocks |->
                   IF i \in N!FindAcrossFiles(c, S) /\ c.blocks[i].acme = "none"
                   THEN [c.blocks[i] EXCEPT !.acme = "ours"] ELSE c.blocks[i]]
           Y == [i \in DOMAIN c.blocks |->
                   IF i \in N!FindAcrossFiles(c, S)
                   THEN [c.blocks[i] EXCEPT !.acme = IF @ = "none" THEN "ours" ELSE @]
                   ELSE c.blocks[i]]
           e == [c EXCEPT !.blocks = Y]
<1>1. N!Inject(c, S) = [e EXCEPT !.include = TRUE, !.bucket = IF @ = "none" THEN "ours" ELSE @]
  BY DEF N!Inject, N!Edit, N!ChallengeHits
<1>2. X = Y
  <2>1. ASSUME NEW i \in DOMAIN c.blocks PROVE X[i] = Y[i]
    <3>1. c.blocks[i] \in BlockN
      BY BlockFields
    <3> QED BY <3>1 DEF BlockN, N!Block
  <2> QED BY <2>1
<1>3. \A i \in DOMAIN c.blocks : X[i] \in BlockN
  <2>1. ASSUME NEW i \in DOMAIN c.blocks PROVE X[i] \in BlockN
    <3>1. c.blocks[i] \in BlockN
      BY BlockFields
    <3> QED BY <3>1 DEF BlockN, N!Block
  <2> QED BY <2>1
<1>4. X = [i \in DOMAIN c.blocks |-> X[i]]
  OBVIOUS
<1> HIDE DEF X, Y, e
<1>5. X \in Seq(BlockN)
  BY <1>3, <1>4, BlockFields, SameLength
<1>6. e = [blocks |-> X, include |-> c.include, bucket |-> c.bucket]
  BY <1>2, BlockFields, NWith DEF e
<1>7. N!Inject(c, S) = [blocks |-> X, include |-> TRUE,
                        bucket |-> IF c.bucket = "none" THEN "ours" ELSE c.bucket]
  BY <1>1, <1>6
<1>8. c.bucket \in {"none", "ours", "own"}
  BY DEF N!Config
<1>9. N!Inject(c, S) \in N!Config(Cert)
  BY <1>5, <1>7, <1>8 DEF N!Config, BlockN
<1> QED BY <1>7, <1>9 DEF X

\* RemoveChallenge, block by block.
LEMMA NRemoveShape ==
  ASSUME NEW c \in N!Config(Cert), NEW files, NEW include \in BOOLEAN, NEW bucket \in BOOLEAN
  PROVE  /\ N!RemoveChallenge(c, files, include, bucket) \in N!Config(Cert)
         /\ N!RemoveChallenge(c, files, include, bucket) =
              [blocks |-> [i \in DOMAIN c.blocks |->
                 IF c.blocks[i].file \in files
                 THEN [c.blocks[i] EXCEPT !.acme = "none"] ELSE c.blocks[i]],
               include |-> c.include /\ ~include,
               bucket |-> IF c.bucket = "ours" /\ bucket THEN "none" ELSE c.bucket]
<1> DEFINE X == [i \in DOMAIN c.blocks |->
                   IF c.blocks[i].file \in files
                   THEN [c.blocks[i] EXCEPT !.acme = "none"] ELSE c.blocks[i]]
           Y == [i \in DOMAIN c.blocks |->
                   IF i \in {j \in DOMAIN c.blocks : c.blocks[j].file \in files}
                   THEN [c.blocks[i] EXCEPT !.acme = "none"] ELSE c.blocks[i]]
           e == [c EXCEPT !.blocks = Y]
           R == N!RemoveChallenge(c, files, include, bucket)
<1>1. R = [e EXCEPT !.include = @ /\ ~include,
                    !.bucket = IF @ = "ours" /\ bucket THEN "none" ELSE @]
  BY DEF N!RemoveChallenge, N!Edit
<1>2. X = Y
  OBVIOUS
<1>3. \A i \in DOMAIN c.blocks : X[i] \in BlockN
  <2>1. ASSUME NEW i \in DOMAIN c.blocks PROVE X[i] \in BlockN
    <3>1. c.blocks[i] \in BlockN
      BY BlockFields
    <3> QED BY <3>1 DEF BlockN, N!Block
  <2> QED BY <2>1
<1>4. X = [i \in DOMAIN c.blocks |-> X[i]]
  OBVIOUS
<1>8. c.bucket \in {"none", "ours", "own"} /\ c.include \in BOOLEAN
  BY DEF N!Config
<1> HIDE DEF X, Y, e, R
<1>5. X \in Seq(BlockN)
  BY <1>3, <1>4, BlockFields, SameLength
<1>6. e = [blocks |-> X, include |-> c.include, bucket |-> c.bucket]
  BY <1>2, BlockFields, NWith DEF e
<1>7. R = [blocks |-> X, include |-> c.include /\ ~include,
           bucket |-> IF c.bucket = "ours" /\ bucket THEN "none" ELSE c.bucket]
  BY <1>1, <1>6
<1>9. R \in N!Config(Cert)
  BY <1>5, <1>7, <1>8 DEF N!Config, BlockN
<1> QED BY <1>7, <1>9 DEF X, R

\* A configuration that is, but for rewrites of the user's own, one written by hand.
LEMMA NKnownByHand ==
  ASSUME NEW c \in N!Config(Cert), NEW w \in N!Config(Cert),
         NKnown(c) = NKnown(w), N!ByHand(w)
  PROVE  N!ByHand(c)
<1>1. NKnown(c) = [blocks |-> [i \in DOMAIN c.blocks |-> KnownBlock(c.blocks[i])],
                   include |-> c.include, bucket |-> c.bucket]
      /\ NKnown(w) = [blocks |-> [i \in DOMAIN w.blocks |-> KnownBlock(w.blocks[i])],
                      include |-> w.include, bucket |-> w.bucket]
  BY NKnownShape
<1> DEFINE X == [i \in DOMAIN c.blocks |-> KnownBlock(c.blocks[i])]
           Y == [i \in DOMAIN w.blocks |-> KnownBlock(w.blocks[i])]
<1> HIDE DEF X, Y
<1>2. c.include = w.include /\ c.bucket = w.bucket /\ X = Y
  <2>1. [blocks |-> X, include |-> c.include, bucket |-> c.bucket]
          = [blocks |-> Y, include |-> w.include, bucket |-> w.bucket]
    BY <1>1 DEF X, Y
  <2> QED BY <2>1
<1>3. [i \in DOMAIN c.blocks |-> KnownBlock(c.blocks[i])]
        = [i \in DOMAIN w.blocks |-> KnownBlock(w.blocks[i])]
  BY <1>2 DEF X, Y
<1>4. ASSUME NEW i \in DOMAIN c.blocks PROVE c.blocks[i].acme # "ours"
  <2>1. i \in DOMAIN w.blocks /\ KnownBlock(c.blocks[i]) = KnownBlock(w.blocks[i])
    BY <1>3
  <2>2. c.blocks[i] \in BlockN /\ w.blocks[i] \in BlockN /\ w.blocks[i].acme # "ours"
    BY <2>1, BlockFields DEF N!ByHand
  <2> QED BY <2>1, <2>2 DEF KnownBlock, BlockN, N!Block
<1> QED BY <1>2, <1>4 DEF N!ByHand

\* What a Prepare has put in, its Cleanup takes out.
LEMMA NUndone ==
  ASSUME NEW c \in N!Config(Cert), N!ByHand(c), NEW S,
         NEW paths, N!Touched(c, S) \subseteq paths,
         NEW include \in BOOLEAN, include,
         NEW bucket \in BOOLEAN, bucket <=> c.bucket = "none"
  PROVE  NKnown(N!RemoveChallenge(N!Inject(c, S), paths, include, bucket)) = NKnown(c)
<1> DEFINE e == N!Inject(c, S)
           R == N!RemoveChallenge(e, paths, include, bucket)
           hit(i) == i \in N!FindAcrossFiles(c, S) /\ c.blocks[i].acme = "none"
<1>1. e \in N!Config(Cert)
      /\ e = [blocks |-> [i \in DOMAIN c.blocks |->
                IF hit(i) THEN [c.blocks[i] EXCEPT !.acme = "ours"] ELSE c.blocks[i]],
              include |-> TRUE, bucket |-> IF c.bucket = "none" THEN "ours" ELSE c.bucket]
  BY NInjectShape
<1>2. c.include = FALSE /\ c.bucket # "ours" /\ \A i \in DOMAIN c.blocks : c.blocks[i].acme # "ours"
  BY DEF N!ByHand, N!Config
<1>3. \A i \in N!FindAcrossFiles(c, S) : c.blocks[i].file \in paths
  BY DEF N!Touched, N!ChallengeHits
<1> HIDE DEF e, hit
<1>4. R \in N!Config(Cert)
      /\ R = [blocks |-> [i \in DOMAIN e.blocks |->
                IF e.blocks[i].file \in paths
                THEN [e.blocks[i] EXCEPT !.acme = "none"] ELSE e.blocks[i]],
              include |-> e.include /\ ~include,
              bucket |-> IF e.bucket = "ours" /\ bucket THEN "none" ELSE e.bucket]
  <2>1. e \in N!Config(Cert)
    BY <1>1
  <2> QED BY <2>1, NRemoveShape, Zenon
<1> HIDE DEF R
<1>5. R.include = c.include /\ R.bucket = c.bucket /\ DOMAIN R.blocks = DOMAIN c.blocks
  BY <1>1, <1>2, <1>4
<1>6. ASSUME NEW i \in DOMAIN c.blocks
      PROVE  KnownBlock(R.blocks[i]) = KnownBlock(c.blocks[i])
  <2>1. e.blocks[i] = IF hit(i) THEN [c.blocks[i] EXCEPT !.acme = "ours"] ELSE c.blocks[i]
    BY <1>1
  <2>2. R.blocks[i] = IF e.blocks[i].file \in paths
                      THEN [e.blocks[i] EXCEPT !.acme = "none"] ELSE e.blocks[i]
    BY <1>1, <1>4
  <2>3. c.blocks[i] \in BlockN /\ c.blocks[i].acme # "ours"
    BY <1>2, BlockFields
  <2>4. hit(i) => c.blocks[i].file \in paths /\ c.blocks[i].acme = "none"
    BY <1>3 DEF hit
  <2> QED BY <2>1, <2>2, <2>3, <2>4 DEF KnownBlock, BlockN, N!Block
<1>7. [i \in DOMAIN R.blocks |-> KnownBlock(R.blocks[i])]
        = [i \in DOMAIN c.blocks |-> KnownBlock(c.blocks[i])]
  BY <1>5, <1>6
<1>8. NKnown(R) = NKnown(c)
  <2>1. NKnown(R) = [blocks |-> [i \in DOMAIN R.blocks |-> KnownBlock(R.blocks[i])],
                     include |-> R.include, bucket |-> R.bucket]
    BY <1>4, NKnownShape
  <2>2. NKnown(c) = [blocks |-> [i \in DOMAIN c.blocks |-> KnownBlock(c.blocks[i])],
                     include |-> c.include, bucket |-> c.bucket]
    BY NKnownShape
  <2> QED BY <1>5, <1>7, <2>1, <2>2, Zenon
<1> QED BY <1>8 DEF R, e

-----------------------------------------------------------------------------
(* Apache: what an edit makes of a configuration.                          *)

\* The hosts of Apache.
HostA == A!Host(Cert)

AConfig(c) == A!IsConfig(c, Cert)

\* The hosts of S are changed by a function.
AEdited(c, S, F) ==
  [c EXCEPT !.blocks = [i \in DOMAIN @ |-> IF i \in S THEN F[@[i]] ELSE @[i]]]

Apply(S) == [v \in HostA |-> A!ApplySSLDirectives(v, S)]
Rewrite == [v \in HostA |-> A!AddRewriteRedirect(v)]
HstsA == [v \in HostA |-> [v EXCEPT !.hsts = TRUE]]
StapleA == [v \in HostA |-> [v EXCEPT !.staple = TRUE]]

\* A change that an installer makes.
Mild(F) ==
  /\ F \in [HostA -> HostA]
  /\ \A v \in HostA :
       /\ F[v].file = v.file /\ F[v].part = v.part /\ F[v].port = v.port
       /\ F[v].names = v.names /\ F[v].macro = v.macro /\ F[v].snippets = v.snippets

\* The parts of a configuration of Apache.
LEMMA HostFields ==
  ASSUME NEW c, AConfig(c)
  PROVE  /\ c = [blocks |-> c.blocks]
         /\ DOMAIN c.blocks \subseteq Nat \ {0}
         /\ \A i \in DOMAIN c.blocks : c.blocks[i] \in HostA
         /\ \A x : [c EXCEPT !.blocks = x] = [blocks |-> x]
<1>1. c = [blocks |-> c.blocks] /\ DOMAIN c.blocks \subseteq Nat \ {0}
      /\ c.blocks \in [DOMAIN c.blocks -> HostA]
  BY DEF AConfig, A!IsConfig, HostA
<1>2. \A i \in DOMAIN c.blocks : c.blocks[i] \in HostA
  BY <1>1
<1>3. ASSUME NEW x PROVE [c EXCEPT !.blocks = x] = [blocks |-> x]
  BY <1>1
<1> QED BY <1>1, <1>2, <1>3

\* A function on places makes one.
LEMMA AConfigIs ==
  ASSUME NEW D1, D1 \subseteq Nat \ {0}, NEW f \in [D1 -> HostA]
  PROVE  AConfig([blocks |-> f])
  BY DEF AConfig, A!IsConfig, HostA

\* An edit, host by host.
LEMMA AEditedShape ==
  ASSUME NEW c, AConfig(c), NEW S, NEW F, Mild(F)
  PROVE  /\ AConfig(AEdited(c, S, F))
         /\ AEdited(c, S, F) = [blocks |-> [i \in DOMAIN c.blocks |->
                                  IF i \in S THEN F[c.blocks[i]] ELSE c.blocks[i]]]
<1> DEFINE X == [i \in DOMAIN c.blocks |-> IF i \in S THEN F[c.blocks[i]] ELSE c.blocks[i]]
<1>1. AEdited(c, S, F) = [c EXCEPT !.blocks = X]
  BY DEF AEdited
<1>2. X \in [DOMAIN c.blocks -> HostA]
  BY HostFields DEF Mild
<1> HIDE DEF X
<1>3. AEdited(c, S, F) = [blocks |-> X]
  BY <1>1, HostFields
<1>4. AConfig([blocks |-> X])
  BY <1>2, HostFields, AConfigIs
<1> QED BY <1>3, <1>4 DEF X

\* The Includes of a host are a sequence of them.
LEMMA AIncludes ==
  ASSUME NEW s \in Seq({"user", "snippet"})
  PROVE  /\ A!SetInclude(s) \in Seq({"user", "snippet"})
         /\ Append(s, "snippet") \in Seq({"user", "snippet"})
  BY DEF A!SetInclude

\* What an installer changes of a host is its certificate, redirect or header.
LEMMA AMild ==
  ASSUME NEW S \in Orders
  PROVE  Mild(Apply(S)) /\ Mild(Rewrite) /\ Mild(HstsA) /\ Mild(StapleA)
<1>1. S \in Cert
  BY DEF Cert
<1>2. Mild(Apply(S))
  <2>1. ASSUME NEW v \in HostA
        PROVE  /\ A!ApplySSLDirectives(v, S) \in HostA
               /\ A!ApplySSLDirectives(v, S) = [v EXCEPT !.cert = S, !.includes = A!SetInclude(@)]
    <3>1. A!ApplySSLDirectives(v, S) = [v EXCEPT !.cert = S, !.includes = A!SetInclude(@)]
      BY DEF A!ApplySSLDirectives
    <3>2. A!SetInclude(v.includes) \in Seq({"user", "snippet"})
      BY AIncludes DEF HostA, A!Host
    <3> QED BY <3>1, <3>2, <1>1 DEF HostA, A!Host
  <2>2. ASSUME NEW v \in HostA
        PROVE  LET w == [v EXCEPT !.cert = S, !.includes = A!SetInclude(@)] IN
               /\ w.file = v.file /\ w.part = v.part /\ w.port = v.port
               /\ w.names = v.names /\ w.macro = v.macro /\ w.snippets = v.snippets
    BY DEF HostA, A!Host
  <2> QED BY <2>1, <2>2 DEF Mild, Apply
<1>3. Mild(Rewrite)
  <2>1. ASSUME NEW v \in HostA
        PROVE  /\ A!AddRewriteRedirect(v) \in HostA
               /\ A!AddRewriteRedirect(v) \in {v, [v EXCEPT !.redirects = v.names]}
    BY DEF A!AddRewriteRedirect, HostA, A!Host
  <2> QED BY <2>1 DEF Mild, Rewrite, HostA, A!Host
<1>4. Mild(HstsA) /\ Mild(StapleA)
  BY DEF Mild, HstsA, StapleA, HostA, A!Host
<1> QED BY <1>2, <1>3, <1>4

\* A copy is just before the file it is of, answers HTTPS and has the names of a host on
\* port 80 of that file.
Structured(c) ==
  \A k \in DOMAIN c.blocks :
    LET v == c.blocks[k] IN
    IF v.part = "source" THEN k % 2 = 0
    ELSE /\ k % 2 = 1
         /\ k + 1 \in DOMAIN c.blocks /\ c.blocks[k + 1].file = v.file
         /\ v.port = "443"
         /\ \E j \in A!OnPort(c, "80") :
              /\ c.blocks[j].file = v.file /\ c.blocks[j].names = v.names
              /\ c.blocks[j].macro = v.macro

\* The parts of a Clone.
OldOf(c, T) == {i \in T : A!HasCopy(c, c.blocks[i].file)}
UpdatedOf(c, T) ==
  {i \in DOMAIN c.blocks : /\ c.blocks[i].part = A!Copy
                           /\ \E j \in OldOf(c, T) : c.blocks[j].file = c.blocks[i].file}
NewOf(c, T) == A!Written(c, T \ OldOf(c, T))
PlaceOf(c, i) == A!CopyPlace(c, c.blocks[i].file)

\* The place of a copy is free, just before its file.
LEMMA FreePlace ==
  ASSUME NEW c, AConfig(c), Structured(c), NEW i \in DOMAIN c.blocks,
         ~A!HasCopy(c, c.blocks[i].file)
  PROVE  /\ PlaceOf(c, i) \in Nat \ {0} /\ PlaceOf(c, i) \notin DOMAIN c.blocks
         /\ PlaceOf(c, i) % 2 = 1
         /\ PlaceOf(c, i) + 1 \in DOMAIN c.blocks
         /\ c.blocks[PlaceOf(c, i) + 1].file = c.blocks[i].file
<1> DEFINE T == {j \in DOMAIN c.blocks : c.blocks[j].file = c.blocks[i].file}
           m == A!Min(T)
<1>1. m \in T /\ \A y \in T : m <= y
  <2>1. T \subseteq Nat /\ T # {}
    BY HostFields
  <2> HIDE DEF T
  <2> QED BY <2>1, AMin
<1>2. PlaceOf(c, i) = m - 1
  BY DEF PlaceOf, A!CopyPlace
<1> HIDE DEF m
<1>3. m \in Nat \ {0} /\ c.blocks[m] \in HostA /\ c.blocks[m].part # A!Copy
      /\ c.blocks[m].file = c.blocks[i].file /\ m \in DOMAIN c.blocks
  BY <1>1, HostFields DEF A!HasCopy
<1>4. c.blocks[m].part = "source" /\ m % 2 = 0
  BY <1>3 DEF Structured, HostA, A!Host
<1>5. m - 1 \in Nat \ {0} /\ (m - 1) % 2 = 1 /\ (m - 1) + 1 = m
  BY <1>3, <1>4
<1>6. ASSUME m - 1 \in DOMAIN c.blocks PROVE FALSE
  <2>1. c.blocks[m - 1].part # "source"
    BY <1>5, <1>6 DEF Structured
  <2>2. c.blocks[(m - 1) + 1].file = c.blocks[m - 1].file
    BY <1>6, <2>1 DEF Structured
  <2>3. m - 1 \in T
    BY <1>3, <1>5, <1>6, <2>2
  <2> QED BY <1>1, <1>3, <2>3
<1> QED BY <1>2, <1>3, <1>5, <1>6

\* Clone, host by host.
LEMMA ACloneShape ==
  ASSUME NEW c, AConfig(c), Structured(c), NEW T \in SUBSET DOMAIN c.blocks, NEW S \in Orders
  PROVE  LET e == A!Clone(c, T, S) IN
         /\ AConfig(e)
         /\ DOMAIN e.blocks = DOMAIN c.blocks \cup {PlaceOf(c, i) : i \in NewOf(c, T)}
         /\ \A k \in DOMAIN c.blocks :
              e.blocks[k] = IF k \in UpdatedOf(c, T) THEN Apply(S)[c.blocks[k]] ELSE c.blocks[k]
         /\ \A k \in DOMAIN e.blocks \ DOMAIN c.blocks :
              \E i \in NewOf(c, T) :
                k = PlaceOf(c, i) /\ e.blocks[k] = A!CloneAsSSLVHost(c.blocks[i], S)
         /\ \A i \in NewOf(c, T) :
              i \in T /\ ~A!HasCopy(c, c.blocks[i].file) /\ PlaceOf(c, i) \notin DOMAIN c.blocks
<1> DEFINE e == A!Clone(c, T, S)
           U == UpdatedOf(c, T)
           new == NewOf(c, T)
           source(k) == CHOOSE i \in new : PlaceOf(c, i) = k
           P == {PlaceOf(c, i) : i \in new}
           u == AEdited(c, U, Apply(S))
           X == [k \in DOMAIN c.blocks \cup P |->
                   IF k \in DOMAIN c.blocks THEN u.blocks[k]
                   ELSE A!CloneAsSSLVHost(c.blocks[source(k)], S)]
<1>1. \A i \in new : i \in T /\ i \in DOMAIN c.blocks /\ ~A!HasCopy(c, c.blocks[i].file)
  BY DEF NewOf, A!Written, OldOf
<1>2. \A i \in new : PlaceOf(c, i) \in Nat \ {0} /\ PlaceOf(c, i) \notin DOMAIN c.blocks
  BY <1>1, FreePlace
<1>3. u = A!Edit(c, U, LAMBDA v : A!ApplySSLDirectives(v, S))
  <2>1. [i \in DOMAIN c.blocks |-> IF i \in U THEN Apply(S)[c.blocks[i]] ELSE c.blocks[i]]
          = [i \in DOMAIN c.blocks |-> IF i \in U THEN A!ApplySSLDirectives(c.blocks[i], S) ELSE c.blocks[i]]
    BY HostFields DEF Apply
  <2> QED BY <2>1 DEF AEdited, A!Edit
<1>4. AConfig(u) /\ u = [blocks |-> [i \in DOMAIN c.blocks |->
                                  IF i \in U THEN Apply(S)[c.blocks[i]] ELSE c.blocks[i]]]
  BY AEditedShape, AMild
<1>5. e = [u EXCEPT !.blocks = X]
  <2> DEFINE w == A!Edit(c, U, LAMBDA v : A!ApplySSLDirectives(v, S))
  <2>1. e = [w EXCEPT !.blocks = [k \in DOMAIN c.blocks \cup P |->
                   IF k \in DOMAIN c.blocks THEN w.blocks[k]
                   ELSE A!CloneAsSSLVHost(c.blocks[source(k)], S)]]
    BY DEF A!Clone, UpdatedOf, OldOf, NewOf, PlaceOf, A!Edit
  <2>2. u = w
    BY <1>3
  <2> HIDE DEF w, u
  <2> QED BY <2>1, <2>2
<1>6. \A i \in DOMAIN c.blocks :
        u.blocks[i] = IF i \in U THEN Apply(S)[c.blocks[i]] ELSE c.blocks[i]
  BY <1>4
<1>7. DOMAIN u.blocks = DOMAIN c.blocks
  BY <1>4
<1> HIDE DEF u, U, new, e
<1>8. ASSUME NEW k \in P PROVE source(k) \in new /\ PlaceOf(c, source(k)) = k
  OBVIOUS
<1>9. ASSUME NEW v \in HostA PROVE A!CloneAsSSLVHost(v, S) \in HostA
  <2>1. S \in Cert
    BY DEF Cert
  <2>2. Append(v.includes, "snippet") \in Seq({"user", "snippet"})
    BY AIncludes DEF HostA, A!Host
  <2> QED BY <2>1, <2>2 DEF A!CloneAsSSLVHost, HostA, A!Host
<1>10. X \in [DOMAIN c.blocks \cup P -> HostA]
  <2>1. ASSUME NEW k \in DOMAIN c.blocks PROVE u.blocks[k] \in HostA
    BY <1>4, <1>7, HostFields
  <2>2. ASSUME NEW k \in P PROVE A!CloneAsSSLVHost(c.blocks[source(k)], S) \in HostA
    <3>1. c.blocks[source(k)] \in HostA
      BY <1>1, <1>8, HostFields
    <3> QED BY <3>1, <1>9
  <2> HIDE DEF source, P
  <2> QED BY <2>1, <2>2
<1>11. DOMAIN c.blocks \cup P \subseteq Nat \ {0}
  BY <1>2, HostFields
<1>12. \A k \in DOMAIN c.blocks : X[k] = u.blocks[k]
  OBVIOUS
<1>13. ASSUME NEW k \in (DOMAIN c.blocks \cup P) \ DOMAIN c.blocks
       PROVE  \E i \in new : k = PlaceOf(c, i) /\ X[k] = A!CloneAsSSLVHost(c.blocks[i], S)
  <2>1. X[k] = A!CloneAsSSLVHost(c.blocks[source(k)], S)
    OBVIOUS
  <2>2. source(k) \in new /\ PlaceOf(c, source(k)) = k
    BY <1>8
  <2> HIDE DEF source, X
  <2> QED BY <2>1, <2>2
<1>14. e = [blocks |-> X]
  <2> HIDE DEF X
  <2> QED BY <1>5, <1>4, HostFields
<1>15. DOMAIN X = DOMAIN c.blocks \cup P
  OBVIOUS
<1> HIDE DEF X, P
<1>16. AConfig(e)
  BY <1>10, <1>11, <1>14, AConfigIs
<1>17. e.blocks = X
  BY <1>14
<1> QED BY <1>1, <1>2, <1>6, <1>12, <1>13, <1>15, <1>16, <1>17 DEF e, U, new, P

\* What stays, and what is added, when an installer makes e of c.
AFrame(c, e) ==
  /\ DOMAIN c.blocks \subseteq DOMAIN e.blocks
  /\ \A k \in DOMAIN c.blocks :
       /\ e.blocks[k].file = c.blocks[k].file /\ e.blocks[k].part = c.blocks[k].part
       /\ e.blocks[k].port = c.blocks[k].port /\ e.blocks[k].names = c.blocks[k].names
       /\ e.blocks[k].macro = c.blocks[k].macro /\ e.blocks[k].snippets = c.blocks[k].snippets
       /\ c.blocks[k].port = "443" => e.blocks[k].redirects = c.blocks[k].redirects
  /\ \A k \in DOMAIN e.blocks \ DOMAIN c.blocks :
       /\ k % 2 = 1 /\ k + 1 \in DOMAIN c.blocks
       /\ c.blocks[k + 1].file = e.blocks[k].file
       /\ e.blocks[k].part = A!Copy /\ e.blocks[k].port = "443"
       /\ \E i \in A!OnPort(c, "80") :
            /\ c.blocks[i].file = e.blocks[k].file /\ c.blocks[i].names = e.blocks[k].names
            /\ c.blocks[i].macro = e.blocks[k].macro
            /\ c.blocks[i].redirects = e.blocks[k].redirects
            /\ c.blocks[i].snippets = e.blocks[k].snippets

\* Install and Enhance with changes that are functions.
Redone(c, S, redirect) == IF redirect THEN AEdited(c, A!Hits(c, S, "80"), Rewrite) ELSE c

AInstalled(c, S, redirect) ==
  LET on443 == A!Hits(c, S, "443")
  IN  Redone(IF on443 # {} THEN AEdited(c, on443, Apply(S)) ELSE A!Clone(c, A!Hits(c, S, "80"), S),
             S, redirect)

AEnhanced(c, S, what) ==
  CASE what = "hsts" -> AEdited(c, A!Hits(c, S, "443"), HstsA)
    [] what = "staple" -> AEdited(c, A!Hits(c, S, "443"), StapleA)
    [] what = "redirect" -> AEdited(c, A!Hits(c, S, "80"), Rewrite)

\* What is chosen are hosts of the configuration.
LEMMA AHitsIn ==
  ASSUME NEW c, NEW S, NEW port
  PROVE  A!Hits(c, S, port) \in SUBSET DOMAIN c.blocks
  BY DEF A!Hits, A!OnPort

\* A!Install is AInstalled.
LEMMA AInstallIs ==
  ASSUME NEW c, AConfig(c), Structured(c), NEW S \in Orders, NEW r \in BOOLEAN
  PROVE  A!Install(c, S, S, r) = AInstalled(c, S, r)
<1> DEFINE on443 == A!Hits(c, S, "443")
           m == IF on443 # {} THEN AEdited(c, on443, Apply(S)) ELSE A!Clone(c, A!Hits(c, S, "80"), S)
           h == A!Hits(m, S, "80")
<1>1. AEdited(c, on443, Apply(S)) = A!Edit(c, on443, LAMBDA v : A!ApplySSLDirectives(v, S))
  <2>1. [i \in DOMAIN c.blocks |-> IF i \in on443 THEN Apply(S)[c.blocks[i]] ELSE c.blocks[i]]
          = [i \in DOMAIN c.blocks |->
               IF i \in on443 THEN A!ApplySSLDirectives(c.blocks[i], S) ELSE c.blocks[i]]
    BY HostFields DEF Apply
  <2> QED BY <2>1 DEF AEdited, A!Edit
<1>2. AConfig(m)
  BY AEditedShape, AMild, ACloneShape, AHitsIn
<1>3. A!Install(c, S, S, r) = IF r THEN A!Edit(m, h, LAMBDA v : A!AddRewriteRedirect(v)) ELSE m
  <2> DEFINE w == A!Edit(c, on443, LAMBDA v : A!ApplySSLDirectives(v, S))
             n == IF on443 # {} THEN w ELSE A!Clone(c, A!Hits(c, S, "80"), S)
  <2>1. A!Install(c, S, S, r)
          = IF r THEN A!Edit(n, A!Hits(n, S, "80"), LAMBDA v : A!AddRewriteRedirect(v)) ELSE n
    BY DEF A!Install, A!Edit
  <2>2. m = n
    <3> HIDE DEF w
    <3> QED BY <1>1 DEF w
  <2> HIDE DEF m, n
  <2> QED BY <2>1, <2>2 DEF A!Edit
<1> HIDE DEF m
<1>4. A!Edit(m, h, LAMBDA v : A!AddRewriteRedirect(v)) = AEdited(m, h, Rewrite)
  <2>1. [i \in DOMAIN m.blocks |-> IF i \in h THEN Rewrite[m.blocks[i]] ELSE m.blocks[i]]
          = [i \in DOMAIN m.blocks |-> IF i \in h THEN A!AddRewriteRedirect(m.blocks[i]) ELSE m.blocks[i]]
    BY <1>2, HostFields DEF Rewrite
  <2> QED BY <2>1 DEF AEdited, A!Edit
<1>5. AInstalled(c, S, r) = IF r THEN AEdited(m, h, Rewrite) ELSE m
  BY DEF AInstalled, Redone, m
<1> QED BY <1>3, <1>4, <1>5 DEF A!Edit

\* A!Enhance is AEnhanced.
LEMMA AEnhanceIs ==
  ASSUME NEW c, AConfig(c), NEW S, NEW what \in {"hsts", "staple", "redirect"}
  PROVE  A!Enhance(c, S, what) = AEnhanced(c, S, what)
<1> DEFINE on443 == A!Hits(c, S, "443")
           on80 == A!Hits(c, S, "80")
<1>1. AEdited(c, on443, HstsA) = A!Edit(c, on443, LAMBDA v : [v EXCEPT !.hsts = TRUE])
  <2>1. [i \in DOMAIN c.blocks |-> IF i \in on443 THEN HstsA[c.blocks[i]] ELSE c.blocks[i]]
          = [i \in DOMAIN c.blocks |->
               IF i \in on443 THEN [c.blocks[i] EXCEPT !.hsts = TRUE] ELSE c.blocks[i]]
    BY HostFields DEF HstsA
  <2> QED BY <2>1 DEF AEdited, A!Edit
<1>2. AEdited(c, on443, StapleA) = A!Edit(c, on443, LAMBDA v : [v EXCEPT !.staple = TRUE])
  <2>1. [i \in DOMAIN c.blocks |-> IF i \in on443 THEN StapleA[c.blocks[i]] ELSE c.blocks[i]]
          = [i \in DOMAIN c.blocks |->
               IF i \in on443 THEN [c.blocks[i] EXCEPT !.staple = TRUE] ELSE c.blocks[i]]
    BY HostFields DEF StapleA
  <2> QED BY <2>1 DEF AEdited, A!Edit
<1>3. AEdited(c, on80, Rewrite) = A!Edit(c, on80, LAMBDA v : A!AddRewriteRedirect(v))
  <2>1. [i \in DOMAIN c.blocks |-> IF i \in on80 THEN Rewrite[c.blocks[i]] ELSE c.blocks[i]]
          = [i \in DOMAIN c.blocks |-> IF i \in on80 THEN A!AddRewriteRedirect(c.blocks[i]) ELSE c.blocks[i]]
    BY HostFields DEF Rewrite
  <2> QED BY <2>1 DEF AEdited, A!Edit
<1> QED BY <1>1, <1>2, <1>3 DEF A!Enhance, AEnhanced, A!Edit

\* Which change of a host is for its certificate, and which for its redirects.
LEMMA AKeeps ==
  ASSUME NEW S \in Orders, NEW v \in HostA
  PROVE  /\ Apply(S)[v].redirects = v.redirects /\ Apply(S)[v].cert = S
         /\ HstsA[v].redirects = v.redirects /\ HstsA[v].cert = v.cert
         /\ StapleA[v].redirects = v.redirects /\ StapleA[v].cert = v.cert
         /\ Rewrite[v].cert = v.cert
  BY DEF Apply, HstsA, StapleA, Rewrite, A!AddRewriteRedirect, A!ApplySSLDirectives, HostA, A!Host

\* An edit of hosts is a frame.
LEMMA AEditedFrame ==
  ASSUME NEW c, AConfig(c), NEW S, NEW F, Mild(F),
         \A i \in S \cap DOMAIN c.blocks :
           c.blocks[i].port = "443" => F[c.blocks[i]].redirects = c.blocks[i].redirects
  PROVE  AConfig(AEdited(c, S, F)) /\ AFrame(c, AEdited(c, S, F))
         /\ DOMAIN AEdited(c, S, F).blocks = DOMAIN c.blocks
<1> DEFINE e == AEdited(c, S, F)
<1>1. AConfig(e) /\ e = [blocks |-> [i \in DOMAIN c.blocks |->
                                  IF i \in S THEN F[c.blocks[i]] ELSE c.blocks[i]]]
  BY AEditedShape
<1>2. DOMAIN e.blocks = DOMAIN c.blocks
      /\ \A i \in DOMAIN c.blocks : e.blocks[i] = IF i \in S THEN F[c.blocks[i]] ELSE c.blocks[i]
  BY <1>1
<1>3. \A i \in DOMAIN c.blocks : c.blocks[i] \in HostA
  BY HostFields
<1> HIDE DEF e
<1>4. AFrame(c, e)
  BY <1>2, <1>3 DEF AFrame, Mild
<1> QED BY <1>1, <1>2, <1>4 DEF e

\* Copying hosts is a frame.
LEMMA ACloneFrame ==
  ASSUME NEW c, AConfig(c), Structured(c), NEW S \in Orders
  PROVE  LET e == A!Clone(c, A!Hits(c, S, "80"), S) IN AConfig(e) /\ AFrame(c, e)
<1> DEFINE T == A!Hits(c, S, "80")
           e == A!Clone(c, T, S)
<1>1. T \in SUBSET DOMAIN c.blocks
  BY AHitsIn
<1>2. /\ AConfig(e)
      /\ DOMAIN e.blocks = DOMAIN c.blocks \cup {PlaceOf(c, i) : i \in NewOf(c, T)}
      /\ \A k \in DOMAIN c.blocks :
           e.blocks[k] = IF k \in UpdatedOf(c, T) THEN Apply(S)[c.blocks[k]] ELSE c.blocks[k]
      /\ \A k \in DOMAIN e.blocks \ DOMAIN c.blocks :
           \E i \in NewOf(c, T) :
             k = PlaceOf(c, i) /\ e.blocks[k] = A!CloneAsSSLVHost(c.blocks[i], S)
      /\ \A i \in NewOf(c, T) :
           i \in T /\ ~A!HasCopy(c, c.blocks[i].file) /\ PlaceOf(c, i) \notin DOMAIN c.blocks
  BY <1>1, ACloneShape
<1>3. \A i \in DOMAIN c.blocks : c.blocks[i] \in HostA
  BY HostFields
<1> HIDE DEF e
<1>4. ASSUME NEW k \in DOMAIN c.blocks
      PROVE  /\ e.blocks[k].file = c.blocks[k].file /\ e.blocks[k].part = c.blocks[k].part
             /\ e.blocks[k].port = c.blocks[k].port /\ e.blocks[k].names = c.blocks[k].names
             /\ e.blocks[k].macro = c.blocks[k].macro /\ e.blocks[k].snippets = c.blocks[k].snippets
             /\ e.blocks[k].redirects = c.blocks[k].redirects
  <2>1. Mild(Apply(S)) /\ c.blocks[k] \in HostA
    BY <1>3, AMild
  <2>2. Apply(S)[c.blocks[k]].redirects = c.blocks[k].redirects
    BY <2>1, AKeeps
  <2>3. e.blocks[k] = IF k \in UpdatedOf(c, T) THEN Apply(S)[c.blocks[k]] ELSE c.blocks[k]
    BY <1>2
  <2> QED BY <2>1, <2>2, <2>3 DEF Mild
<1>5. ASSUME NEW k \in DOMAIN e.blocks \ DOMAIN c.blocks
      PROVE  /\ k % 2 = 1 /\ k + 1 \in DOMAIN c.blocks
             /\ c.blocks[k + 1].file = e.blocks[k].file
             /\ e.blocks[k].part = A!Copy /\ e.blocks[k].port = "443"
             /\ \E i \in A!OnPort(c, "80") :
                  /\ c.blocks[i].file = e.blocks[k].file /\ c.blocks[i].names = e.blocks[k].names
                  /\ c.blocks[i].macro = e.blocks[k].macro
                  /\ c.blocks[i].redirects = e.blocks[k].redirects
                  /\ c.blocks[i].snippets = e.blocks[k].snippets
  <2>1. PICK i \in NewOf(c, T) : k = PlaceOf(c, i) /\ e.blocks[k] = A!CloneAsSSLVHost(c.blocks[i], S)
    BY <1>2
  <2>2. i \in T /\ i \in DOMAIN c.blocks /\ ~A!HasCopy(c, c.blocks[i].file) /\ c.blocks[i] \in HostA
    BY <1>1, <1>2, <1>3
  <2>3. i \in A!OnPort(c, "80")
    BY <2>2 DEF A!Hits
  <2>4. /\ e.blocks[k].file = c.blocks[i].file /\ e.blocks[k].names = c.blocks[i].names
        /\ e.blocks[k].part = A!Copy /\ e.blocks[k].port = "443"
        /\ e.blocks[k].redirects = c.blocks[i].redirects
        /\ e.blocks[k].snippets = c.blocks[i].snippets /\ e.blocks[k].macro = c.blocks[i].macro
    BY <2>1, <2>2 DEF A!CloneAsSSLVHost, HostA, A!Host
  <2>5. k % 2 = 1 /\ k + 1 \in DOMAIN c.blocks /\ c.blocks[k + 1].file = c.blocks[i].file
    BY <2>1, <2>2, FreePlace
  <2> QED BY <2>3, <2>4, <2>5
<1> QED BY <1>2, <1>4, <1>5 DEF AFrame, e

\* A frame keeps the structure.
LEMMA AFrameStructured ==
  ASSUME NEW c, NEW e, AConfig(c), AConfig(e), Structured(c), AFrame(c, e)
  PROVE  Structured(e)
<1>1. \A j \in A!OnPort(c, "80") :
        j \in A!OnPort(e, "80") /\ e.blocks[j].file = c.blocks[j].file
        /\ e.blocks[j].names = c.blocks[j].names /\ e.blocks[j].macro = c.blocks[j].macro
  BY DEF A!OnPort, AFrame
<1>2. ASSUME NEW k \in DOMAIN e.blocks, k \in DOMAIN c.blocks, e.blocks[k].part = "source"
      PROVE  k % 2 = 0
  BY <1>2 DEF AFrame, Structured
<1>3. ASSUME NEW k \in DOMAIN e.blocks, k \in DOMAIN c.blocks, e.blocks[k].part # "source"
      PROVE  /\ k % 2 = 1
             /\ k + 1 \in DOMAIN e.blocks /\ e.blocks[k + 1].file = e.blocks[k].file
             /\ e.blocks[k].port = "443"
             /\ \E j \in A!OnPort(e, "80") :
                  /\ e.blocks[j].file = e.blocks[k].file /\ e.blocks[j].names = e.blocks[k].names
                  /\ e.blocks[j].macro = e.blocks[k].macro
  <2>1. /\ e.blocks[k].file = c.blocks[k].file /\ e.blocks[k].part = c.blocks[k].part
        /\ e.blocks[k].port = c.blocks[k].port /\ e.blocks[k].names = c.blocks[k].names
        /\ e.blocks[k].macro = c.blocks[k].macro
    BY <1>3 DEF AFrame
  <2>2. /\ k % 2 = 1
        /\ k + 1 \in DOMAIN c.blocks /\ c.blocks[k + 1].file = c.blocks[k].file
        /\ c.blocks[k].port = "443"
        /\ \E j \in A!OnPort(c, "80") :
             /\ c.blocks[j].file = c.blocks[k].file /\ c.blocks[j].names = c.blocks[k].names
             /\ c.blocks[j].macro = c.blocks[k].macro
    BY <1>3, <2>1 DEF Structured
  <2>3. k + 1 \in DOMAIN e.blocks /\ e.blocks[k + 1].file = c.blocks[k + 1].file
    BY <2>2 DEF AFrame
  <2> QED BY <1>1, <2>1, <2>2, <2>3
<1>4. ASSUME NEW k \in DOMAIN e.blocks, k \notin DOMAIN c.blocks
      PROVE  /\ e.blocks[k].part # "source" /\ k % 2 = 1
             /\ k + 1 \in DOMAIN e.blocks /\ e.blocks[k + 1].file = e.blocks[k].file
             /\ e.blocks[k].port = "443"
             /\ \E j \in A!OnPort(e, "80") :
                  /\ e.blocks[j].file = e.blocks[k].file /\ e.blocks[j].names = e.blocks[k].names
                  /\ e.blocks[j].macro = e.blocks[k].macro
  <2>1. /\ k % 2 = 1 /\ k + 1 \in DOMAIN c.blocks
        /\ c.blocks[k + 1].file = e.blocks[k].file
        /\ e.blocks[k].part = A!Copy /\ e.blocks[k].port = "443"
        /\ \E i \in A!OnPort(c, "80") :
             /\ c.blocks[i].file = e.blocks[k].file /\ c.blocks[i].names = e.blocks[k].names
             /\ c.blocks[i].macro = e.blocks[k].macro
    BY <1>4 DEF AFrame
  <2>2. k + 1 \in DOMAIN e.blocks /\ e.blocks[k + 1].file = c.blocks[k + 1].file
    BY <2>1 DEF AFrame
  <2> QED BY <1>1, <2>1, <2>2 DEF A!Copy
<1> QED BY <1>2, <1>3, <1>4 DEF Structured

\* A host that is chosen listens on the port.
LEMMA AHitsPort ==
  ASSUME NEW c, NEW S, NEW port, NEW i \in A!Hits(c, S, port)
  PROVE  c.blocks[i].port = port /\ i \in DOMAIN c.blocks
  BY DEF A!Hits, A!OnPort

\* The redirects after an installation change no frame.
LEMMA ARedone ==
  ASSUME NEW c, NEW m, AConfig(c), AConfig(m), AFrame(c, m), NEW S \in Orders, NEW r \in BOOLEAN
  PROVE  AConfig(Redone(m, S, r)) /\ AFrame(c, Redone(m, S, r))
<1> DEFINE h == A!Hits(m, S, "80")
           e == AEdited(m, h, Rewrite)
<1>1. AConfig(e) /\ e = [blocks |-> [i \in DOMAIN m.blocks |->
                                  IF i \in h THEN Rewrite[m.blocks[i]] ELSE m.blocks[i]]]
  BY AEditedShape, AMild
<1>2. DOMAIN e.blocks = DOMAIN m.blocks
      /\ \A i \in DOMAIN m.blocks : e.blocks[i] = IF i \in h THEN Rewrite[m.blocks[i]] ELSE m.blocks[i]
  BY <1>1
<1>3. \A i \in DOMAIN m.blocks : m.blocks[i].port = "443" => i \notin h
  BY AHitsPort
<1>4. \A i \in DOMAIN m.blocks : m.blocks[i] \in HostA
  BY HostFields
<1>5. Mild(Rewrite)
  BY AMild
<1> HIDE DEF e, h
<1>6. ASSUME NEW k \in DOMAIN m.blocks
      PROVE  /\ e.blocks[k].file = m.blocks[k].file /\ e.blocks[k].part = m.blocks[k].part
             /\ e.blocks[k].port = m.blocks[k].port /\ e.blocks[k].names = m.blocks[k].names
             /\ e.blocks[k].macro = m.blocks[k].macro /\ e.blocks[k].snippets = m.blocks[k].snippets
             /\ m.blocks[k].port = "443" => e.blocks[k].redirects = m.blocks[k].redirects
  BY <1>2, <1>3, <1>4, <1>5 DEF Mild
<1>7. AFrame(c, e)
  <2>1. DOMAIN c.blocks \subseteq DOMAIN e.blocks
    BY <1>2 DEF AFrame
  <2>2. ASSUME NEW k \in DOMAIN c.blocks
        PROVE  /\ e.blocks[k].file = c.blocks[k].file /\ e.blocks[k].part = c.blocks[k].part
               /\ e.blocks[k].port = c.blocks[k].port /\ e.blocks[k].names = c.blocks[k].names
               /\ e.blocks[k].macro = c.blocks[k].macro
               /\ e.blocks[k].snippets = c.blocks[k].snippets
               /\ c.blocks[k].port = "443" => e.blocks[k].redirects = c.blocks[k].redirects
    BY <1>6 DEF AFrame
  <2>3. ASSUME NEW k \in DOMAIN e.blocks \ DOMAIN c.blocks
        PROVE  /\ k % 2 = 1 /\ k + 1 \in DOMAIN c.blocks
               /\ c.blocks[k + 1].file = e.blocks[k].file
               /\ e.blocks[k].part = A!Copy /\ e.blocks[k].port = "443"
               /\ \E i \in A!OnPort(c, "80") :
                    /\ c.blocks[i].file = e.blocks[k].file /\ c.blocks[i].names = e.blocks[k].names
                    /\ c.blocks[i].macro = e.blocks[k].macro
                    /\ c.blocks[i].redirects = e.blocks[k].redirects
                    /\ c.blocks[i].snippets = e.blocks[k].snippets
    <3>1. k \in DOMAIN m.blocks \ DOMAIN c.blocks
      BY <1>2
    <3>2. /\ k % 2 = 1 /\ k + 1 \in DOMAIN c.blocks
          /\ c.blocks[k + 1].file = m.blocks[k].file
          /\ m.blocks[k].part = A!Copy /\ m.blocks[k].port = "443"
          /\ \E i \in A!OnPort(c, "80") :
               /\ c.blocks[i].file = m.blocks[k].file /\ c.blocks[i].names = m.blocks[k].names
               /\ c.blocks[i].macro = m.blocks[k].macro
               /\ c.blocks[i].redirects = m.blocks[k].redirects
               /\ c.blocks[i].snippets = m.blocks[k].snippets
      BY <3>1 DEF AFrame
    <3> QED BY <1>6, <3>1, <3>2
  <2> QED BY <2>1, <2>2, <2>3 DEF AFrame
<1> QED BY <1>1, <1>7 DEF Redone, e, h

\* So every edit is a frame.
LEMMA AMade ==
  ASSUME NEW c, AConfig(c), Structured(c), NEW S \in Orders, NEW r \in BOOLEAN,
         NEW what \in {"hsts", "staple", "redirect"}
  PROVE  /\ AConfig(AInstalled(c, S, r)) /\ AFrame(c, AInstalled(c, S, r))
         /\ AConfig(AEnhanced(c, S, what)) /\ AFrame(c, AEnhanced(c, S, what))
<1>1. \A i \in DOMAIN c.blocks : c.blocks[i] \in HostA
  BY HostFields
<1>2. \A T : AConfig(AEdited(c, T, Apply(S))) /\ AFrame(c, AEdited(c, T, Apply(S)))
  BY <1>1, AEditedFrame, AMild, AKeeps
<1>3. \A T : AConfig(AEdited(c, T, HstsA)) /\ AFrame(c, AEdited(c, T, HstsA))
  BY <1>1, AEditedFrame, AMild, AKeeps
<1>4. \A T : AConfig(AEdited(c, T, StapleA)) /\ AFrame(c, AEdited(c, T, StapleA))
  BY <1>1, AEditedFrame, AMild, AKeeps
<1>5. AConfig(AEdited(c, A!Hits(c, S, "80"), Rewrite)) /\ AFrame(c, AEdited(c, A!Hits(c, S, "80"), Rewrite))
  <2>1. \A i \in A!Hits(c, S, "80") : c.blocks[i].port # "443"
    BY AHitsPort
  <2> QED BY <2>1, AEditedFrame, AMild
<1>6. AConfig(AInstalled(c, S, r)) /\ AFrame(c, AInstalled(c, S, r))
  <2> DEFINE m == IF A!Hits(c, S, "443") # {} THEN AEdited(c, A!Hits(c, S, "443"), Apply(S))
                  ELSE A!Clone(c, A!Hits(c, S, "80"), S)
  <2>1. AConfig(m) /\ AFrame(c, m)
    BY <1>2, ACloneFrame
  <2> HIDE DEF m
  <2>2. AConfig(Redone(m, S, r)) /\ AFrame(c, Redone(m, S, r))
    BY <2>1, ARedone
  <2> QED BY <2>2 DEF AInstalled, m
<1> QED BY <1>3, <1>4, <1>5, <1>6 DEF AEnhanced

-----------------------------------------------------------------------------
(* Apache: the challenge.                                                  *)

\* Nothing of a challenge is there.
NoSnippets(c) == \A i \in DOMAIN c.blocks : c.blocks[i].snippets = 0

\* One snippet more, and nothing else.
LEMMA AOneMore ==
  ASSUME NEW v \in HostA
  PROVE  LET u == [v EXCEPT !.snippets = @ + 1] IN
         /\ u \in HostA /\ u.snippets > 0
         /\ u.names = v.names /\ u.port = v.port /\ u.macro = v.macro
         /\ A!Path(u) = A!Path(v) /\ [u EXCEPT !.snippets = 0] = [v EXCEPT !.snippets = 0]
<1> DEFINE n == v.snippets + 1
           u == [v EXCEPT !.snippets = n]
<1>1. n \in Nat /\ n > 0
  BY DEF HostA, A!Host
<1> HIDE DEF n
<1>2. u \in HostA /\ u.snippets = n
      /\ u.names = v.names /\ u.port = v.port /\ u.macro = v.macro
      /\ A!Path(u) = A!Path(v) /\ [u EXCEPT !.snippets = 0] = [v EXCEPT !.snippets = 0]
  BY <1>1 DEF HostA, A!Host, A!Path
<1> QED BY <1>1, <1>2 DEF n

\* Inject, host by host.
LEMMA AInjectShape ==
  ASSUME NEW c, AConfig(c), NEW S
  PROVE  LET e == A!Inject(c, S) IN
         /\ AConfig(e)
         /\ DOMAIN e.blocks = DOMAIN c.blocks
         /\ \A i \in DOMAIN c.blocks :
              e.blocks[i] = IF i \in A!ChallengeHits(c, S)
                            THEN [c.blocks[i] EXCEPT !.snippets = @ + 1] ELSE c.blocks[i]
<1> DEFINE X == [i \in DOMAIN c.blocks |->
                   IF i \in A!ChallengeHits(c, S)
                   THEN [c.blocks[i] EXCEPT !.snippets = @ + 1] ELSE c.blocks[i]]
           e == A!Inject(c, S)
<1>1. e = [c EXCEPT !.blocks = X]
  BY DEF A!Inject, A!Edit
<1>2. ASSUME NEW v \in HostA PROVE [v EXCEPT !.snippets = @ + 1] \in HostA
  BY AOneMore
<1>3. X \in [DOMAIN c.blocks -> HostA]
  BY <1>2, HostFields
<1>4. DOMAIN X = DOMAIN c.blocks
      /\ \A i \in DOMAIN c.blocks : X[i] = IF i \in A!ChallengeHits(c, S)
                            THEN [c.blocks[i] EXCEPT !.snippets = @ + 1] ELSE c.blocks[i]
  OBVIOUS
<1> HIDE DEF X, e
<1>5. e = [blocks |-> X]
  BY <1>1, HostFields
<1>6. AConfig(e) /\ e.blocks = X
  BY <1>3, <1>5, AConfigIs, HostFields
<1> QED BY <1>4, <1>6 DEF e

\* RemoveChallenge, host by host.
LEMMA ARemoveShape ==
  ASSUME NEW c, AConfig(c), NEW paths
  PROVE  LET e == A!RemoveChallenge(c, paths) IN
         /\ AConfig(e)
         /\ e = [blocks |-> [i \in DOMAIN c.blocks |->
                  IF A!Path(c.blocks[i]) \in paths
                  THEN [c.blocks[i] EXCEPT !.snippets = 0] ELSE c.blocks[i]]]
<1> DEFINE X == [i \in DOMAIN c.blocks |->
                   IF A!Path(c.blocks[i]) \in paths
                   THEN [c.blocks[i] EXCEPT !.snippets = 0] ELSE c.blocks[i]]
           Y == [i \in DOMAIN c.blocks |->
                   IF i \in {j \in DOMAIN c.blocks : A!Path(c.blocks[j]) \in paths}
                   THEN [c.blocks[i] EXCEPT !.snippets = 0] ELSE c.blocks[i]]
           e == A!RemoveChallenge(c, paths)
<1>1. e = [c EXCEPT !.blocks = Y]
  BY DEF A!RemoveChallenge, A!Edit
<1>2. X = Y
  OBVIOUS
<1>3. ASSUME NEW v \in HostA PROVE [v EXCEPT !.snippets = 0] \in HostA
  BY DEF HostA, A!Host
<1>4. X \in [DOMAIN c.blocks -> HostA]
  BY <1>3, HostFields
<1> HIDE DEF X, Y, e
<1>5. e = [blocks |-> X]
  BY <1>1, <1>2, HostFields
<1>6. AConfig(e)
  BY <1>4, <1>5, AConfigIs, HostFields
<1> QED BY <1>5, <1>6 DEF e, X

\* Where there is nothing of a challenge, there is nothing to take out.
LEMMA ANothingLeft ==
  ASSUME NEW c, AConfig(c), NoSnippets(c), NEW paths
  PROVE  A!RemoveChallenge(c, paths) = c
<1>1. \A i \in DOMAIN c.blocks : [c.blocks[i] EXCEPT !.snippets = 0] = c.blocks[i]
  <2>1. ASSUME NEW v \in HostA, v.snippets = 0 PROVE [v EXCEPT !.snippets = 0] = v
    BY <2>1 DEF HostA, A!Host
  <2> QED BY <2>1, HostFields DEF NoSnippets
<1>2. [i \in DOMAIN c.blocks |-> IF A!Path(c.blocks[i]) \in paths
                  THEN [c.blocks[i] EXCEPT !.snippets = 0] ELSE c.blocks[i]] = c.blocks
  <2>1. c.blocks = [i \in DOMAIN c.blocks |-> c.blocks[i]]
    BY DEF AConfig, A!IsConfig
  <2> QED BY <1>1, <2>1
<1>3. A!RemoveChallenge(c, paths) = [blocks |-> c.blocks]
  BY <1>2, ARemoveShape
<1> QED BY <1>3, HostFields

\* What a Prepare has put in, the Cleanup takes out, with all that was there before.
LEMMA AUndone ==
  ASSUME NEW c, AConfig(c), NEW w, NoSnippets(w), NEW paths,
         A!RemoveChallenge(c, paths) = w, NEW S
  PROVE  A!RemoveChallenge(A!Inject(c, S), paths \cup A!Touched(c, S)) = w
<1> DEFINE e == A!Inject(c, S)
           more == paths \cup A!Touched(c, S)
           X == [i \in DOMAIN c.blocks |-> IF A!Path(c.blocks[i]) \in paths
                  THEN [c.blocks[i] EXCEPT !.snippets = 0] ELSE c.blocks[i]]
           Y == [i \in DOMAIN e.blocks |-> IF A!Path(e.blocks[i]) \in more
                  THEN [e.blocks[i] EXCEPT !.snippets = 0] ELSE e.blocks[i]]
<1>1. w = [blocks |-> X]
  BY ARemoveShape
<1>2. AConfig(e) /\ DOMAIN e.blocks = DOMAIN c.blocks
      /\ \A i \in DOMAIN c.blocks :
           e.blocks[i] = IF i \in A!ChallengeHits(c, S)
                         THEN [c.blocks[i] EXCEPT !.snippets = @ + 1] ELSE c.blocks[i]
  BY AInjectShape
<1> HIDE DEF e
<1>3. A!RemoveChallenge(e, more) = [blocks |-> Y]
  BY <1>2, ARemoveShape
<1>4. ASSUME NEW i \in DOMAIN c.blocks PROVE Y[i] = X[i]
  <2> DEFINE v == c.blocks[i]
             u == e.blocks[i]
  <2>1. v \in HostA /\ u = IF i \in A!ChallengeHits(c, S) THEN [v EXCEPT !.snippets = @ + 1] ELSE v
    BY <1>2, HostFields
  <2>2. i \in A!ChallengeHits(c, S) => A!Path(v) \in more
    BY DEF A!Touched
  <2>3. X[i] = IF A!Path(v) \in paths THEN [v EXCEPT !.snippets = 0] ELSE v
    OBVIOUS
  <2>4. Y[i] = IF A!Path(u) \in more THEN [u EXCEPT !.snippets = 0] ELSE u
    BY <1>2
  <2>5. X[i].snippets = 0
    BY <1>1 DEF NoSnippets
  <2> HIDE DEF X, Y, u, v
  <2>6. A!Path(u) = A!Path(v) /\ [u EXCEPT !.snippets = 0] = [v EXCEPT !.snippets = 0]
    BY <2>1 DEF A!Path, HostA, A!Host
  <2>7. CASE A!Path(v) \in paths
    BY <2>3, <2>4, <2>6, <2>7
  <2>8. CASE A!Path(v) \notin paths /\ A!Path(v) \in more
    <3>1. v.snippets = 0
      BY <2>3, <2>5, <2>8
    <3>2. [v EXCEPT !.snippets = 0] = v
      BY <2>1, <3>1 DEF HostA, A!Host
    <3> QED BY <2>3, <2>4, <2>6, <2>8, <3>2
  <2>9. CASE A!Path(v) \notin more
    BY <2>1, <2>2, <2>3, <2>4, <2>6, <2>9
  <2> QED BY <2>7, <2>8, <2>9
<1>5. Y = X
  BY <1>2, <1>4
<1> HIDE DEF X, Y
<1> QED BY <1>1, <1>3, <1>5 DEF e

\* The hosts a challenge is for do not depend on what is there of it.
LEMMA AInjected ==
  ASSUME NEW c, AConfig(c), NEW S
  PROVE  LET e == A!Inject(c, S) IN
           \A i \in A!ChallengeHits(e, S) : e.blocks[i].snippets > 0
<1> DEFINE e == A!Inject(c, S)
<1>1. AConfig(e) /\ DOMAIN e.blocks = DOMAIN c.blocks
      /\ \A i \in DOMAIN c.blocks :
           e.blocks[i] = IF i \in A!ChallengeHits(c, S)
                         THEN [c.blocks[i] EXCEPT !.snippets = @ + 1] ELSE c.blocks[i]
  BY AInjectShape
<1> HIDE DEF e
<1>2. ASSUME NEW i \in DOMAIN c.blocks
      PROVE  /\ c.blocks[i] \in HostA
             /\ e.blocks[i].names = c.blocks[i].names /\ e.blocks[i].port = c.blocks[i].port
             /\ e.blocks[i].macro = c.blocks[i].macro
             /\ i \in A!ChallengeHits(c, S) => e.blocks[i].snippets > 0
  <2>1. c.blocks[i] \in HostA
    BY HostFields
  <2> QED BY <1>1, <2>1, AOneMore
<1>3. \A port : A!OnPort(e, port) = A!OnPort(c, port)
  BY <1>1, <1>2 DEF A!OnPort
<1>4. A!Visible(e) = A!Visible(c)
  BY <1>1, <1>2 DEF A!Visible
<1>5. \A i \in DOMAIN c.blocks : A!Named(e.blocks[i], S) <=> A!Named(c.blocks[i], S)
  BY <1>2 DEF A!Named, A!Names
<1>6. A!OnPort(c, "80") \subseteq DOMAIN c.blocks /\ A!Visible(c) \subseteq DOMAIN c.blocks
  BY DEF A!OnPort, A!Visible
<1>7. A!Hits(e, S, "80") = A!Hits(c, S, "80")
  BY <1>3, <1>4, <1>5, <1>6 DEF A!Hits
<1>8. {i \in A!OnPort(e, "80") \cap A!Visible(e) : e.blocks[i].names = {}}
        = {i \in A!OnPort(c, "80") \cap A!Visible(c) : c.blocks[i].names = {}}
  BY <1>2, <1>3, <1>4, <1>6
<1>9. {i \in A!Visible(e) : A!Named(e.blocks[i], S)} = {i \in A!Visible(c) : A!Named(c.blocks[i], S)}
  BY <1>4, <1>5, <1>6
<1>10. A!ChallengeHits(e, S) = A!ChallengeHits(c, S)
  <2> DEFINE named == A!Hits(c, S, "80")
             all == A!OnPort(c, "80") \cap A!Visible(c)
             nameless == {i \in all : c.blocks[i].names = {}}
             anywhere == {i \in A!Visible(c) : A!Named(c.blocks[i], S)}
             choice == CASE named # {} -> named \cup nameless
                         [] named = {} /\ all # {} -> all
                         [] OTHER -> anywhere
  <2>1. A!ChallengeHits(c, S) = choice
    BY DEF A!ChallengeHits
  <2>2. A!ChallengeHits(e, S) = choice
    <3> HIDE DEF choice
    <3>1. A!ChallengeHits(e, S) =
            CASE A!Hits(e, S, "80") # {} -> A!Hits(e, S, "80")
                   \cup {i \in A!OnPort(e, "80") \cap A!Visible(e) : e.blocks[i].names = {}}
              [] A!Hits(e, S, "80") = {} /\ A!OnPort(e, "80") \cap A!Visible(e) # {}
                   -> A!OnPort(e, "80") \cap A!Visible(e)
              [] OTHER -> {i \in A!Visible(e) : A!Named(e.blocks[i], S)}
      BY DEF A!ChallengeHits
    <3>2. choice = CASE named # {} -> named \cup nameless
                     [] named = {} /\ all # {} -> all
                     [] OTHER -> anywhere
      BY DEF choice
    <3>3. /\ A!Hits(e, S, "80") = named
          /\ A!OnPort(e, "80") \cap A!Visible(e) = all
          /\ {i \in A!OnPort(e, "80") \cap A!Visible(e) : e.blocks[i].names = {}} = nameless
          /\ {i \in A!Visible(e) : A!Named(e.blocks[i], S)} = anywhere
      BY <1>3, <1>4, <1>7, <1>8, <1>9
    <3> HIDE DEF named, all, nameless, anywhere
    <3> QED BY <3>1, <3>2, <3>3
  <2> QED BY <2>1, <2>2
<1>11. A!ChallengeHits(c, S) \subseteq DOMAIN c.blocks
  BY <1>6 DEF A!ChallengeHits, A!Hits
<1> QED BY <1>2, <1>10, <1>11 DEF e

-----------------------------------------------------------------------------
(* Both servers at once: s is the one in use.                              *)

Server == {"nginx", "apache"}

\* A configuration of server s.
Config(s, c) == IF s = "nginx" THEN c \in N!Config(Cert) ELSE AConfig(c)

\* What of a configuration edits depend on.
Seen(s, c) == IF s = "nginx" THEN NKnown(c) ELSE c

\* No trace of a challenge, and copies where they belong.
Clean(s, c) == IF s = "nginx" THEN N!ByHand(c) ELSE NoSnippets(c) /\ Structured(c)

\* What an edit makes of it.
Made(s, c, j) ==
  IF s = "nginx"
  THEN IF j.then = "install" THEN NInstalled(c, j.domains, j.redirect)
       ELSE NEnhanced(c, j.domains, j.then)
  ELSE IF j.then = "install" THEN AInstalled(c, j.domains, j.redirect)
       ELSE AEnhanced(c, j.domains, j.then)

\* What the Cleanup makes of it.
Cleared(s, c, p) ==
  IF s = "nginx" THEN N!RemoveChallenge(c, p.paths, p.include, p.bucket)
  ELSE A!RemoveChallenge(c, p.paths)

\* The jobs that edit.
Work == [todo : Seq(Orders), then : {"install", "hsts", "staple", "redirect"},
         domains : Orders, redirect : BOOLEAN, failed : BOOLEAN]

\* The edit of the specification is Made.
LEMMA EditedIs ==
  ASSUME NEW c, Config(server, c), Clean(server, c), NEW j \in Work, server \in Server
  PROVE  Edited(c, j) = Made(server, c, j)
<1>1. j.domains \in Orders /\ j.redirect \in BOOLEAN
      /\ (j.then # "install" => j.then \in {"hsts", "staple", "redirect"})
  BY DEF Work
<1>2. CASE server = "nginx"
  <2>1. c \in N!Config(Cert)
    BY <1>2 DEF Config
  <2>2. CASE j.then = "install"
    BY <1>1, <1>2, <2>1, <2>2, NInstallIs DEF Edited, Made, IsNginx
  <2>3. CASE j.then # "install"
    BY <1>1, <1>2, <2>1, <2>3, NEnhanceIs DEF Edited, Made, IsNginx
  <2> QED BY <2>2, <2>3
<1>3. CASE server # "nginx"
  <2>1. AConfig(c) /\ Structured(c)
    BY <1>3 DEF Config, Clean
  <2>2. CASE j.then = "install"
    BY <1>1, <1>3, <2>1, <2>2, AInstallIs DEF Edited, Made, IsNginx
  <2>3. CASE j.then # "install"
    BY <1>1, <1>3, <2>1, <2>3, AEnhanceIs DEF Edited, Made, IsNginx
  <2> QED BY <2>2, <2>3
<1> QED BY <1>2, <1>3

\* What an installer changes is none of a challenge.
LEMMA NEditedByHand ==
  ASSUME NEW c \in N!Config(Cert), N!ByHand(c), NEW S, NEW F, Neutral(F)
  PROVE  N!ByHand(NEdited(c, S, F))
<1> DEFINE e == NEdited(c, S, F)
<1>1. e.include = c.include /\ e.bucket = c.bucket /\ DOMAIN e.blocks = DOMAIN c.blocks
      /\ \A i \in DOMAIN c.blocks : e.blocks[i] = IF i \in S THEN F[c.blocks[i]] ELSE c.blocks[i]
  BY NEditedShape
<1> HIDE DEF e
<1>2. \A i \in DOMAIN c.blocks : e.blocks[i].acme = c.blocks[i].acme
  BY <1>1, BlockFields DEF Neutral
<1>3. N!ByHand(e)
  BY <1>1, <1>2 DEF N!ByHand
<1> QED BY <1>3 DEF e

\* The same of a whole edit.
LEMMA NMadeByHand ==
  ASSUME NEW c \in N!Config(Cert), N!ByHand(c), NEW S \in Orders, NEW r \in BOOLEAN,
         NEW what \in {"hsts", "staple", "redirect"}
  PROVE  N!ByHand(NInstalled(c, S, r)) /\ N!ByHand(NEnhanced(c, S, what))
<1> DEFINE m == NEdited(c, N!Hits(c, S), Secure(S))
<1>1. m \in N!Config(Cert) /\ N!ByHand(m)
  BY NEditedShape, NEditedByHand, NNeutral
<1> HIDE DEF m
<1>2. \A T : N!ByHand(NEdited(m, T, Redirect(S)))
  BY <1>1, NEditedByHand, NNeutral
<1>3. N!ByHand(NInstalled(c, S, r))
  BY <1>1, <1>2 DEF NInstalled, m
<1>4. N!ByHand(NEnhanced(c, S, what))
  BY NEditedByHand, NNeutral DEF NEnhanced
<1> QED BY <1>3, <1>4

\* A frame of a clean configuration is clean.
LEMMA AFrameClean ==
  ASSUME NEW c, NEW e, AConfig(c), AConfig(e), NoSnippets(c), Structured(c), AFrame(c, e)
  PROVE  NoSnippets(e) /\ Structured(e)
<1>1. ASSUME NEW k \in DOMAIN e.blocks PROVE e.blocks[k].snippets = 0
  <2>1. CASE k \in DOMAIN c.blocks
    BY <2>1 DEF AFrame, NoSnippets
  <2>2. CASE k \notin DOMAIN c.blocks
    BY <2>2 DEF AFrame, NoSnippets, A!OnPort
  <2> QED BY <2>1, <2>2
<1> QED BY <1>1, AFrameStructured DEF NoSnippets

\* An edit of a clean configuration gives a clean one.
LEMMA MadeClean ==
  ASSUME NEW s \in Server, NEW c, Config(s, c), Clean(s, c), NEW j \in Work
  PROVE  Config(s, Made(s, c, j)) /\ Clean(s, Made(s, c, j))
<1>1. j.domains \in Orders /\ j.redirect \in BOOLEAN
      /\ (j.then # "install" => j.then \in {"hsts", "staple", "redirect"})
  BY DEF Work
<1>2. CASE s = "nginx"
  <2>1. c \in N!Config(Cert) /\ N!ByHand(c)
    BY <1>2 DEF Config, Clean
  <2>2. CASE j.then = "install"
    BY <1>1, <1>2, <2>1, <2>2, NInstalledKnown, NMadeByHand DEF Config, Clean, Made
  <2>3. CASE j.then # "install"
    BY <1>1, <1>2, <2>1, <2>3, NEnhancedKnown, NMadeByHand DEF Config, Clean, Made
  <2> QED BY <2>2, <2>3
<1>3. CASE s # "nginx"
  <2>1. AConfig(c) /\ NoSnippets(c) /\ Structured(c)
    BY <1>3 DEF Config, Clean
  <2>2. AConfig(Made(s, c, j)) /\ AFrame(c, Made(s, c, j))
    BY <1>1, <1>3, <2>1, AMade DEF Made
  <2> QED BY <1>3, <2>1, <2>2, AFrameClean DEF Config, Clean
<1> QED BY <1>2, <1>3

\* Nor does an edit depend on the rewrites of the user's own.
LEMMA MadeSeen ==
  ASSUME NEW s \in Server, NEW c, NEW w, Config(s, c), Config(s, w), Seen(s, c) = Seen(s, w),
         NEW j \in Work
  PROVE  Seen(s, Made(s, c, j)) = Seen(s, Made(s, w, j))
<1>1. j.domains \in Orders /\ j.redirect \in BOOLEAN
      /\ (j.then # "install" => j.then \in {"hsts", "staple", "redirect"})
  BY DEF Work
<1>2. CASE s = "nginx"
  <2>1. c \in N!Config(Cert) /\ w \in N!Config(Cert) /\ NKnown(c) = NKnown(w)
    BY <1>2 DEF Config, Seen
  <2>2. CASE j.then = "install"
    <3>1. NKnown(NInstalled(c, j.domains, j.redirect)) = NKnown(NInstalled(w, j.domains, j.redirect))
      BY <1>1, <2>1, NInstalledKnown
    <3> QED BY <1>2, <2>2, <3>1 DEF Seen, Made
  <2>3. CASE j.then # "install"
    <3>1. NKnown(NEnhanced(c, j.domains, j.then)) = NKnown(NEnhanced(w, j.domains, j.then))
      BY <1>1, <2>1, <2>3, NEnhancedKnown
    <3> QED BY <1>2, <2>3, <3>1 DEF Seen, Made
  <2> QED BY <2>2, <2>3
<1>3. CASE s # "nginx"
  BY <1>3 DEF Seen
<1> QED BY <1>2, <1>3

\* What looks like a clean configuration is clean.
LEMMA SeenClean ==
  ASSUME NEW s \in Server, NEW c, NEW w, Config(s, c), Config(s, w), Seen(s, c) = Seen(s, w),
         Clean(s, w)
  PROVE  Clean(s, c)
<1>1. CASE s = "nginx"
  BY <1>1, NKnownByHand DEF Config, Seen, Clean
<1>2. CASE s # "nginx"
  BY <1>2 DEF Config, Seen, Clean
<1> QED BY <1>1, <1>2

\* A configuration without its challenge is a configuration.
LEMMA ClearedConfig ==
  ASSUME NEW s \in Server, NEW c, Config(s, c),
         NEW P, NEW p \in [paths : P, include : BOOLEAN, bucket : BOOLEAN]
  PROVE  Config(s, Cleared(s, c, p))
<1>1. CASE s = "nginx"
  <2>1. c \in N!Config(Cert) /\ p.include \in BOOLEAN /\ p.bucket \in BOOLEAN
    BY <1>1 DEF Config
  <2>2. N!RemoveChallenge(c, p.paths, p.include, p.bucket) \in N!Config(Cert)
    BY <2>1, NRemoveShape
  <2> QED BY <1>1, <2>2 DEF Config, Cleared
<1>2. CASE s # "nginx"
  BY <1>2, ARemoveShape DEF Config, Cleared
<1> QED BY <1>1, <1>2

-----------------------------------------------------------------------------
(* The inductive invariant.                                                *)

\* TypeOK, with the server as a parameter.
Typed(s, cs, j, p) ==
  /\ \A c \in cs : Config(s, c)
  /\ j \in [todo : Seq(Orders), then : {"end", "install", "hsts", "staple", "redirect"},
            domains : SUBSET Domain, redirect : BOOLEAN, failed : BOOLEAN]
  /\ p \in [paths : SUBSET (IF s = "nginx" THEN STRING ELSE STRING \X {"source", A!Copy}),
            include : BOOLEAN, bucket : BOOLEAN]

Types ==
  /\ server \in Server
  /\ Typed(server, {conf, want} \cup saved, job, plugin)
  /\ challenges = None \/ challenges \in SUBSET Domain
  /\ pc \in {"idle", "prepare", "injected", "present", "validate", "cleanup", "edit", "edited"}
  /\ runs \in 0..MaxRuns

AtChallenge == pc \in {"injected", "present", "validate", "cleanup"}

Jobs ==
  /\ AtChallenge \/ pc = "prepare" => job.todo # <<>>
  /\ job.then # "end" => job.domains \in Orders
  /\ pc \in {"edit", "edited"} => job.then # "end" /\ ~job.failed
  /\ pc = "idle" => plugin = Fresh

\* What has been installed is all there is in the configuration that is wanted.
Wanted == Clean(server, want)

\* A snapshot is of the configuration that is wanted.
Snapshots == \A c \in saved : Seen(server, c) = Seen(server, want)

\* Whatever is changed has a snapshot.
Covered ==
  /\ pc \in {"idle", "prepare", "edit"} /\ saved = {} => Seen(server, conf) = Seen(server, want)
  /\ AtChallenge \/ pc = "edited" => saved # {}

\* A run in which nothing failed begins each step with what is wanted.
Intact ==
  /\ pc \in {"prepare", "edit"} /\ ~job.failed => Seen(server, conf) = Seen(server, want)
  /\ pc = "edited" => Seen(server, conf) = Seen(server, Made(server, want, job))

\* The plugin object knows enough to undo a challenge: of nginx if nothing failed, of
\* apache always, since the files of every Prepare of the run stay in its list.
Reversible ==
  /\ server = "nginx" /\ AtChallenge /\ ~job.failed =>
       Seen(server, Cleared(server, conf, plugin)) = Seen(server, want)
  /\ server # "nginx" /\ (AtChallenge \/ pc = "prepare") => Cleared(server, conf, plugin) = want

\* The challenge is in the configuration.
Prepared(s, c, S) ==
  IF s = "nginx" THEN c.include
  ELSE \A i \in A!ChallengeHits(c, S) : c.blocks[i].snippets > 0

Answers ==
  /\ AtChallenge => challenges # None /\ Prepared(server, conf, Head(job.todo))
  /\ pc = "validate" => challenges = Head(job.todo)

\* The conjuncts need each other: a Cleanup restores what is wanted because of Reversible,
\* a failure is made good because of Covered and Snapshots, and the next edit is of what
\* is wanted because of Intact.
IInv ==
  /\ Types /\ Jobs /\ Wanted /\ Snapshots /\ Covered /\ Intact /\ Reversible /\ Answers

\* TypeOK is the part Types.
LEMMA TypeIs == TypeOK <=> Types
<1>1. \A c : IsConfig(c) <=> Config(server, c)
  BY DEF IsConfig, Config, AConfig, IsNginx
<1> QED BY <1>1 DEF TypeOK, Types, Typed, Server, IsNginx

\* Types, taken apart.
LEMMA Configs ==
  ASSUME Types
  PROVE  /\ server \in Server /\ Config(server, conf) /\ Config(server, want)
         /\ \A c \in saved : Config(server, c)
         /\ IsNginx <=> server = "nginx"
  BY DEF Types, Typed, IsNginx

\* The next lineage of a job.
LEMMA FirstTodo ==
  ASSUME NEW todo \in Seq(Orders), todo # <<>>
  PROVE  Head(todo) \in Orders /\ Tail(todo) \in Seq(Orders)
  OBVIOUS

\* An edit is made of what is wanted, as far as can be seen.
LEMMA EditOf ==
  ASSUME IInv, pc \in {"edit", "edited"}
  PROVE  /\ job \in Work
         /\ Edited(want, job) = Made(server, want, job)
         /\ Config(server, Edited(want, job)) /\ Clean(server, Edited(want, job))
         /\ pc = "edit" => /\ Seen(server, conf) = Seen(server, want)
                           /\ Clean(server, conf)
                           /\ Edited(conf, job) = Made(server, conf, job)
                           /\ Config(server, Edited(conf, job))
                           /\ Seen(server, Edited(conf, job)) = Seen(server, Edited(want, job))
<1>1. server \in Server /\ Config(server, conf) /\ Config(server, want)
  BY Configs DEF IInv
<1>2. job \in Work
  BY DEF IInv, Types, Typed, Jobs, Work
<1>3. Clean(server, want)
  BY DEF IInv, Wanted
<1>4. Edited(want, job) = Made(server, want, job)
  BY <1>1, <1>2, <1>3, EditedIs
<1>5. Config(server, Edited(want, job)) /\ Clean(server, Edited(want, job))
  BY <1>1, <1>2, <1>3, <1>4, MadeClean
<1>6. ASSUME pc = "edit"
      PROVE  /\ Seen(server, conf) = Seen(server, want)
             /\ Clean(server, conf)
             /\ Edited(conf, job) = Made(server, conf, job)
             /\ Config(server, Edited(conf, job))
             /\ Seen(server, Edited(conf, job)) = Seen(server, Edited(want, job))
  <2>1. Seen(server, conf) = Seen(server, want)
    BY <1>6 DEF IInv, Jobs, Intact
  <2>2. Clean(server, conf)
    BY <1>1, <1>3, <2>1, SeenClean
  <2>3. Edited(conf, job) = Made(server, conf, job)
    BY <1>1, <1>2, <2>2, EditedIs
  <2> QED BY <1>1, <1>2, <1>4, <2>1, <2>2, <2>3, MadeClean, MadeSeen
<1> QED BY <1>2, <1>4, <1>5, <1>6

\* The three ways on from a lineage.
LEMMA NextLineageDoes ==
  ASSUME Types, Jobs, job.todo # <<>>, NEW f \in BOOLEAN, NextLineage(f)
  PROVE  /\ job' \in [todo : Seq(Orders), then : {"end", "install", "hsts", "staple", "redirect"},
                      domains : SUBSET Domain, redirect : BOOLEAN, failed : BOOLEAN]
         /\ job'.then # "end" => job'.domains \in Orders
         /\ \/ /\ pc' = "prepare" /\ plugin' = plugin /\ job'.todo # <<>>
               /\ job'.failed <=> job.failed \/ f
            \/ /\ pc' = "edit" /\ plugin' = plugin /\ job'.then # "end"
               /\ ~job'.failed /\ ~job.failed /\ ~f
            \/ pc' = "idle" /\ plugin' = Fresh
<1> DEFINE todo == Tail(job.todo)
           g == job.failed \/ f
           j == [job EXCEPT !.todo = todo, !.failed = g]
<1>1. job \in [todo : Seq(Orders), then : {"end", "install", "hsts", "staple", "redirect"},
               domains : SUBSET Domain, redirect : BOOLEAN, failed : BOOLEAN]
  BY DEF Types, Typed
<1>2. todo \in Seq(Orders) /\ g \in BOOLEAN
  BY <1>1, FirstTodo
<1>3. \/ todo # <<>> /\ pc' = "prepare" /\ job' = j /\ UNCHANGED plugin
      \/ j.then # "end" /\ ~j.failed /\ pc' = "edit" /\ job' = j /\ UNCHANGED plugin
      \/ Stop
  BY DEF NextLineage
<1> HIDE DEF g, todo
<1>4. j \in [todo : Seq(Orders), then : {"end", "install", "hsts", "staple", "redirect"},
             domains : SUBSET Domain, redirect : BOOLEAN, failed : BOOLEAN]
      /\ j.todo = todo /\ j.failed = g /\ j.then = job.then /\ j.domains = job.domains
  BY <1>1, <1>2
<1>5. j.then # "end" => j.domains \in Orders
  BY <1>4 DEF Jobs
<1>6. CASE todo # <<>> /\ pc' = "prepare" /\ job' = j /\ UNCHANGED plugin
  <2> HIDE DEF j
  <2> QED BY <1>4, <1>5, <1>6 DEF g
<1>7. CASE j.then # "end" /\ ~j.failed /\ pc' = "edit" /\ job' = j /\ UNCHANGED plugin
  <2> HIDE DEF j
  <2> QED BY <1>4, <1>5, <1>7 DEF g
<1>8. CASE Stop
  <2>1. <<>> \in Seq(Orders) /\ {} \in SUBSET Domain
    OBVIOUS
  <2> QED BY <1>8, <2>1 DEF Stop, Idle, Job
<1> QED BY <1>3, <1>6, <1>7, <1>8

\* At first nothing is installed.
LEMMA InitIInv == Init => IInv
<1> SUFFICES ASSUME Init PROVE IInv
  OBVIOUS
<1>1. /\ server \in Server /\ Config(server, conf) /\ Clean(server, conf) /\ want = conf
      /\ challenges = None /\ saved = {} /\ pc = "idle" /\ job = Idle /\ plugin = Fresh /\ runs = 0
  <2>1. PICK l \in Layout : server = l.server /\ conf = l.conf /\ want = l.conf
    BY DEF Init
  <2>2. CASE l.server = "nginx" /\ l.conf \in N!Config(Cert) /\ N!ByHand(l.conf)
    BY <2>1, <2>2 DEF Init, Config, Clean, Server
  <2>3. CASE l.server = "apache" /\ A!IsConfig(l.conf, Cert) /\ A!ByHand(l.conf)
    <3>1. AConfig(conf)
      BY <2>1, <2>3 DEF AConfig
    <3>2. Structured(conf) /\ NoSnippets(conf)
      BY <2>1, <2>3 DEF A!ByHand, Structured, NoSnippets
    <3> QED BY <2>1, <2>3, <3>1, <3>2 DEF Init, Config, Clean, Server
  <2> QED BY <2>1, <2>2, <2>3, ServersAssumption
<1>2. Types
  <2>1. job \in [todo : Seq(Orders), then : {"end", "install", "hsts", "staple", "redirect"},
                 domains : SUBSET Domain, redirect : BOOLEAN, failed : BOOLEAN]
    <3>1. <<>> \in Seq(Orders) /\ {} \in SUBSET Domain
      OBVIOUS
    <3> QED BY <1>1, <3>1 DEF Idle, Job
  <2>2. 0 \in 0..MaxRuns
    BY ServersAssumption
  <2> QED BY <1>1, <2>1, <2>2 DEF Types, Typed, Fresh
<1>3. Jobs /\ Wanted /\ Snapshots /\ Covered /\ Intact /\ Reversible /\ Answers
  BY <1>1 DEF Jobs, Wanted, Snapshots, Covered, Intact, Reversible, Answers, AtChallenge, Idle, Job
<1> QED BY <1>2, <1>3 DEF IInv

\* A run restores the snapshot.
LEMMA BeginIInv ==
  ASSUME IInv, NEW j \in [todo : Seq(Orders), then : {"end", "install", "hsts", "staple", "redirect"},
                          domains : SUBSET Domain, redirect : BOOLEAN, failed : {FALSE}],
         j.then # "end" => j.domains \in Orders,
         j.todo = <<>> => j.then # "end",
         Begin(j)
  PROVE  IInv'
<1>1. pc = "idle" /\ conf' \in Restored /\ saved' = {} /\ job' = j /\ runs' = runs + 1
      /\ pc' = (IF j.todo = <<>> THEN "edit" ELSE "prepare") /\ runs < MaxRuns
      /\ UNCHANGED <<server, challenges, plugin, want>>
  BY DEF Begin
<1>2. server \in Server /\ Config(server, conf) /\ Config(server, want)
      /\ \A c \in saved : Config(server, c)
  BY Configs DEF IInv
<1>3. Config(server, conf') /\ Seen(server, conf') = Seen(server, want) /\ plugin = Fresh
  BY <1>1, <1>2 DEF Restored, IInv, Jobs, Covered, Snapshots
<1>4. Types'
  <2>1. runs' \in 0..MaxRuns
    BY <1>1, ServersAssumption DEF IInv, Types
  <2> QED BY <1>1, <1>2, <1>3, <2>1 DEF IInv, Types, Typed
<1>5. Jobs' /\ Wanted' /\ Snapshots' /\ Covered' /\ Intact' /\ Answers'
  BY <1>1, <1>3 DEF IInv, Jobs, Wanted, Snapshots, Covered, Intact, Answers, AtChallenge
<1>6. Reversible'
  <2>1. CASE server = "nginx"
    BY <1>1, <2>1 DEF Reversible, AtChallenge
  <2>2. CASE server # "nginx"
    <3>1. conf' = want /\ AConfig(want) /\ NoSnippets(want)
      BY <1>2, <1>3, <2>2 DEF Seen, Config, IInv, Wanted, Clean
    <3>2. A!RemoveChallenge(want, plugin.paths) = want
      BY <3>1, ANothingLeft
    <3> QED BY <1>1, <2>2, <3>1, <3>2 DEF Reversible, Cleared
  <2> QED BY <2>1, <2>2
<1> QED BY <1>4, <1>5, <1>6 DEF IInv

\* A challenge is injected.
LEMMA PrepareIInv == IInv /\ Prepare => IInv'
<1> SUFFICES ASSUME IInv, Prepare PROVE IInv'
  OBVIOUS
<1> DEFINE S == Head(job.todo)
<1>1. pc = "prepare" /\ Inject /\ challenges' = {} /\ saved' = Restored /\ pc' = "injected"
      /\ UNCHANGED <<server, job, want, runs>>
  BY DEF Prepare, Save
<1>2. server \in Server /\ Config(server, conf) /\ Config(server, want)
      /\ \A c \in saved : Config(server, c)
  BY Configs DEF IInv
<1>3. S \in Orders /\ job.todo # <<>>
  BY <1>1, FirstTodo DEF IInv, Types, Typed, Jobs
<1>4. {} # None /\ {} \in SUBSET Domain
  BY ServersAssumption
<1>5. saved' # {} /\ \A c \in saved' : Config(server, c) /\ Seen(server, c) = Seen(server, want)
  BY <1>1, <1>2 DEF Restored, IInv, Covered, Snapshots
<1>6. Jobs' /\ Wanted' /\ Snapshots' /\ Covered' /\ Intact'
  BY <1>1, <1>3, <1>5 DEF IInv, Jobs, Wanted, Snapshots, Covered, Intact, AtChallenge
<1>7. CASE server = "nginx"
  <2>1. /\ conf' = N!Inject(conf, S)
        /\ plugin' = [paths |-> plugin.paths \cup N!Touched(conf, S),
                      include |-> ~conf.include, bucket |-> conf.bucket = "none"]
        /\ conf \in N!Config(Cert)
    BY <1>1, <1>2, <1>7 DEF Inject, IsNginx, D, Config
  <2>2. conf' \in N!Config(Cert) /\ conf'.include
    BY <2>1, NInjectShape
  <2>3. N!Touched(conf, S) \subseteq STRING
    <3>1. \A b \in BlockN : b.file \in STRING
      BY DEF BlockN, N!Block
    <3> QED BY <2>1, <3>1, BlockFields, NHitsIn DEF N!Touched, N!ChallengeHits
  <2>4. plugin.paths \subseteq STRING
    BY <1>7 DEF IInv, Types, Typed
  <2>5. plugin' \in [paths : SUBSET STRING, include : BOOLEAN, bucket : BOOLEAN]
    BY <2>1, <2>3, <2>4
  <2>6. Types'
    BY <1>1, <1>2, <1>4, <1>5, <1>7, <2>2, <2>5 DEF IInv, Types, Typed, Config
  <2>7. Answers'
    BY <1>1, <1>4, <1>7, <2>2 DEF Answers, Prepared
  <2>8. ASSUME ~job.failed
        PROVE  NKnown(N!RemoveChallenge(conf', plugin'.paths, plugin'.include, plugin'.bucket))
                 = NKnown(want)
    <3>1. NKnown(conf) = NKnown(want)
      BY <1>1, <1>7, <2>8 DEF IInv, Intact, Seen
    <3>2. N!ByHand(conf)
      BY <1>2, <1>7, <3>1, NKnownByHand DEF IInv, Wanted, Clean, Config
    <3>3. plugin'.include \in BOOLEAN /\ plugin'.bucket \in BOOLEAN
          /\ plugin'.include /\ (plugin'.bucket <=> conf.bucket = "none")
          /\ N!Touched(conf, S) \subseteq plugin'.paths
      BY <2>1, <3>2 DEF N!ByHand
    <3>4. ASSUME NEW p, N!Touched(conf, S) \subseteq p,
                 NEW inc \in BOOLEAN, inc, NEW b \in BOOLEAN, b <=> conf.bucket = "none"
          PROVE  NKnown(N!RemoveChallenge(N!Inject(conf, S), p, inc, b)) = NKnown(conf)
      <4>1. conf \in N!Config(Cert)
        BY <2>1
      <4> QED BY <4>1, <3>2, <3>4, NUndone
    <3>5. NKnown(N!RemoveChallenge(N!Inject(conf, S), plugin'.paths, plugin'.include, plugin'.bucket))
            = NKnown(conf)
      BY <3>3, <3>4
    <3> QED BY <2>1, <3>1, <3>5
  <2>9. Reversible'
    BY <1>1, <1>7, <2>8 DEF Reversible, Seen, Cleared
  <2> QED BY <1>6, <2>6, <2>7, <2>9 DEF IInv
<1>8. CASE server # "nginx"
  <2>1. /\ conf' = A!Inject(conf, S)
        /\ plugin' = [plugin EXCEPT !.paths = @ \cup A!Touched(conf, S)]
        /\ AConfig(conf)
    BY <1>1, <1>2, <1>8 DEF Inject, IsNginx, D, Config
  <2>2. AConfig(conf')
    BY <2>1, AInjectShape
  <2>3. A!Touched(conf, S) \subseteq STRING \X {"source", A!Copy}
    <3>1. A!ChallengeHits(conf, S) \subseteq DOMAIN conf.blocks
      BY DEF A!ChallengeHits, A!Hits, A!OnPort, A!Visible
    <3> QED BY <2>1, <3>1, HostFields DEF A!Touched, A!Path, HostA, A!Host
  <2>4. plugin \in [paths : SUBSET (STRING \X {"source", A!Copy}),
                    include : BOOLEAN, bucket : BOOLEAN]
    BY <1>8 DEF IInv, Types, Typed
  <2>5. plugin' \in [paths : SUBSET (STRING \X {"source", A!Copy}),
                     include : BOOLEAN, bucket : BOOLEAN]
        /\ plugin'.paths = plugin.paths \cup A!Touched(conf, S)
    BY <2>1, <2>3, <2>4
  <2>6. Types'
    BY <1>1, <1>2, <1>4, <1>5, <1>8, <2>2, <2>5 DEF IInv, Types, Typed, Config
  <2>7. Answers'
    BY <1>1, <1>4, <1>8, <2>1, AInjected DEF Answers, Prepared
  <2>8. A!RemoveChallenge(conf', plugin'.paths) = want
    <3>1. A!RemoveChallenge(conf, plugin.paths) = want /\ NoSnippets(want)
      BY <1>1, <1>8 DEF IInv, Reversible, Cleared, Wanted, Clean
    <3> QED BY <2>1, <2>5, <3>1, AUndone
  <2>9. Reversible'
    BY <1>1, <1>8, <2>8 DEF Reversible, Cleared
  <2> QED BY <1>6, <2>6, <2>7, <2>9 DEF IInv
<1> QED BY <1>7, <1>8

\* On from a lineage, however it went.
LEMMA OnwardIInv ==
  ASSUME IInv, job.todo # <<>>, NEW f \in BOOLEAN, NextLineage(f),
         UNCHANGED <<server, want, runs>>,
         Config(server, conf'),
         \A c \in saved' : Config(server, c) /\ Seen(server, c) = Seen(server, want),
         challenges' = None \/ challenges' \in SUBSET Domain,
         saved' = {} => Seen(server, conf') = Seen(server, want),
         ~f /\ ~job.failed => Seen(server, conf') = Seen(server, want),
         server # "nginx" => Cleared(server, conf', plugin) = want
  PROVE  IInv'
<1>1. server \in Server /\ Config(server, want)
  BY Configs DEF IInv
<1>2. /\ job' \in [todo : Seq(Orders), then : {"end", "install", "hsts", "staple", "redirect"},
                   domains : SUBSET Domain, redirect : BOOLEAN, failed : BOOLEAN]
      /\ job'.then # "end" => job'.domains \in Orders
      /\ \/ /\ pc' = "prepare" /\ plugin' = plugin /\ job'.todo # <<>>
            /\ job'.failed <=> job.failed \/ f
         \/ /\ pc' = "edit" /\ plugin' = plugin /\ job'.then # "end"
            /\ ~job'.failed /\ ~job.failed /\ ~f
         \/ pc' = "idle" /\ plugin' = Fresh
  BY NextLineageDoes DEF IInv
<1>3. Types'
  <2>1. plugin' \in [paths : SUBSET (IF server = "nginx" THEN STRING ELSE STRING \X {"source", A!Copy}),
                     include : BOOLEAN, bucket : BOOLEAN]
    <3> DEFINE P == SUBSET (IF server = "nginx" THEN STRING ELSE STRING \X {"source", A!Copy})
    <3>1. plugin \in [paths : P, include : BOOLEAN, bucket : BOOLEAN]
      BY DEF IInv, Types, Typed
    <3>2. {} \in P
      OBVIOUS
    <3> HIDE DEF P
    <3>3. Fresh \in [paths : P, include : BOOLEAN, bucket : BOOLEAN]
      BY <3>2 DEF Fresh
    <3>4. plugin' \in [paths : P, include : BOOLEAN, bucket : BOOLEAN]
      BY <1>2, <3>1, <3>3
    <3> QED BY <3>4 DEF P
  <2> QED BY <1>1, <1>2, <2>1 DEF IInv, Types, Typed
<1>4. Jobs'
  BY <1>2 DEF Jobs, AtChallenge
<1>5. Wanted' /\ Snapshots' /\ Covered'
  BY <1>2 DEF IInv, Wanted, Snapshots, Covered, AtChallenge
<1>6. Intact' /\ Reversible' /\ Answers'
  BY <1>2 DEF Intact, Reversible, Answers, AtChallenge
<1> QED BY <1>3, <1>4, <1>5, <1>6 DEF IInv

\* Prepare fails, before or after its edit.
LEMMA FailedIInv == IInv /\ (PrepareRefused \/ PrepareReloadFails) => IInv'
<1> SUFFICES ASSUME IInv, PrepareRefused \/ PrepareReloadFails PROVE IInv'
  OBVIOUS
<1>1. pc \in {"prepare", "injected"} /\ NextLineage(TRUE)
      /\ UNCHANGED <<server, conf, challenges, saved, want, runs>>
  BY DEF PrepareRefused, PrepareReloadFails
<1>2. job.todo # <<>>
  BY <1>1 DEF IInv, Jobs, AtChallenge
<1>3. server # "nginx" => Cleared(server, conf, plugin) = want
  BY <1>1 DEF IInv, Reversible, AtChallenge
<1>4. saved = {} => Seen(server, conf) = Seen(server, want)
  BY <1>1 DEF IInv, Covered, AtChallenge
<1>5. Config(server, conf) /\ (challenges = None \/ challenges \in SUBSET Domain)
      /\ \A c \in saved : Config(server, c) /\ Seen(server, c) = Seen(server, want)
  BY Configs DEF IInv, Types, Snapshots
<1>6. \A c \in saved' : Config(server, c) /\ Seen(server, c) = Seen(server, want)
  BY <1>1, <1>5
<1> QED BY <1>1, <1>2, <1>3, <1>4, <1>5, <1>6, OnwardIInv

\* The challenge is taken out.
LEMMA CleanupIInv == IInv /\ Cleanup => IInv'
<1> SUFFICES ASSUME IInv, Cleanup PROVE IInv'
  OBVIOUS
<1>1. pc = "cleanup" /\ conf' = Cleared(server, conf, plugin) /\ challenges' = None
      /\ saved' = (IF server = "nginx" THEN saved ELSE {}) /\ NextLineage(FALSE)
      /\ UNCHANGED <<server, want, runs>>
  BY DEF Cleanup, Cleared, IsNginx
<1>2. job.todo # <<>> /\ saved # {}
  BY <1>1 DEF IInv, Jobs, Covered, AtChallenge
<1>3. server \in Server /\ Config(server, conf) /\ Config(server, want)
      /\ \A c \in saved : Config(server, c) /\ Seen(server, c) = Seen(server, want)
  BY Configs DEF IInv, Snapshots
<1>4. Config(server, conf')
  BY <1>1, <1>3, ClearedConfig DEF IInv, Types, Typed
<1>5. ~job.failed => Seen(server, conf') = Seen(server, want)
  BY <1>1 DEF IInv, Reversible, AtChallenge
<1>6. server # "nginx" => conf' = want /\ Cleared(server, conf', plugin) = want
  <2> SUFFICES ASSUME server # "nginx"
               PROVE  conf' = want /\ Cleared(server, conf', plugin) = want
    OBVIOUS
  <2>1. conf' = want
    BY <1>1 DEF IInv, Reversible, AtChallenge
  <2>2. AConfig(want) /\ NoSnippets(want)
    BY <1>3 DEF Config, IInv, Wanted, Clean
  <2> QED BY <2>1, <2>2, ANothingLeft DEF Cleared
<1>7. \A c \in saved' : Config(server, c) /\ Seen(server, c) = Seen(server, want)
  BY <1>1, <1>3
<1>8. saved' = {} => Seen(server, conf') = Seen(server, want)
  BY <1>1, <1>2, <1>6
<1> QED BY <1>1, <1>2, <1>4, <1>5, <1>6, <1>7, <1>8, OnwardIInv

\* Between Prepare and Cleanup the configuration stays.
LEMMA ChallengeIInv ==
  IInv /\ (PrepareReloads \/ Present \/ (\E ok \in BOOLEAN : Validated(ok))) => IInv'
<1> SUFFICES ASSUME IInv, PrepareReloads \/ Present \/ (\E ok \in BOOLEAN : Validated(ok))
             PROVE  IInv'
  OBVIOUS
<1> DEFINE S == Head(job.todo)
<1>1. AtChallenge /\ S \in Orders /\ job.todo # <<>>
      /\ UNCHANGED <<server, conf, saved, plugin, want, runs>>
  <2>1. AtChallenge /\ UNCHANGED <<server, conf, saved, plugin, want, runs>>
    BY DEF PrepareReloads, Present, Validated, AtChallenge
  <2> QED BY <2>1, FirstTodo DEF IInv, Types, Typed, Jobs
<1>2. {} # None /\ {} \in SUBSET Domain /\ S # None /\ S \in SUBSET Domain
  BY <1>1, ServersAssumption DEF Orders
<1>3. PICK x \in BOOLEAN :
        /\ AtChallenge' /\ job' = [job EXCEPT !.failed = x] /\ (job.failed => x)
        /\ challenges' \in {challenges, {}, S}
        /\ pc' = "validate" => challenges' = S
        /\ pc' \in {"present", "validate", "cleanup"}
  <2>1. job \in [todo : Seq(Orders), then : {"end", "install", "hsts", "staple", "redirect"},
                 domains : SUBSET Domain, redirect : BOOLEAN, failed : BOOLEAN]
    BY DEF IInv, Types, Typed
  <2>2. [job EXCEPT !.failed = job.failed] = job
    BY <2>1
  <2>3. CASE PrepareReloads \/ Present
    <3>1. AtChallenge' /\ job' = job /\ challenges' \in {challenges, S}
          /\ (pc' = "validate" => challenges' = S) /\ pc' \in {"present", "validate"}
      BY <2>3 DEF PrepareReloads, Present, D, AtChallenge
    <3> QED BY <2>1, <2>2, <3>1
  <2>4. CASE \E ok \in BOOLEAN : Validated(ok)
    <3>1. PICK ok \in BOOLEAN : Validated(ok)
      BY <2>4
    <3> DEFINE g == job.failed \/ ~ok
    <3>2. job' = [job EXCEPT !.failed = g]
      BY <3>1 DEF Validated
    <3>3. g \in BOOLEAN /\ (job.failed => g)
      BY <2>1
    <3>4. AtChallenge' /\ challenges' = {} /\ pc' = "cleanup"
      BY <3>1 DEF Validated, AtChallenge
    <3> HIDE DEF g
    <3> QED BY <3>2, <3>3, <3>4
  <2> QED BY <2>3, <2>4
<1>4. /\ job' \in [todo : Seq(Orders), then : {"end", "install", "hsts", "staple", "redirect"},
                   domains : SUBSET Domain, redirect : BOOLEAN, failed : BOOLEAN]
      /\ job'.todo = job.todo /\ job'.then = job.then /\ job'.domains = job.domains
      /\ job.failed => job'.failed
  BY <1>3 DEF IInv, Types, Typed
<1>5. Types'
  BY <1>1, <1>2, <1>3, <1>4, Configs DEF IInv, Types, Typed
<1>6. Jobs' /\ Wanted' /\ Snapshots' /\ Covered'
  BY <1>1, <1>3, <1>4 DEF IInv, Jobs, Wanted, Snapshots, Covered, AtChallenge
<1>7. Intact' /\ Reversible' /\ Answers'
  BY <1>1, <1>2, <1>3, <1>4 DEF IInv, Intact, Reversible, Answers, AtChallenge
<1> QED BY <1>5, <1>6, <1>7 DEF IInv

\* An edit is made, or taken by the server.
LEMMA EditIInv == IInv /\ (MakeEdit \/ EditReloads) => IInv'
<1> SUFFICES ASSUME IInv, MakeEdit \/ EditReloads PROVE IInv'
  OBVIOUS
<1>1. server \in Server /\ Config(server, conf) /\ Config(server, want)
      /\ \A c \in saved : Config(server, c) /\ Seen(server, c) = Seen(server, want)
  BY Configs DEF IInv, Snapshots
<1>2. CASE MakeEdit
  <2>1. pc = "edit" /\ conf' = Edited(conf, job) /\ saved' = Restored /\ pc' = "edited"
        /\ UNCHANGED <<server, challenges, job, plugin, want, runs>>
    BY <1>2 DEF MakeEdit, Save
  <2>2. /\ Config(server, conf') /\ Seen(server, conf) = Seen(server, want)
        /\ Seen(server, conf') = Seen(server, Made(server, want, job))
    BY <2>1, EditOf
  <2>3. saved' # {} /\ \A c \in saved' : Config(server, c) /\ Seen(server, c) = Seen(server, want)
    BY <1>1, <2>1, <2>2 DEF Restored
  <2>4. Types'
    BY <1>1, <2>1, <2>2, <2>3 DEF IInv, Types, Typed
  <2>5. Jobs' /\ Wanted' /\ Snapshots' /\ Covered' /\ Intact' /\ Reversible' /\ Answers'
    BY <2>1, <2>2, <2>3
       DEF IInv, Jobs, Wanted, Snapshots, Covered, Intact, Reversible, Answers, AtChallenge
  <2> QED BY <2>4, <2>5 DEF IInv
<1>3. CASE EditReloads
  <2>1. pc = "edited" /\ saved' = {} /\ want' = Edited(want, job) /\ Stop
        /\ UNCHANGED <<server, conf, challenges, runs>>
    BY <1>3 DEF EditReloads
  <2>2. Config(server, want') /\ Clean(server, want') /\ Seen(server, conf) = Seen(server, want')
    BY <2>1, EditOf DEF IInv, Intact
  <2>3. Types'
    <3>1. <<>> \in Seq(Orders) /\ {} \in SUBSET Domain
      OBVIOUS
    <3> QED BY <1>1, <2>1, <2>2, <3>1 DEF IInv, Types, Typed, Stop, Idle, Job, Fresh
  <2>4. Jobs' /\ Wanted' /\ Snapshots' /\ Covered' /\ Intact' /\ Reversible' /\ Answers'
    BY <2>1, <2>2
       DEF Jobs, Wanted, Snapshots, Covered, Intact, Reversible, Answers, AtChallenge,
           Stop, Idle, Job
  <2> QED BY <2>3, <2>4 DEF IInv
<1> QED BY <1>2, <1>3

\* A run ends early.
LEMMA StopIInv == IInv /\ (EditRefused \/ EditReloadFails \/ Kill) => IInv'
<1> SUFFICES ASSUME IInv, EditRefused \/ EditReloadFails \/ Kill PROVE IInv'
  OBVIOUS
<1>1. pc # "idle" /\ Stop /\ UNCHANGED <<server, conf, challenges, saved, want, runs>>
  BY DEF EditRefused, EditReloadFails, Kill
<1>2. saved = {} => Seen(server, conf) = Seen(server, want)
  BY <1>1 DEF IInv, Types, Covered, AtChallenge
<1>3. Types'
  <2>1. <<>> \in Seq(Orders) /\ {} \in SUBSET Domain
    OBVIOUS
  <2> QED BY <1>1, <2>1 DEF IInv, Types, Typed, Stop, Idle, Job, Fresh
<1>4. Jobs' /\ Wanted' /\ Snapshots' /\ Covered' /\ Intact' /\ Reversible' /\ Answers'
  BY <1>1, <1>2
     DEF IInv, Jobs, Wanted, Snapshots, Covered, Intact, Reversible, Answers, AtChallenge,
         Stop, Idle, Job
<1> QED BY <1>3, <1>4 DEF IInv

\* A run begins.
LEMMA VerbIInv == IInv /\ Verb => IInv'
<1> SUFFICES ASSUME IInv, Verb PROVE IInv'
  OBVIOUS
<1> DEFINE J == [todo : Seq(Orders), then : {"end", "install", "hsts", "staple", "redirect"},
                 domains : SUBSET Domain, redirect : BOOLEAN, failed : {FALSE}]
<1>1. \A S \in Orders : S \in SUBSET Domain /\ <<S>> \in Seq(Orders) /\ <<S>> # <<>>
  BY DEF Orders
<1>2. \A S, T \in Orders : <<S, T>> \in Seq(Orders) /\ <<S, T>> # <<>>
  OBVIOUS
<1>3. <<>> \in Seq(Orders)
  OBVIOUS
<1>4. PICK j \in J : /\ j.then # "end" => j.domains \in Orders
                     /\ j.todo = <<>> => j.then # "end"
                     /\ Begin(j)
  <2>1. CASE \E S \in Orders : Begin(Job(<<S>>, "end", {}, FALSE))
    BY <1>1, <2>1 DEF Job
  <2>2. CASE \E S, T \in Orders : Begin(Job(<<S, T>>, "end", {}, FALSE))
    BY <1>2, <2>2 DEF Job
  <2>3. CASE \E S \in Orders, r \in BOOLEAN :
               Begin(Job(<<S>>, "install", S, r)) \/ Begin(Job(<<>>, "install", S, r))
    BY <1>1, <1>3, <2>3 DEF Job
  <2>4. CASE \E S \in Orders, what \in {"hsts", "staple", "redirect"} :
               Begin(Job(<<>>, what, S, FALSE))
    BY <1>1, <1>3, <2>4 DEF Job
  <2> QED BY <2>1, <2>2, <2>3, <2>4 DEF Verb
<1> QED BY <1>4, BeginIInv

\* Every step keeps the invariant.
LEMMA NextIInv == IInv /\ [Next]_vars => IInv'
<1> SUFFICES ASSUME IInv, [Next]_vars PROVE IInv'
  OBVIOUS
<1>1. CASE UNCHANGED vars
  BY <1>1 DEF vars, IInv, Types, Typed, Jobs, Wanted, Snapshots, Covered, Intact, Reversible,
              Answers, AtChallenge
<1> QED BY <1>1, VerbIInv, PrepareIInv, FailedIInv, ChallengeIInv, CleanupIInv, EditIInv,
           StopIInv DEF Next

\* The invariant holds for every layout, any domains and any number of runs.
THEOREM Invariance == Spec => []IInv
  BY InitIInv, NextIInv, PTL DEF Spec

\* Every reachable state is well typed; with it, no edit makes anything but a
\* configuration of the server.
THEOREM TypeCorrect == Spec => []TypeOK
<1>1. IInv => TypeOK
  BY TypeIs DEF IInv
<1> QED BY <1>1, Invariance, PTL

\* Challenges leave nothing behind, however many lineages a run renews, whatever fails
\* and whenever it is killed (Prepare, Cleanup and the snapshot that the next run
\* restores).
THEOREM LeftAsWanted == Spec => []GivenBack
<1>1. ASSUME IInv PROVE GivenBack
  <2>1. \A c : Known(c) = Seen(server, c)
    BY DEF Known, Seen, NKnown, KnownBlock, IsNginx
  <2>2. pc = "idle" => \A c \in Restored : Seen(server, c) = Seen(server, want)
    BY <1>1 DEF IInv, Snapshots, Covered, Restored
  <2> QED BY <2>1, <2>2 DEF GivenBack
<1> QED BY <1>1, Invariance, PTL

\* The file that nginx is made to include is there whenever nginx is to load the
\* configuration (writeInitialChallengeConf, Cleanup).
THEOREM IncludeCovered == Spec => []IncludeIsThere
<1>1. ASSUME IInv PROVE IncludeIsThere
  <2>1. pc \in {"injected", "validate"} => challenges # None
    BY <1>1 DEF IInv, Answers, AtChallenge
  <2>2. ASSUME IsNginx, pc = "edited" PROVE ~conf.include
    <3>1. Config(server, conf) /\ Config(server, want) /\ server = "nginx" /\ server \in Server
      BY <1>1, <2>2, Configs DEF IInv
    <3>2. job \in Work
      BY <1>1, <2>2, EditOf
    <3>3. Clean(server, Made(server, want, job)) /\ Config(server, Made(server, want, job))
      BY <1>1, <3>1, <3>2, MadeClean DEF IInv, Wanted
    <3>4. Clean(server, conf)
      BY <1>1, <2>2, <3>1, <3>3, SeenClean DEF IInv, Intact
    <3> QED BY <3>1, <3>4 DEF Clean, N!ByHand
  <2> QED BY <2>1, <2>2 DEF IncludeIsThere
<1> QED BY <1>1, Invariance, PTL

\* Where the CA's request arrives the challenge is answered (Prepare, Present and
\* injectChallengeLocations or injectChallengeAliases).
THEOREM AnsweredWhenAsked == Spec => []ChallengeAnswered
<1>1. ASSUME IInv, pc = "validate", NEW d \in D
      PROVE  IF IsNginx THEN conf.include /\ d \in challenges
             ELSE \/ A!Hits(conf, {d}, "80") = {} /\ A!Hits(conf, D, "80") # {}
                  \/ A!OnPort(conf, "80") \cap A!Visible(conf) = {}
                  \/ \E i \in A!Routes(conf, "80", d) : Blocks[i].snippets > 0
  <2>1. Prepared(server, conf, D) /\ challenges = D
    BY <1>1 DEF IInv, Answers, AtChallenge, D
  <2>2. CASE IsNginx
    BY <1>1, <2>1, <2>2 DEF Prepared, IsNginx
  <2>3. CASE ~IsNginx
    <3> DEFINE on == A!OnPort(conf, "80") \cap A!Visible(conf)
               named == {i \in on : A!Names(conf.blocks[i], d)}
               T == IF named # {} THEN named ELSE on
    <3>1. named = A!Hits(conf, {d}, "80")
      BY DEF A!Hits, A!Named
    <3>2. named \subseteq A!Hits(conf, D, "80")
      BY <1>1 DEF A!Hits, A!Named
    <3>3. AConfig(conf)
      BY <1>1, <2>3, Configs DEF IInv, Config, IsNginx
    <3>4. on \subseteq Nat
      BY <3>3, HostFields DEF A!OnPort
    <3>5. CASE (named = {} /\ A!Hits(conf, D, "80") # {}) \/ on = {}
      BY <2>3, <3>1, <3>5
    <3>6. CASE on # {} /\ (named # {} \/ A!Hits(conf, D, "80") = {})
      <4>1. T # {} /\ T \subseteq Nat /\ T \subseteq on
        BY <3>4, <3>6
      <4>2. A!Min(T) \in T
        <5> HIDE DEF T
        <5> QED BY <4>1, AMin
      <4>3. T \subseteq A!ChallengeHits(conf, D)
        BY <3>2, <3>6 DEF A!ChallengeHits
      <4>4. A!Routes(conf, "80", d) = {A!Min(T)}
        BY <4>1 DEF A!Routes
      <4>5. conf.blocks[A!Min(T)].snippets > 0
        BY <2>1, <2>3, <4>2, <4>3 DEF Prepared, IsNginx
      <4> QED BY <2>3, <4>4, <4>5 DEF Blocks
    <3> QED BY <3>5, <3>6
  <2> QED BY <2>2, <2>3
<1>2. IInv => ChallengeAnswered
  BY <1>1 DEF ChallengeAnswered
<1> QED BY <1>2, Invariance, PTL

-----------------------------------------------------------------------------
(* What an edit leaves alone.                                              *)

\* What stays when an installer makes e of c: the places, files and names of the
\* blocks, which of them answer plain HTTP and which are a default, and the redirects of
\* those that answer HTTPS.
NFrame(c, e) ==
  /\ DOMAIN e.blocks = DOMAIN c.blocks
  /\ \A i \in DOMAIN c.blocks :
       /\ e.blocks[i].file = c.blocks[i].file /\ e.blocks[i].names = c.blocks[i].names
       /\ N!Answers(e.blocks[i], "80") <=> N!Answers(c.blocks[i], "80")
       /\ \A P : N!DefaultOn(e.blocks[i], P) <=> N!DefaultOn(c.blocks[i], P)
       /\ N!HasPort(e.blocks[i], "443") => e.blocks[i].redirects = c.blocks[i].redirects

\* What insertSSLDirectives makes of a block.
LEMMA NSecured ==
  ASSUME NEW S \in Orders, NEW b \in BlockN
  PROVE  LET s == Secure(S)[b] IN
         /\ s \in BlockN /\ s.file = b.file /\ s.names = b.names /\ s.top = b.top
         /\ s.redirects = b.redirects /\ s.cert = S /\ N!ServerIsHTTPS(s)
         /\ N!Answers(s, "80") <=> N!Answers(b, "80")
         /\ \A P : N!DefaultOn(s, P) <=> N!DefaultOn(b, P)
         /\ Secure(S)[s] = s
<1> DEFINE s == Secure(S)[b]
           L == N!AddListenSSL(b.listens)
<1>1. s \in BlockN /\ s.file = b.file /\ s.names = b.names /\ s.top = b.top
  BY NNeutral DEF Neutral
<1>2. s = [b EXCEPT !.cert = S, !.listens = L]
  BY DEF Secure, N!InsertSSLDirectives
<1>3. /\ \E l \in L : l.port = "443"
      /\ (\E l \in L : l.port = "80") <=> (b.listens = {} \/ \E l \in b.listens : l.port = "80")
      /\ \A P : (\E l \in L : l.default /\ l.port \in P) <=> (\E l \in b.listens : l.default /\ l.port \in P)
      /\ N!AddListenSSL(L) = L
  BY NListen DEF BlockN, N!Block
<1> HIDE DEF L
<1>4. s.listens = L /\ s.cert = S /\ s.redirects = b.redirects
  BY <1>2 DEF BlockN, N!Block
<1>5. Secure(S)[s] = [s EXCEPT !.cert = S, !.listens = N!AddListenSSL(s.listens)]
  BY <1>1 DEF Secure, N!InsertSSLDirectives
<1> HIDE DEF s
<1>6. Secure(S)[s] = s
  <2>1. Secure(S)[s] = [s EXCEPT !.cert = s.cert, !.listens = s.listens]
    BY <1>3, <1>4, <1>5
  <2>2. [s EXCEPT !.cert = s.cert, !.listens = s.listens] = s
    BY <1>1 DEF BlockN, N!Block
  <2> QED BY <2>1, <2>2
<1>7. N!ServerIsHTTPS(s)
  BY <1>3, <1>4 DEF N!ServerIsHTTPS
<1>8. N!Answers(s, "80") <=> N!Answers(b, "80")
  BY <1>3, <1>4 DEF N!Answers, N!HasPort
<1>9. ASSUME NEW P PROVE N!DefaultOn(s, P) <=> N!DefaultOn(b, P)
  BY <1>3, <1>4 DEF N!DefaultOn
<1> QED BY <1>1, <1>4, <1>6, <1>7, <1>8, <1>9 DEF s

\* What addRedirectIfHTTPOnly makes of a block.
LEMMA NRedirected ==
  ASSUME NEW S \in Orders, NEW b \in BlockN
  PROVE  LET s == Redirect(S)[b] IN
         /\ s \in BlockN /\ s.file = b.file /\ s.names = b.names /\ s.top = b.top
         /\ s.listens = b.listens /\ s.cert = b.cert
         /\ N!HasPort(b, "443") => s.redirects = b.redirects
         /\ N!ServerIsHTTPS(b) => s = b
         /\ Redirect(S)[s] = s
<1> DEFINE s == Redirect(S)[b]
           R == b.redirects \cup (N!Literal(b) \cap S)
           if == N!HasPort(b, "80") /\ ~N!ServerIsHTTPS(b)
<1>1. s \in BlockN /\ s.file = b.file /\ s.names = b.names /\ s.top = b.top
  BY NNeutral DEF Neutral
<1>2. s = IF if THEN [b EXCEPT !.redirects = R] ELSE b
  BY DEF Redirect, N!AddRedirectIfHTTPOnly
<1>3. Redirect(S)[s] = IF N!HasPort(s, "80") /\ ~N!ServerIsHTTPS(s)
                       THEN [s EXCEPT !.redirects = s.redirects \cup (N!Literal(s) \cap S)] ELSE s
  BY <1>1 DEF Redirect, N!AddRedirectIfHTTPOnly
<1>4. N!HasPort(b, "443") => N!ServerIsHTTPS(b)
  BY DEF N!HasPort, N!ServerIsHTTPS
<1> HIDE DEF s, if
<1>5. s.listens = b.listens /\ s.cert = b.cert /\ (if => s.redirects = R) /\ (~if => s = b)
  BY <1>2 DEF BlockN, N!Block
<1>6. N!HasPort(s, "80") /\ ~N!ServerIsHTTPS(s) <=> if
  BY <1>5 DEF N!HasPort, N!ServerIsHTTPS, if
<1>7. N!Literal(s) = N!Literal(b)
  BY <1>1 DEF N!Literal
<1>8. Redirect(S)[s] = s
  <2>1. CASE if
    <3>1. s.redirects \cup (N!Literal(s) \cap S) = s.redirects
      BY <1>5, <1>7, <2>1
    <3>2. [s EXCEPT !.redirects = s.redirects] = s
      BY <1>1 DEF BlockN, N!Block
    <3> QED BY <1>3, <3>1, <3>2
  <2>2. CASE ~if
    BY <1>3, <1>6, <2>2
  <2> QED BY <2>1, <2>2
<1> QED BY <1>1, <1>4, <1>5, <1>8 DEF s, if

\* The blocks of an edited configuration.
LEMMA NEditedAt ==
  ASSUME NEW c \in N!Config(Cert), NEW S, NEW F, Neutral(F)
  PROVE  LET e == NEdited(c, S, F) IN
         /\ e \in N!Config(Cert) /\ DOMAIN e.blocks = DOMAIN c.blocks
         /\ e.include = c.include /\ e.bucket = c.bucket
         /\ \A i \in DOMAIN c.blocks : e.blocks[i] = IF i \in S THEN F[c.blocks[i]] ELSE c.blocks[i]
  BY NEditedShape

\* The blocks after an installation.
LEMMA NInstalledAt ==
  ASSUME NEW c \in N!Config(Cert), NEW S \in Orders, NEW r \in BOOLEAN
  PROVE  LET e == NInstalled(c, S, r)
             H == N!Hits(c, S)
             m == NEdited(c, H, Secure(S))
             T == N!FindHTTPVHosts(m, H)
         IN  /\ m \in N!Config(Cert) /\ e \in N!Config(Cert)
             /\ DOMAIN m.blocks = DOMAIN c.blocks /\ DOMAIN e.blocks = DOMAIN c.blocks
             /\ e.include = c.include /\ e.bucket = c.bucket
             /\ \A i \in DOMAIN c.blocks :
                  /\ m.blocks[i] = IF i \in H THEN Secure(S)[c.blocks[i]] ELSE c.blocks[i]
                  /\ e.blocks[i] = IF r /\ i \in T THEN Redirect(S)[m.blocks[i]] ELSE m.blocks[i]
<1> DEFINE H == N!Hits(c, S)
           m == NEdited(c, H, Secure(S))
           T == N!FindHTTPVHosts(m, H)
           e == NInstalled(c, S, r)
<1>1. /\ m \in N!Config(Cert) /\ DOMAIN m.blocks = DOMAIN c.blocks
      /\ m.include = c.include /\ m.bucket = c.bucket
      /\ \A i \in DOMAIN c.blocks : m.blocks[i] = IF i \in H THEN Secure(S)[c.blocks[i]] ELSE c.blocks[i]
  BY NEditedAt, NNeutral
<1>2. e = IF r THEN NEdited(m, T, Redirect(S)) ELSE m
  BY DEF NInstalled
<1> HIDE DEF m, e, T
<1>3. LET n == NEdited(m, T, Redirect(S)) IN
      /\ n \in N!Config(Cert) /\ DOMAIN n.blocks = DOMAIN m.blocks
      /\ n.include = m.include /\ n.bucket = m.bucket
      /\ \A i \in DOMAIN m.blocks : n.blocks[i] = IF i \in T THEN Redirect(S)[m.blocks[i]] ELSE m.blocks[i]
  BY <1>1, NEditedAt, NNeutral
<1> QED BY <1>1, <1>2, <1>3 DEF m, e, T

\* What one block keeps.
Keeps(b, s) ==
  /\ s.file = b.file /\ s.names = b.names
  /\ N!Answers(s, "80") <=> N!Answers(b, "80")
  /\ \A P : N!DefaultOn(s, P) <=> N!DefaultOn(b, P)
  /\ N!HasPort(s, "443") => s.redirects = b.redirects

\* Every change of a block keeps that.
LEMMA NKeeps ==
  ASSUME NEW S \in Orders, NEW b \in BlockN
  PROVE  /\ Keeps(b, b) /\ Keeps(b, Secure(S)[b]) /\ Keeps(b, Redirect(S)[b])
         /\ Keeps(b, Redirect(S)[Secure(S)[b]])
         /\ Keeps(b, Hsts[b]) /\ Keeps(b, Staple[b])
<1>1. Keeps(b, b)
  BY DEF Keeps
<1>2. Keeps(b, Secure(S)[b])
  BY NSecured DEF Keeps
<1>3. Keeps(b, Redirect(S)[b])
  BY NRedirected DEF Keeps, N!Answers, N!HasPort, N!DefaultOn
<1>4. Redirect(S)[Secure(S)[b]] = Secure(S)[b]
  BY NSecured, NRedirected
<1>5. Keeps(b, Hsts[b]) /\ Keeps(b, Staple[b])
  <2>1. ASSUME NEW s \in {Hsts[b], Staple[b]}
        PROVE  s.file = b.file /\ s.names = b.names /\ s.listens = b.listens
               /\ s.redirects = b.redirects
    BY DEF Hsts, Staple, BlockN, N!Block
  <2> QED BY <2>1 DEF Keeps, N!Answers, N!HasPort, N!DefaultOn
<1> QED BY <1>1, <1>2, <1>3, <1>4, <1>5

\* And with every block the configuration.
LEMMA NFrameKeeps ==
  ASSUME NEW c, NEW e, DOMAIN e.blocks = DOMAIN c.blocks,
         \A i \in DOMAIN c.blocks : Keeps(c.blocks[i], e.blocks[i])
  PROVE  NFrame(c, e)
  BY DEF NFrame, Keeps

\* So every edit is a frame.
LEMMA NMadeFrame ==
  ASSUME NEW c \in N!Config(Cert), NEW S \in Orders, NEW r \in BOOLEAN,
         NEW what \in {"hsts", "staple", "redirect"}
  PROVE  NFrame(c, NInstalled(c, S, r)) /\ NFrame(c, NEnhanced(c, S, what))
<1>1. \A i \in DOMAIN c.blocks : c.blocks[i] \in BlockN
  BY BlockFields
<1>2. NFrame(c, NInstalled(c, S, r))
  <2> DEFINE e == NInstalled(c, S, r)
             H == N!Hits(c, S)
             m == NEdited(c, H, Secure(S))
             T == N!FindHTTPVHosts(m, H)
  <2>1. DOMAIN e.blocks = DOMAIN c.blocks
        /\ \A i \in DOMAIN c.blocks :
             /\ m.blocks[i] = IF i \in H THEN Secure(S)[c.blocks[i]] ELSE c.blocks[i]
             /\ e.blocks[i] = IF r /\ i \in T THEN Redirect(S)[m.blocks[i]] ELSE m.blocks[i]
    BY NInstalledAt
  <2> HIDE DEF e, m, T, H
  <2>2. ASSUME NEW i \in DOMAIN c.blocks PROVE Keeps(c.blocks[i], e.blocks[i])
    BY <1>1, <2>1, NKeeps
  <2>3. NFrame(c, e)
    BY <2>1, <2>2, NFrameKeeps
  <2> QED BY <2>3 DEF e
<1>3. ASSUME NEW T, NEW F, F \in {Hsts, Staple, Redirect(S)} PROVE NFrame(c, NEdited(c, T, F))
  <2> DEFINE e == NEdited(c, T, F)
  <2>1. Neutral(F)
    BY <1>3, NNeutral
  <2>2. DOMAIN e.blocks = DOMAIN c.blocks
        /\ \A i \in DOMAIN c.blocks : e.blocks[i] = IF i \in T THEN F[c.blocks[i]] ELSE c.blocks[i]
    BY <2>1, NEditedAt
  <2> HIDE DEF e
  <2>3. ASSUME NEW i \in DOMAIN c.blocks PROVE Keeps(c.blocks[i], e.blocks[i])
    BY <1>1, <1>3, <2>2, NKeeps
  <2>4. NFrame(c, e)
    BY <2>2, <2>3, NFrameKeeps
  <2> QED BY <2>4 DEF e
<1>4. NFrame(c, NEnhanced(c, S, what))
  BY <1>3 DEF NEnhanced
<1> QED BY <1>2, <1>4

\* Plain HTTP is routed by what an edit keeps.
LEMMA NPlainRoutes ==
  ASSUME NEW c, NEW e, NFrame(c, e), NEW d
  PROVE  N!Routes(e, "80", d) = N!Routes(c, "80", d)
<1> DEFINE on(x) == {i \in DOMAIN x.blocks : N!Answers(x.blocks[i], "80")}
           named(x) == {i \in on(x) : N!Precedence(x.blocks[i], d) > 0}
           default(x) == {i \in on(x) : N!DefaultOn(x.blocks[i], {"80"})}
           best(x) == {i \in named(x) : \A j \in named(x) :
                        N!Precedence(x.blocks[j], d) <= N!Precedence(x.blocks[i], d)}
           first(T) == IF T = {} THEN {} ELSE {N!Min(T)}
<1>1. on(e) = on(c)
  BY DEF NFrame
<1>2. \A i \in DOMAIN c.blocks : N!Precedence(e.blocks[i], d) = N!Precedence(c.blocks[i], d)
  BY DEF NFrame, N!Precedence
<1>3. named(e) = named(c)
  <2>1. on(c) \subseteq DOMAIN c.blocks
    OBVIOUS
  <2> HIDE DEF on
  <2> QED BY <1>1, <1>2, <2>1
<1>4. default(e) = default(c)
  BY <1>1 DEF NFrame
<1>5. best(e) = best(c)
  <2>1. named(c) \subseteq DOMAIN c.blocks
    OBVIOUS
  <2> HIDE DEF named
  <2> QED BY <1>2, <1>3, <2>1
<1>6. \A x : N!Routes(x, "80", d) = CASE named(x) # {} -> first(best(x))
                                   [] named(x) = {} /\ default(x) # {} -> first(default(x))
                                   [] OTHER -> first(on(x))
  BY DEF N!Routes
<1> HIDE DEF on, named, default, best
<1> QED BY <1>1, <1>3, <1>4, <1>5, <1>6

\* The same for Apache.
LEMMA APlainRoutes ==
  ASSUME NEW c, NEW e, AFrame(c, e), NEW d
  PROVE  A!Routes(e, "80", d) = A!Routes(c, "80", d)
<1> DEFINE on(x) == A!OnPort(x, "80") \cap A!Visible(x)
           named(x) == {i \in on(x) : A!Names(x.blocks[i], d)}
           first(T) == IF T = {} THEN {} ELSE {A!Min(T)}
<1>1. on(e) = on(c) /\ on(c) \subseteq DOMAIN c.blocks
  BY DEF AFrame, A!OnPort, A!Visible
<1>2. \A i \in DOMAIN c.blocks : A!Names(e.blocks[i], d) <=> A!Names(c.blocks[i], d)
  BY DEF AFrame, A!Names
<1>3. \A x : A!Routes(x, "80", d) = IF named(x) # {} THEN first(named(x)) ELSE first(on(x))
  BY DEF A!Routes
<1>4. named(e) = named(c)
  <2> HIDE DEF on
  <2> QED BY <1>1, <1>2
<1> HIDE DEF on, named
<1> QED BY <1>1, <1>3, <1>4

\* A route is to a block that listens.
LEMMA NRouteListens ==
  ASSUME NEW c \in N!Config(Cert), NEW port, NEW d, NEW i \in N!Routes(c, port, d)
  PROVE  i \in DOMAIN c.blocks /\ N!Answers(c.blocks[i], port)
<1> DEFINE on == {k \in DOMAIN c.blocks : N!Answers(c.blocks[k], port)}
           named == {k \in on : N!Precedence(c.blocks[k], d) > 0}
           default == {k \in on : N!DefaultOn(c.blocks[k], {port})}
           best == {k \in named : \A j \in named :
                        N!Precedence(c.blocks[j], d) <= N!Precedence(c.blocks[k], d)}
           first(T) == IF T = {} THEN {} ELSE {N!Min(T)}
<1>1. on \subseteq Nat
  BY BlockFields
<1>2. ASSUME NEW T, T \subseteq on PROVE first(T) \subseteq on
  <2> HIDE DEF on
  <2> QED BY <1>1, <1>2, NMin
<1>3. \E T \in SUBSET on : i \in first(T)
  <2>1. best \subseteq on /\ default \subseteq on
    OBVIOUS
  <2>2. N!Routes(c, port, d) = CASE named # {} -> first(best)
                                   [] named = {} /\ default # {} -> first(default)
                                   [] OTHER -> first(on)
    BY DEF N!Routes
  <2> HIDE DEF on, named, default, best
  <2> QED BY <2>1, <2>2
<1>4. i \in on
  <2> HIDE DEF on, first
  <2> QED BY <1>2, <1>3
<1> QED BY <1>4

\* The same for Apache.
LEMMA ARouteListens ==
  ASSUME NEW c, AConfig(c), NEW port, NEW d, NEW i \in A!Routes(c, port, d)
  PROVE  i \in A!OnPort(c, port) \cap A!Visible(c)
<1> DEFINE on == A!OnPort(c, port) \cap A!Visible(c)
           named == {k \in on : A!Names(c.blocks[k], d)}
           first(T) == IF T = {} THEN {} ELSE {A!Min(T)}
<1>1. on \subseteq Nat
  BY HostFields DEF A!OnPort
<1>2. ASSUME NEW T, T \subseteq on PROVE first(T) \subseteq on
  <2> HIDE DEF on
  <2> QED BY <1>1, <1>2, AMin
<1>3. \E T \in SUBSET on : i \in first(T)
  <2>1. A!Routes(c, port, d) = IF named # {} THEN first(named) ELSE first(on)
    BY DEF A!Routes
  <2> QED BY <2>1
<1>4. i \in on
  <2> HIDE DEF on, first
  <2> QED BY <1>2, <1>3
<1> QED BY <1>4

\* An edit is a frame, of either server.
LEMMA MadeFrame ==
  ASSUME IInv, MakeEdit
  PROVE  /\ server \in Server /\ Config(server, conf) /\ Config(server, conf')
         /\ server = "nginx" => NFrame(conf, conf')
         /\ server # "nginx" => AFrame(conf, conf')
<1>1. /\ server \in Server /\ Config(server, conf) /\ Clean(server, conf) /\ job \in Work
      /\ conf' = Made(server, conf, job) /\ Config(server, conf')
  BY EditOf, Configs DEF IInv, MakeEdit
<1>2. job.domains \in Orders /\ job.redirect \in BOOLEAN
      /\ (job.then # "install" => job.then \in {"hsts", "staple", "redirect"})
  BY <1>1 DEF Work
<1>3. server = "nginx" => NFrame(conf, conf')
  BY <1>1, <1>2, NMadeFrame DEF Made, Config
<1>4. server # "nginx" => AFrame(conf, conf')
  BY <1>1, <1>2, AMade DEF Made, Config, Clean
<1> QED BY <1>1, <1>3, <1>4

\* Plain HTTP is answered by the same block before and after every edit (addListenSSL,
\* cloneAsSSLVHost).
THEOREM PlainHttpKept == Spec => HttpKept
<1>1. ASSUME IInv, MakeEdit, NEW d \in Domain
      PROVE  Answering(conf', "80", d) = Answering(conf, "80", d)
  <2>1. CASE server = "nginx"
    <3>1. conf \in N!Config(Cert) /\ NFrame(conf, conf')
      BY <1>1, <2>1, MadeFrame DEF Config
    <3>2. N!Routes(conf', "80", d) = N!Routes(conf, "80", d)
      BY <3>1, NPlainRoutes
    <3>3. ASSUME NEW i \in N!Routes(conf, "80", d)
          PROVE  conf'.blocks[i].names = conf.blocks[i].names /\ conf'.blocks[i].file = conf.blocks[i].file
      BY <3>1, NRouteListens DEF NFrame
    <3> QED BY <2>1, <3>2, <3>3 DEF Answering, Routes, IsNginx
  <2>2. CASE server # "nginx"
    <3>1. AConfig(conf) /\ AFrame(conf, conf')
      BY <1>1, <2>2, MadeFrame DEF Config
    <3>2. A!Routes(conf', "80", d) = A!Routes(conf, "80", d)
      BY <3>1, APlainRoutes
    <3>3. ASSUME NEW i \in A!Routes(conf, "80", d)
          PROVE  conf'.blocks[i].names = conf.blocks[i].names /\ conf'.blocks[i].file = conf.blocks[i].file
      BY <3>1, ARouteListens DEF AFrame, A!OnPort
    <3> QED BY <2>2, <3>2, <3>3 DEF Answering, Routes, IsNginx
  <2> QED BY <2>1, <2>2
<1>2. IInv /\ [Next]_vars =>
        [MakeEdit => \A d \in Domain : Answering(conf', "80", d) = Answering(conf, "80", d)]_vars
  BY <1>1
<1> QED BY <1>2, Invariance, PTL DEF Spec, HttpKept

\* No edit redirects a name to itself but by a redirect that was there before
\* (addRedirectIfHTTPOnly, addRewriteRedirect).
THEOREM NoRedirectLoop == Spec => RedirectsDoNotLoop
<1>1. ASSUME IInv, MakeEdit, NEW d \in Loops(conf')
      PROVE  \E i \in DOMAIN conf.blocks : d \in Redirected(conf.blocks[i])
  <2>1. PICK i \in Routes(conf', "443", d) : d \in Redirected(conf'.blocks[i])
    BY <1>1 DEF Loops
  <2>2. CASE server = "nginx"
    <3>1. conf' \in N!Config(Cert) /\ NFrame(conf, conf')
      BY <1>1, <2>2, MadeFrame DEF Config
    <3>2. i \in DOMAIN conf.blocks /\ N!HasPort(conf'.blocks[i], "443")
      <4>1. i \in N!Routes(conf', "443", d)
        BY <2>1, <2>2 DEF Routes, IsNginx
      <4>2. i \in DOMAIN conf'.blocks /\ N!Answers(conf'.blocks[i], "443")
        BY <3>1, <4>1, NRouteListens
      <4> QED BY <3>1, <4>2 DEF NFrame, N!Answers
    <3>3. conf'.blocks[i].redirects = conf.blocks[i].redirects
      BY <3>1, <3>2 DEF NFrame
    <3> QED BY <2>1, <2>2, <3>2, <3>3 DEF Redirected, IsNginx
  <2>3. CASE server # "nginx"
    <3>1. AConfig(conf') /\ AFrame(conf, conf')
      BY <1>1, <2>3, MadeFrame DEF Config
    <3>2. i \in DOMAIN conf'.blocks /\ conf'.blocks[i].port = "443"
      <4>1. i \in A!Routes(conf', "443", d)
        BY <2>1, <2>3 DEF Routes, IsNginx
      <4> QED BY <3>1, <4>1, ARouteListens DEF A!OnPort
    <3>3. \E j \in DOMAIN conf.blocks : conf.blocks[j].redirects = conf'.blocks[i].redirects
      <4>1. CASE i \in DOMAIN conf.blocks
        BY <3>1, <3>2, <4>1 DEF AFrame
      <4>2. CASE i \notin DOMAIN conf.blocks
        BY <3>1, <3>2, <4>2 DEF AFrame, A!OnPort
      <4> QED BY <4>1, <4>2
    <3> QED BY <2>1, <2>3, <3>3 DEF Redirected, IsNginx
  <2> QED BY <2>2, <2>3
<1>2. IInv /\ [Next]_vars =>
        [MakeEdit => \A d \in Loops(conf') \ Loops(conf) :
                       \E i \in DOMAIN conf.blocks : d \in Redirected(conf.blocks[i])]_vars
  BY <1>1
<1> QED BY <1>2, Invariance, PTL DEF Spec, RedirectsDoNotLoop

-----------------------------------------------------------------------------
(* Installing twice.                                                       *)

\* Of finitely many, one has the highest rank and of equals the first place.
LEMMA Foremost ==
  ASSUME NEW n \in Nat, NEW f \in [1..n -> Int], NEW T \in SUBSET (1..n), T # {}
  PROVE  \E k \in T : \A j \in T \ {k} : f[j] < f[k] \/ (f[j] = f[k] /\ k < j)
<1> DEFINE upto(m) == T \cap (1..m)
           first(k, m) == \A j \in upto(m) \ {k} : f[j] < f[k] \/ (f[j] = f[k] /\ k < j)
           C == {m \in 0..n : upto(m) # {} /\ \A k \in upto(m) : ~first(k, m)}
<1>0. ASSUME NEW x \in 0..n, NEW j PROVE j \in upto(x) <=> j \in T /\ j <= x
  <2>1. j \in T => j \in Int /\ 1 <= j
    OBVIOUS
  <2>2. j \in 1..x <=> j \in Int /\ 1 <= j /\ j <= x
    OBVIOUS
  <2>3. j \in upto(x) <=> j \in T /\ j \in 1..x
    BY Zenon
  <2> QED BY <2>1, <2>2, <2>3
<1>1. ASSUME C # {} PROVE FALSE
  <2>0. C \subseteq 0..n /\ C \subseteq Nat
    OBVIOUS
  <2>1. PICK m \in C : \A y \in C : m <= y
    <3> HIDE DEF C
    <3> QED BY <1>1, <2>0, Least
  <2>2. m \in 1..n
    <3>1. upto(0) = {}
      OBVIOUS
    <3>2. 0 \notin C
      BY <3>1
    <3> HIDE DEF C, upto, first
    <3> QED BY <2>0, <2>1, <3>2
  <2>3. m - 1 \in 0..n /\ m - 1 \notin C
    <3> HIDE DEF C
    <3> QED BY <2>0, <2>1, <2>2
  <2>4. upto(m) = IF m \in T THEN upto(m - 1) \cup {m} ELSE upto(m - 1)
    <3>1. m \in 0..n /\ \A j \in T : j <= m <=> j <= m - 1 \/ j = m
      BY <2>2
    <3> HIDE DEF upto, C
    <3>2. \A j : j \in upto(m) <=> j \in T /\ j <= m
      BY <1>0, <3>1
    <3>3. \A j : j \in upto(m - 1) <=> j \in T /\ j <= m - 1
      BY <1>0, <2>3
    <3> QED BY <2>2, <3>1, <3>2, <3>3
  <2>5. upto(m - 1) # {} => \E k \in upto(m - 1) : first(k, m - 1)
    BY <2>3
  <2>6. upto(m) # {} /\ \A k \in upto(m) : ~first(k, m)
    BY <2>1
  <2>7. upto(m - 1) \subseteq 1..n /\ \A j \in upto(m - 1) : j < m
    BY <2>2
  <2>8. \A k : first(k, m) <=> \A j \in upto(m) \ {k} : f[j] < f[k] \/ (f[j] = f[k] /\ k < j)
    OBVIOUS
  <2>9. \A k : first(k, m - 1) <=>
               \A j \in upto(m - 1) \ {k} : f[j] < f[k] \/ (f[j] = f[k] /\ k < j)
    OBVIOUS
  <2> HIDE DEF upto, first
  <2>10. CASE m \notin T
    <3>1. upto(m) = upto(m - 1)
      BY <2>4, <2>10
    <3> QED BY <2>5, <2>6, <2>8, <2>9, <3>1
  <2>11. CASE m \in T /\ upto(m - 1) = {}
    <3>1. upto(m) = {m}
      BY <2>4, <2>11
    <3> QED BY <2>6, <2>8, <3>1
  <2>12. CASE m \in T /\ upto(m - 1) # {}
    <3>1. PICK k \in upto(m - 1) : first(k, m - 1)
      BY <2>5, <2>12
    <3>2. upto(m) = upto(m - 1) \cup {m}
      BY <2>4, <2>12
    <3>3. f[k] \in Int /\ f[m] \in Int /\ k < m /\ \A j \in upto(m - 1) : f[j] \in Int
      BY <2>2, <2>7
    <3>4. CASE f[m] > f[k]
      <4>1. first(m, m)
        BY <2>8, <2>9, <3>1, <3>2, <3>3, <3>4
      <4> QED BY <2>6, <3>2, <4>1
    <3>5. CASE f[m] <= f[k]
      <4>1. first(k, m)
        BY <2>8, <2>9, <3>1, <3>2, <3>3, <3>5
      <4> QED BY <2>6, <3>2, <4>1
    <3> QED BY <3>3, <3>4, <3>5
  <2> QED BY <2>10, <2>11, <2>12
<1>2. upto(n) = T /\ n \in 0..n
  <2>1. n \in 0..n /\ \A j \in T : j <= n
    OBVIOUS
  <2> HIDE DEF upto
  <2> QED BY <1>0, <2>1
<1>3. \E k \in T : first(k, n)
  BY <1>1, <1>2
<1> QED BY <1>2, <1>3

\* A score is a small number.
LEMMA NScore ==
  ASSUME NEW b \in BlockN, NEW d
  PROVE  N!ServerNameScore(b, d) \in Nat
<1> DEFINE V == {0} \cup {N!NameMatchScore(m, d) : m \in b.names}
<1>1. b.names \in SUBSET N!Name /\ IsFiniteSet(b.names)
  <2>1. b.names \in N!NameSet
    BY DEF BlockN, N!Block
  <2> QED BY <2>1, Zenon DEF N!NameSet, N!IsFiniteSet, IsFiniteSet
<1>2. ASSUME NEW m \in b.names PROVE N!NameMatchScore(m, d) \in Nat
  <2>1. Len(m.labels) \in Nat
    BY <1>1 DEF N!Name
  <2> DEFINE n == 2 * Len(m.labels)
  <2>2. n \in Nat
    BY <2>1
  <2> HIDE DEF n
  <2> QED BY <2>2 DEF N!NameMatchScore, n
<1>3. PICK n \in Nat : ExistsSurjection(1..n, b.names)
  BY <1>1, FS_NatSurjection
<1>4. PICK g \in [1..n -> b.names] : \A m \in b.names : \E i \in 1..n : g[i] = m
  BY <1>3 DEF ExistsSurjection, Surjection
<1>5. \E x \in V : \A y \in V : x >= y
  <2>1. CASE n = 0
    BY <1>4, <2>1
  <2>2. CASE n # 0
    <3> DEFINE f == [i \in 1..n |-> N!NameMatchScore(g[i], d)]
    <3>1. \A i \in 1..n : g[i] \in b.names
      BY <1>4
    <3>2. f \in [1..n -> Int] /\ \A i \in 1..n : f[i] \in V /\ f[i] \in Nat
      BY <1>2, <3>1
    <3>3. 1..n \in SUBSET (1..n) /\ 1..n # {}
      <4>1. 1 \in 1..n
        BY <2>2
      <4> QED BY <4>1
    <3>4. \A y \in V : y = 0 \/ \E i \in 1..n : y = f[i]
      BY <1>4
    <3> HIDE DEF f, V
    <3>5. PICK k \in 1..n : \A j \in (1..n) \ {k} : f[j] < f[k] \/ (f[j] = f[k] /\ k < j)
      BY <3>2, <3>3, Foremost
    <3>6. ASSUME NEW y \in V PROVE f[k] >= y
      <4>1. CASE y = 0
        BY <3>2, <4>1
      <4>2. CASE \E i \in 1..n : y = f[i]
        <5>1. PICK i \in 1..n : y = f[i]
          BY <4>2
        <5>2. f[i] \in Nat /\ f[k] \in Nat
          BY <3>2
        <5>3. i = k \/ f[i] < f[k] \/ f[i] = f[k]
          BY <3>5
        <5> QED BY <5>1, <5>2, <5>3
      <4> QED BY <3>4, <4>1, <4>2
    <3> QED BY <3>2, <3>6
  <2> QED BY <2>1, <2>2
<1>6. N!Max(V) \in V
  BY <1>5 DEF N!Max
<1>7. V \subseteq Nat
  BY <1>2
<1> QED BY <1>6, <1>7 DEF N!ServerNameScore

\* A domain that has a block has a best one.
LEMMA NBestThere ==
  ASSUME NEW c \in N!Config(Cert), NEW d, NEW i \in DOMAIN c.blocks,
         N!ServerNameScore(c.blocks[i], d) > 0
  PROVE  N!BestFor(c, d) # {}
<1> DEFINE T == {j \in DOMAIN c.blocks : N!ServerNameScore(c.blocks[j], d) > 0}
           f == [j \in DOMAIN c.blocks |-> N!Rank(c.blocks[j], d)]
<1>1. PICK n \in Nat : DOMAIN c.blocks = 1..n
  <2>1. c.blocks \in Seq(BlockN)
    BY BlockFields
  <2> QED BY <2>1
<1>2. \A j \in DOMAIN c.blocks :
        N!ServerNameScore(c.blocks[j], d) \in Nat /\ N!Rank(c.blocks[j], d) \in Int
  BY BlockFields, NScore DEF N!Rank
<1>3. f \in [1..n -> Int] /\ T \in SUBSET (1..n) /\ T # {}
  BY <1>1, <1>2
<1>4. \A j \in DOMAIN c.blocks : f[j] = N!Rank(c.blocks[j], d)
  OBVIOUS
<1> HIDE DEF f
<1>5. PICK k \in T : \A j \in T \ {k} : f[j] < f[k] \/ (f[j] = f[k] /\ k < j)
  <2> HIDE DEF T
  <2> QED BY <1>3, Foremost
<1>6. k \in N!BestFor(c, d)
  BY <1>2, <1>4, <1>5 DEF N!BestFor
<1> QED BY <1>6

\* A block that answers HTTPS is not chosen any less.
LEMMA NHitsAgain ==
  ASSUME NEW c \in N!Config(Cert), NEW e \in N!Config(Cert), NFrame(c, e), NEW S,
         \A i \in DOMAIN c.blocks : N!ServerIsHTTPS(c.blocks[i]) => N!ServerIsHTTPS(e.blocks[i]),
         \A i \in DOMAIN c.blocks \ N!Hits(c, S) :
           N!ServerIsHTTPS(e.blocks[i]) => N!ServerIsHTTPS(c.blocks[i])
  PROVE  N!Hits(e, S) \subseteq N!Hits(c, S)
<1> DEFINE best(x) == UNION {N!BestFor(x, d) : d \in S}
<1>1. N!FindAcrossFiles(e, S) = N!FindAcrossFiles(c, S)
  <2>1. \A i \in DOMAIN c.blocks : \A P : N!DefaultOn(e.blocks[i], P) = N!DefaultOn(c.blocks[i], P)
    BY DEF NFrame, N!DefaultOn
  <2> QED BY <2>1, NMatchCongruent DEF NFrame
<1>2. ASSUME NEW i \in DOMAIN c.blocks, NEW d
      PROVE  /\ N!ServerNameScore(e.blocks[i], d) = N!ServerNameScore(c.blocks[i], d)
             /\ N!ServerNameScore(c.blocks[i], d) \in Nat
             /\ N!Rank(c.blocks[i], d) \in Nat /\ N!Rank(e.blocks[i], d) \in Nat
             /\ N!Rank(c.blocks[i], d) <= N!Rank(e.blocks[i], d)
             /\ i \notin N!Hits(c, S) => N!Rank(c.blocks[i], d) = N!Rank(e.blocks[i], d)
  <2>1. N!ServerNameScore(e.blocks[i], d) = N!ServerNameScore(c.blocks[i], d)
    BY DEF N!ServerNameScore, NFrame
  <2>2. N!ServerNameScore(c.blocks[i], d) \in Nat
    BY NScore, BlockFields
  <2> QED BY <2>1, <2>2 DEF N!Rank
<1>3. DOMAIN e.blocks = DOMAIN c.blocks
  BY DEF NFrame
<1>4. \A x, d : \A i \in N!BestFor(x, d) : i \in DOMAIN x.blocks /\ N!ServerNameScore(x.blocks[i], d) > 0
  BY DEF N!BestFor
<1>5. \A x : N!Hits(x, S) = IF best(x) # {} THEN best(x) ELSE N!FindAcrossFiles(x, S)
  BY DEF N!Hits
<1>6. CASE best(c) = {}
  <2>1. ASSUME NEW i \in best(e) PROVE FALSE
    <3>1. PICK d \in S : i \in N!BestFor(e, d)
      BY <2>1
    <3>2. i \in DOMAIN c.blocks /\ N!ServerNameScore(c.blocks[i], d) > 0
      BY <1>2, <1>3, <1>4, <3>1
    <3>3. N!BestFor(c, d) # {}
      BY <3>2, NBestThere
    <3> QED BY <1>6, <3>3
  <2> HIDE DEF best
  <2> QED BY <1>1, <1>5, <1>6, <2>1
<1>7. CASE best(c) # {}
  <2>1. best(e) # {}
    <3>1. PICK d \in S, i \in DOMAIN c.blocks : N!ServerNameScore(c.blocks[i], d) > 0
      BY <1>4, <1>7
    <3>2. i \in DOMAIN e.blocks /\ N!ServerNameScore(e.blocks[i], d) > 0
      BY <1>2, <1>3, <3>1
    <3>3. N!BestFor(e, d) # {}
      BY <3>2, NBestThere
    <3> QED BY <3>3
  <2>2. N!Hits(c, S) = best(c) /\ N!Hits(e, S) = best(e)
    <3> HIDE DEF best
    <3> QED BY <1>5, <1>7, <2>1
  <2>3. ASSUME NEW k \in best(e), k \notin N!Hits(c, S) PROVE FALSE
    <3>1. PICK d \in S : k \in N!BestFor(e, d)
      BY <2>3
    <3>2. k \in DOMAIN c.blocks /\ N!ServerNameScore(c.blocks[k], d) > 0
      BY <1>2, <1>3, <1>4, <3>1
    <3>3. ASSUME NEW j \in DOMAIN c.blocks \ {k}
          PROVE  \/ N!ServerNameScore(c.blocks[j], d) = 0
                 \/ N!Rank(c.blocks[j], d) < N!Rank(c.blocks[k], d)
                 \/ N!Rank(c.blocks[j], d) = N!Rank(c.blocks[k], d) /\ k < j
      <4>1. \/ N!ServerNameScore(e.blocks[j], d) = 0
            \/ N!Rank(e.blocks[j], d) < N!Rank(e.blocks[k], d)
            \/ N!Rank(e.blocks[j], d) = N!Rank(e.blocks[k], d) /\ k < j
        BY <1>3, <3>1, <3>3 DEF N!BestFor
      <4>2. /\ N!ServerNameScore(e.blocks[j], d) = N!ServerNameScore(c.blocks[j], d)
            /\ N!Rank(c.blocks[j], d) \in Nat /\ N!Rank(e.blocks[j], d) \in Nat
            /\ N!Rank(c.blocks[j], d) <= N!Rank(e.blocks[j], d)
        BY <1>2, <3>3
      <4>3. N!Rank(c.blocks[k], d) = N!Rank(e.blocks[k], d) /\ N!Rank(c.blocks[k], d) \in Nat
        BY <1>2, <2>3, <3>2
      <4> QED BY <4>1, <4>2, <4>3
    <3>4. k \in N!BestFor(c, d)
      BY <3>2, <3>3 DEF N!BestFor
    <3> QED BY <2>2, <2>3, <3>4
  <2> QED BY <2>2, <2>3
<1> QED BY <1>6, <1>7

\* Blocks that are the same make the same configuration.
LEMMA NSame ==
  ASSUME NEW c \in N!Config(Cert), NEW e \in N!Config(Cert), DOMAIN e.blocks = DOMAIN c.blocks,
         \A i \in DOMAIN c.blocks : e.blocks[i] = c.blocks[i],
         e.include = c.include, e.bucket = c.bucket
  PROVE  e = c
<1>1. /\ c = [blocks |-> c.blocks, include |-> c.include, bucket |-> c.bucket]
      /\ e = [blocks |-> e.blocks, include |-> e.include, bucket |-> e.bucket]
      /\ c.blocks \in Seq(BlockN) /\ e.blocks \in Seq(BlockN)
  BY BlockFields
<1>2. e.blocks = c.blocks
  BY <1>1
<1> QED BY <1>1, <1>2

\* Installing again changes nothing.
LEMMA NInstalledTwice ==
  ASSUME NEW c \in N!Config(Cert), NEW S \in Orders, NEW r \in BOOLEAN
  PROVE  NInstalled(NInstalled(c, S, r), S, r) = NInstalled(c, S, r)
<1> DEFINE H == N!Hits(c, S)
           m == NEdited(c, H, Secure(S))
           T == N!FindHTTPVHosts(m, H)
           e == NInstalled(c, S, r)
           H2 == N!Hits(e, S)
           m2 == NEdited(e, H2, Secure(S))
           T2 == N!FindHTTPVHosts(m2, H2)
           e2 == NInstalled(e, S, r)
<1>1. /\ m \in N!Config(Cert) /\ e \in N!Config(Cert)
      /\ DOMAIN m.blocks = DOMAIN c.blocks /\ DOMAIN e.blocks = DOMAIN c.blocks
      /\ \A i \in DOMAIN c.blocks :
           /\ m.blocks[i] = IF i \in H THEN Secure(S)[c.blocks[i]] ELSE c.blocks[i]
           /\ e.blocks[i] = IF r /\ i \in T THEN Redirect(S)[m.blocks[i]] ELSE m.blocks[i]
  BY NInstalledAt
<1>2. NFrame(c, e)
  BY NMadeFrame
<1> HIDE DEF m, e
<1>3. /\ m2 \in N!Config(Cert) /\ e2 \in N!Config(Cert)
      /\ DOMAIN m2.blocks = DOMAIN e.blocks /\ DOMAIN e2.blocks = DOMAIN e.blocks
      /\ e2.include = e.include /\ e2.bucket = e.bucket
      /\ \A i \in DOMAIN e.blocks :
           /\ m2.blocks[i] = IF i \in H2 THEN Secure(S)[e.blocks[i]] ELSE e.blocks[i]
           /\ e2.blocks[i] = IF r /\ i \in T2 THEN Redirect(S)[m2.blocks[i]] ELSE m2.blocks[i]
  BY <1>1, NInstalledAt
<1> HIDE DEF m2, e2, H2, H
<1>4. \A i \in DOMAIN c.blocks : c.blocks[i] \in BlockN /\ m.blocks[i] \in BlockN /\ e.blocks[i] \in BlockN
  BY <1>1, BlockFields
<1>5. ASSUME NEW i \in DOMAIN c.blocks
      PROVE  /\ e.blocks[i].names = m.blocks[i].names /\ e.blocks[i].top = m.blocks[i].top
             /\ e.blocks[i].listens = m.blocks[i].listens
             /\ N!ServerIsHTTPS(e.blocks[i]) <=> N!ServerIsHTTPS(m.blocks[i])
             /\ N!HasPort(e.blocks[i], "80") <=> N!HasPort(m.blocks[i], "80")
  BY <1>1, <1>4, NRedirected DEF N!ServerIsHTTPS, N!HasPort
<1>6. ASSUME NEW i \in DOMAIN c.blocks, i \in H
      PROVE  /\ Secure(S)[e.blocks[i]] = e.blocks[i] /\ N!ServerIsHTTPS(e.blocks[i])
  <2>1. m.blocks[i] = Secure(S)[c.blocks[i]]
    BY <1>1, <1>6
  <2>2. N!ServerIsHTTPS(m.blocks[i]) /\ Secure(S)[m.blocks[i]] = m.blocks[i]
    BY <1>4, <2>1, NSecured
  <2>3. e.blocks[i] = m.blocks[i]
    BY <1>1, <1>4, <2>2, NRedirected
  <2> QED BY <2>2, <2>3
<1>7. H2 \subseteq H
  <2>1. \A i \in DOMAIN c.blocks : N!ServerIsHTTPS(c.blocks[i]) => N!ServerIsHTTPS(e.blocks[i])
    BY <1>1, <1>5, <1>6
  <2>2. \A i \in DOMAIN c.blocks \ H : N!ServerIsHTTPS(e.blocks[i]) => N!ServerIsHTTPS(c.blocks[i])
    BY <1>1, <1>5
  <2> QED BY <1>1, <1>2, <2>1, <2>2, NHitsAgain DEF H, H2
<1>8. \A i \in DOMAIN c.blocks : m2.blocks[i] = e.blocks[i]
  BY <1>1, <1>3, <1>6, <1>7
<1>9. T2 \subseteq T
  <2>1. H \subseteq DOMAIN c.blocks
    BY NHitsIn DEF H
  <2>2. ASSUME NEW i \in T2 PROVE i \in T
    <3>1. /\ i \in DOMAIN m2.blocks
          /\ m2.blocks[i].top /\ N!HasPort(m2.blocks[i], "80") /\ ~N!ServerIsHTTPS(m2.blocks[i])
          /\ \E j \in H2 : N!ServerIsHTTPS(m2.blocks[j]) /\ m2.blocks[i].names \cap m2.blocks[j].names # {}
      BY <2>2 DEF N!FindHTTPVHosts
    <3>2. i \in DOMAIN c.blocks
      BY <1>1, <1>3, <3>1
    <3>3. PICK j \in H2 : N!ServerIsHTTPS(m2.blocks[j]) /\ m2.blocks[i].names \cap m2.blocks[j].names # {}
      BY <3>1
    <3>4. j \in H /\ j \in DOMAIN c.blocks
      BY <1>7, <2>1
    <3>5. m2.blocks[i] = e.blocks[i] /\ m2.blocks[j] = e.blocks[j]
      BY <1>8, <3>2, <3>4
    <3>6. /\ m.blocks[i].top /\ N!HasPort(m.blocks[i], "80") /\ ~N!ServerIsHTTPS(m.blocks[i])
          /\ N!ServerIsHTTPS(m.blocks[j]) /\ m.blocks[i].names \cap m.blocks[j].names # {}
      BY <1>5, <3>1, <3>2, <3>3, <3>4, <3>5
    <3> QED BY <1>1, <3>2, <3>4, <3>6 DEF N!FindHTTPVHosts
  <2> HIDE DEF T, T2
  <2> QED BY <2>2
<1> HIDE DEF T, T2
<1>10. ASSUME NEW i \in DOMAIN c.blocks PROVE e2.blocks[i] = e.blocks[i]
  <2>1. CASE r /\ i \in T2
    <3>1. e.blocks[i] = Redirect(S)[m.blocks[i]]
      BY <1>1, <1>9, <2>1
    <3>2. Redirect(S)[e.blocks[i]] = e.blocks[i]
      BY <1>4, <3>1, NRedirected
    <3> QED BY <1>1, <1>3, <1>8, <2>1, <3>2
  <2>2. CASE ~(r /\ i \in T2)
    BY <1>1, <1>3, <1>8, <2>2
  <2> QED BY <2>1, <2>2
<1>11. e2 = e
  BY <1>1, <1>3, <1>10, NSame
<1> QED BY <1>11 DEF e, e2

\* Nor does a change that is one of its own results.
LEMMA NEditedTwice ==
  ASSUME NEW c \in N!Config(Cert), NEW T, NEW F, Neutral(F), \A b \in BlockN : F[F[b]] = F[b]
  PROVE  NEdited(NEdited(c, T, F), T, F) = NEdited(c, T, F)
<1> DEFINE e == NEdited(c, T, F)
           e2 == NEdited(e, T, F)
<1>1. /\ e \in N!Config(Cert) /\ DOMAIN e.blocks = DOMAIN c.blocks
      /\ \A i \in DOMAIN c.blocks : e.blocks[i] = IF i \in T THEN F[c.blocks[i]] ELSE c.blocks[i]
  BY NEditedAt
<1> HIDE DEF e
<1>2. /\ e2 \in N!Config(Cert) /\ DOMAIN e2.blocks = DOMAIN e.blocks
      /\ e2.include = e.include /\ e2.bucket = e.bucket
      /\ \A i \in DOMAIN e.blocks : e2.blocks[i] = IF i \in T THEN F[e.blocks[i]] ELSE e.blocks[i]
  BY <1>1, NEditedAt
<1> HIDE DEF e2
<1>3. \A i \in DOMAIN c.blocks : c.blocks[i] \in BlockN
  BY BlockFields
<1>4. ASSUME NEW i \in DOMAIN c.blocks PROVE e2.blocks[i] = e.blocks[i]
  BY <1>1, <1>2, <1>3
<1>5. e2 = e
  BY <1>1, <1>2, <1>4, NSame
<1> QED BY <1>5 DEF e, e2

\* Nor does enhancing again.
LEMMA NEnhancedTwice ==
  ASSUME NEW c \in N!Config(Cert), NEW S \in Orders, NEW what \in {"hsts", "staple", "redirect"}
  PROVE  NEnhanced(NEnhanced(c, S, what), S, what) = NEnhanced(c, S, what)
<1> DEFINE hits(x) == N!EnhanceHits(x, S)
           rooted(x) == {i \in DOMAIN x.blocks : x.blocks[i].file = Root}
           inRoot(x) == N!FindHTTPVHosts(x, hits(x)) \cap rooted(x)
           F == CASE what = "hsts" -> Hsts [] what = "staple" -> Staple [] what = "redirect" -> Redirect(S)
           where(x) == IF what = "redirect" THEN inRoot(x) ELSE hits(x)
           e == NEdited(c, where(c), F)
<1>1. \A x : NEnhanced(x, S, what) = NEdited(x, where(x), F)
  BY DEF NEnhanced
<1>2. Neutral(F)
  BY NNeutral
<1>3. \A b \in BlockN : F[b] \in BlockN /\ F[b].listens = b.listens /\ F[F[b]] = F[b]
  <2>1. \A b \in BlockN : Hsts[b] \in BlockN /\ Hsts[b].listens = b.listens /\ Hsts[Hsts[b]] = Hsts[b]
    BY DEF Hsts, BlockN, N!Block
  <2>2. \A b \in BlockN : Staple[b] \in BlockN /\ Staple[b].listens = b.listens
                          /\ Staple[Staple[b]] = Staple[b]
    BY DEF Staple, BlockN, N!Block
  <2>3. \A b \in BlockN : Redirect(S)[b] \in BlockN /\ Redirect(S)[b].listens = b.listens
                          /\ Redirect(S)[Redirect(S)[b]] = Redirect(S)[b]
    BY NRedirected
  <2> QED BY <2>1, <2>2, <2>3
<1>4. /\ e \in N!Config(Cert) /\ DOMAIN e.blocks = DOMAIN c.blocks
      /\ \A i \in DOMAIN c.blocks :
           e.blocks[i] = IF i \in where(c) THEN F[c.blocks[i]] ELSE c.blocks[i]
  BY <1>2, NEditedAt
<1> HIDE DEF F, e, where
<1>5. \A i \in DOMAIN c.blocks :
        /\ e.blocks[i].names = c.blocks[i].names /\ e.blocks[i].file = c.blocks[i].file
        /\ e.blocks[i].top = c.blocks[i].top /\ e.blocks[i].listens = c.blocks[i].listens
  BY <1>2, <1>3, <1>4, BlockFields DEF Neutral
<1>6. hits(e) = hits(c)
  BY <1>4, <1>5, NChoiceCongruent
<1>7. rooted(e) = rooted(c)
  BY <1>4, <1>5
<1>8. N!FindHTTPVHosts(e, hits(c)) = N!FindHTTPVHosts(c, hits(c))
  <2>1. hits(c) \subseteq DOMAIN c.blocks
    BY NHitsIn
  <2>2. \A i \in DOMAIN c.blocks :
          /\ N!HasPort(e.blocks[i], "80") <=> N!HasPort(c.blocks[i], "80")
          /\ N!ServerIsHTTPS(e.blocks[i]) <=> N!ServerIsHTTPS(c.blocks[i])
    BY <1>5 DEF N!HasPort, N!ServerIsHTTPS
  <2> HIDE DEF hits
  <2>3. \A i \in DOMAIN c.blocks :
          (\E j \in hits(c) : N!ServerIsHTTPS(e.blocks[j]) /\ e.blocks[i].names \cap e.blocks[j].names # {})
            <=> (\E j \in hits(c) : N!ServerIsHTTPS(c.blocks[j])
                                      /\ c.blocks[i].names \cap c.blocks[j].names # {})
    BY <1>5, <2>1, <2>2
  <2>4. \A i : i \in N!FindHTTPVHosts(e, hits(c)) <=> i \in N!FindHTTPVHosts(c, hits(c))
    BY <1>4, <1>5, <2>2, <2>3 DEF N!FindHTTPVHosts
  <2> QED BY <2>4 DEF N!FindHTTPVHosts
<1>9. where(e) = where(c)
  BY <1>6, <1>7, <1>8 DEF where
<1>10. NEdited(e, where(c), F) = e
  BY <1>2, <1>3, NEditedTwice DEF e
<1> QED BY <1>1, <1>9, <1>10 DEF e

\* What is said of a host, its Includes apart.
Bare(v) == [v EXCEPT !.includes = <<>>]

\* The redirect of every name is there.
Rewritten(v) == v.redirects = {} => v.names = {}

\* What a second change of a host does.
LEMMA ABare ==
  ASSUME NEW S \in Orders, NEW v \in HostA
  PROVE  /\ v.cert = S => Bare(Apply(S)[v]) = Bare(v)
         /\ Rewritten(Rewrite[v]) /\ (Rewritten(v) => Rewrite[v] = v)
         /\ Rewritten(v) => Rewritten(Apply(S)[v])
<1> DEFINE x == A!SetInclude(v.includes)
<1>1. Apply(S)[v] = [v EXCEPT !.cert = S, !.includes = x]
  BY DEF Apply, A!ApplySSLDirectives
<1> HIDE DEF x
<1>2. v.cert = S => Bare([v EXCEPT !.cert = S, !.includes = x]) = Bare(v)
  BY DEF Bare, HostA, A!Host
<1>3. Rewrite[v] = IF v.redirects = {} THEN [v EXCEPT !.redirects = v.names] ELSE v
  BY DEF Rewrite, A!AddRewriteRedirect
<1>4. v.redirects = v.names => [v EXCEPT !.redirects = v.names] = v
  BY DEF HostA, A!Host
<1>5. [v EXCEPT !.redirects = v.names].redirects = v.names
      /\ [v EXCEPT !.redirects = v.names].names = v.names
  BY DEF HostA, A!Host
<1>6. Rewritten(v) => Rewritten([v EXCEPT !.cert = S, !.includes = x])
  BY DEF Rewritten, HostA, A!Host
<1> QED BY <1>1, <1>2, <1>3, <1>4, <1>5, <1>6 DEF Rewritten

\* What a host is chosen by.
Alike(c, e) ==
  /\ DOMAIN e.blocks = DOMAIN c.blocks
  /\ \A k \in DOMAIN c.blocks :
       /\ e.blocks[k].file = c.blocks[k].file /\ e.blocks[k].part = c.blocks[k].part
       /\ e.blocks[k].port = c.blocks[k].port /\ e.blocks[k].names = c.blocks[k].names
       /\ e.blocks[k].macro = c.blocks[k].macro

\* Alike configurations have the same hosts chosen.
LEMMA AChoiceAlike ==
  ASSUME NEW c, NEW e, Alike(c, e), NEW S, NEW T, T \subseteq DOMAIN c.blocks
  PROVE  /\ \A port : A!Hits(e, S, port) = A!Hits(c, S, port)
         /\ UpdatedOf(e, T) = UpdatedOf(c, T) /\ NewOf(e, T) = NewOf(c, T)
<1>1. \A port : A!Hits(e, S, port) = A!Hits(c, S, port)
  BY DEF Alike, A!Hits, A!OnPort, A!Visible, A!Named, A!Names
<1>2. \A f : A!HasCopy(e, f) <=> A!HasCopy(c, f)
  BY DEF Alike, A!HasCopy
<1>3. OldOf(e, T) = OldOf(c, T)
  BY <1>2 DEF Alike, OldOf
<1>4. OldOf(c, T) \subseteq DOMAIN c.blocks
  BY DEF OldOf
<1>5. UpdatedOf(e, T) = UpdatedOf(c, T)
  <2>1. \A i \in DOMAIN c.blocks :
          (\E j \in OldOf(c, T) : e.blocks[j].file = e.blocks[i].file)
            <=> (\E j \in OldOf(c, T) : c.blocks[j].file = c.blocks[i].file)
    BY <1>4 DEF Alike
  <2> QED BY <1>3, <2>1 DEF UpdatedOf, Alike
<1>6. NewOf(e, T) = NewOf(c, T)
  <2> DEFINE U == T \ OldOf(c, T)
  <2>1. U \subseteq DOMAIN c.blocks
    OBVIOUS
  <2> HIDE DEF U
  <2>2. \A i, j \in U : e.blocks[j].file = e.blocks[i].file <=> c.blocks[j].file = c.blocks[i].file
    BY <2>1 DEF Alike
  <2>3. A!Written(e, U) = A!Written(c, U)
    BY <2>2 DEF A!Written
  <2> QED BY <1>3, <2>3 DEF NewOf, U
<1> QED BY <1>1, <1>5, <1>6

\* The certificate is where an installation would put it.
Secured(e, S) ==
  /\ \A k \in A!Hits(e, S, "443") : e.blocks[k].cert = S
  /\ A!Hits(e, S, "443") = {} =>
       /\ NewOf(e, A!Hits(e, S, "80")) = {}
       /\ \A k \in UpdatedOf(e, A!Hits(e, S, "80")) : e.blocks[k].cert = S

\* The first half of an installation.
SecuredBy(c, S) ==
  IF A!Hits(c, S, "443") # {} THEN AEdited(c, A!Hits(c, S, "443"), Apply(S))
  ELSE A!Clone(c, A!Hits(c, S, "80"), S)

\* Secured looks at no more than choices and certificates.
LEMMA ASecuredAlike ==
  ASSUME NEW c, NEW e, Alike(c, e), \A k \in DOMAIN c.blocks : e.blocks[k].cert = c.blocks[k].cert,
         NEW S, Secured(c, S)
  PROVE  Secured(e, S)
<1>1. \A port : A!Hits(c, S, port) \subseteq DOMAIN c.blocks
  BY AHitsIn
<1>2. \A port : A!Hits(e, S, port) = A!Hits(c, S, port)
  BY AChoiceAlike
<1>3. UpdatedOf(e, A!Hits(c, S, "80")) = UpdatedOf(c, A!Hits(c, S, "80"))
      /\ NewOf(e, A!Hits(c, S, "80")) = NewOf(c, A!Hits(c, S, "80"))
  BY <1>1, AChoiceAlike
<1>4. UpdatedOf(c, A!Hits(c, S, "80")) \subseteq DOMAIN c.blocks
  BY DEF UpdatedOf
<1> QED BY <1>1, <1>2, <1>3, <1>4 DEF Secured

\* The first half secures.
LEMMA ASecures ==
  ASSUME NEW c, AConfig(c), Structured(c), NEW S \in Orders
  PROVE  AConfig(SecuredBy(c, S)) /\ Secured(SecuredBy(c, S), S)
<1> DEFINE on443 == A!Hits(c, S, "443")
           T == A!Hits(c, S, "80")
           m == SecuredBy(c, S)
<1>1. ASSUME NEW k \in DOMAIN c.blocks
      PROVE  LET w == Apply(S)[c.blocks[k]] IN
             /\ w.file = c.blocks[k].file /\ w.part = c.blocks[k].part
             /\ w.port = c.blocks[k].port /\ w.names = c.blocks[k].names
             /\ w.macro = c.blocks[k].macro /\ w.cert = S
  <2>1. c.blocks[k] \in HostA
    BY HostFields
  <2> QED BY <2>1, AMild, AKeeps DEF Mild
<1>2. T \subseteq DOMAIN c.blocks /\ on443 \subseteq DOMAIN c.blocks
  BY AHitsIn
<1>3. CASE on443 # {}
  <2>1. AConfig(m) /\ DOMAIN m.blocks = DOMAIN c.blocks
        /\ \A k \in DOMAIN c.blocks :
             m.blocks[k] = IF k \in on443 THEN Apply(S)[c.blocks[k]] ELSE c.blocks[k]
    BY <1>3, AEditedShape, AMild DEF SecuredBy
  <2> HIDE DEF m
  <2>2. Alike(c, m)
    BY <1>1, <2>1 DEF Alike
  <2>3. A!Hits(m, S, "443") = on443
    BY <2>2, AChoiceAlike
  <2>4. Secured(m, S)
    BY <1>1, <1>2, <1>3, <2>1, <2>3 DEF Secured
  <2> QED BY <2>1, <2>4 DEF m
<1>4. CASE on443 = {}
  <2>1. /\ AConfig(m)
        /\ DOMAIN m.blocks = DOMAIN c.blocks \cup {PlaceOf(c, i) : i \in NewOf(c, T)}
        /\ \A k \in DOMAIN c.blocks :
             m.blocks[k] = IF k \in UpdatedOf(c, T) THEN Apply(S)[c.blocks[k]] ELSE c.blocks[k]
        /\ \A k \in DOMAIN m.blocks \ DOMAIN c.blocks :
             \E i \in NewOf(c, T) :
               k = PlaceOf(c, i) /\ m.blocks[k] = A!CloneAsSSLVHost(c.blocks[i], S)
        /\ \A i \in NewOf(c, T) :
             i \in T /\ ~A!HasCopy(c, c.blocks[i].file) /\ PlaceOf(c, i) \notin DOMAIN c.blocks
    <3>1. m = A!Clone(c, T, S) /\ T \in SUBSET DOMAIN c.blocks
      BY <1>4, AHitsIn DEF SecuredBy
    <3> HIDE DEF m, T
    <3> QED BY <3>1, ACloneShape
  <2> HIDE DEF m
  <2>2. \A k \in DOMAIN c.blocks :
          /\ m.blocks[k].file = c.blocks[k].file /\ m.blocks[k].part = c.blocks[k].part
          /\ m.blocks[k].port = c.blocks[k].port /\ m.blocks[k].names = c.blocks[k].names
          /\ m.blocks[k].macro = c.blocks[k].macro
    BY <1>1, <2>1
  <2>3. ASSUME NEW k \in DOMAIN m.blocks \ DOMAIN c.blocks
        PROVE  m.blocks[k].cert = S /\ k \in A!Hits(m, S, "443")
    <3>1. PICK i \in NewOf(c, T) : m.blocks[k] = A!CloneAsSSLVHost(c.blocks[i], S)
      BY <2>1
    <3>2. i \in T /\ c.blocks[i] \in HostA
      BY <1>2, <2>1, HostFields
    <3>3. /\ m.blocks[k].cert = S /\ m.blocks[k].port = "443"
          /\ m.blocks[k].names = c.blocks[i].names /\ m.blocks[k].macro = c.blocks[i].macro
      BY <3>1, <3>2 DEF A!CloneAsSSLVHost, HostA, A!Host
    <3>4. ~c.blocks[i].macro /\ A!Named(c.blocks[i], S)
      BY <3>2 DEF A!Hits, A!Visible
    <3>5. A!Named(m.blocks[k], S)
      BY <3>3, <3>4 DEF A!Named, A!Names
    <3> QED BY <3>3, <3>4, <3>5 DEF A!Hits, A!OnPort, A!Visible
  <2>4. ASSUME NEW k \in A!Hits(m, S, "443") PROVE m.blocks[k].cert = S
    <3>1. CASE k \in DOMAIN c.blocks
      <4>1. k \in on443
        BY <2>2, <2>4, <3>1 DEF A!Hits, A!OnPort, A!Visible, A!Named, A!Names
      <4> QED BY <1>4, <4>1
    <3>2. CASE k \notin DOMAIN c.blocks
      BY <2>3, <2>4, <3>2, AHitsIn
    <3> QED BY <3>1, <3>2
  <2>5. ASSUME A!Hits(m, S, "443") = {}
        PROVE  /\ NewOf(m, A!Hits(m, S, "80")) = {}
               /\ \A k \in UpdatedOf(m, A!Hits(m, S, "80")) : m.blocks[k].cert = S
    <3>1. DOMAIN m.blocks = DOMAIN c.blocks
      BY <2>1, <2>3, <2>5
    <3>2. NewOf(c, T) = {}
      BY <2>1, <3>1
    <3>3. Alike(c, m)
      BY <2>2, <3>1 DEF Alike
    <3>4. A!Hits(m, S, "80") = T /\ UpdatedOf(m, T) = UpdatedOf(c, T) /\ NewOf(m, T) = NewOf(c, T)
      BY <1>2, <3>3, AChoiceAlike
    <3>5. UpdatedOf(c, T) \subseteq DOMAIN c.blocks
      BY DEF UpdatedOf
    <3> HIDE DEF T
    <3> QED BY <1>1, <2>1, <3>2, <3>4, <3>5
  <2>6. Secured(m, S)
    BY <2>4, <2>5 DEF Secured
  <2> QED BY <2>1, <2>6 DEF m
<1> QED BY <1>3, <1>4

\* The second half redirects and changes nothing else.
LEMMA ARedoneAt ==
  ASSUME NEW m, AConfig(m), NEW S \in Orders, NEW r \in BOOLEAN
  PROVE  LET e == Redone(m, S, r) IN
         /\ Alike(m, e) /\ AConfig(e)
         /\ \A k \in DOMAIN m.blocks :
              /\ e.blocks[k] = IF r /\ k \in A!Hits(m, S, "80") THEN Rewrite[m.blocks[k]] ELSE m.blocks[k]
              /\ e.blocks[k].cert = m.blocks[k].cert
<1> DEFINE h == A!Hits(m, S, "80")
           e == Redone(m, S, r)
           n == AEdited(m, h, Rewrite)
<1>1. AConfig(n) /\ DOMAIN n.blocks = DOMAIN m.blocks
      /\ \A k \in DOMAIN m.blocks : n.blocks[k] = IF k \in h THEN Rewrite[m.blocks[k]] ELSE m.blocks[k]
  BY AEditedShape, AMild
<1>2. e = IF r THEN n ELSE m
  BY DEF Redone
<1> HIDE DEF n, e, h
<1>3. \A k \in DOMAIN m.blocks :
        LET w == Rewrite[m.blocks[k]] IN
        /\ w.file = m.blocks[k].file /\ w.part = m.blocks[k].part /\ w.port = m.blocks[k].port
        /\ w.names = m.blocks[k].names /\ w.macro = m.blocks[k].macro
        /\ w.cert = m.blocks[k].cert
  BY HostFields, AMild, AKeeps DEF Mild
<1>4. \A k \in DOMAIN m.blocks :
         e.blocks[k] = IF r /\ k \in h THEN Rewrite[m.blocks[k]] ELSE m.blocks[k]
  BY <1>1, <1>2
<1>5. AConfig(e) /\ DOMAIN e.blocks = DOMAIN m.blocks
  BY <1>1, <1>2
<1>6. Alike(m, e)
  BY <1>3, <1>4, <1>5 DEF Alike
<1> QED BY <1>3, <1>4, <1>5, <1>6 DEF e, h

\* What an installation leaves.
LEMMA AInstalledSettles ==
  ASSUME NEW c, AConfig(c), Structured(c), NEW S \in Orders, NEW r \in BOOLEAN
  PROVE  LET e == AInstalled(c, S, r) IN
         /\ Secured(e, S)
         /\ r => \A k \in A!Hits(e, S, "80") : Rewritten(e.blocks[k])
<1> DEFINE m == SecuredBy(c, S)
           e == AInstalled(c, S, r)
<1>1. AConfig(m) /\ Secured(m, S)
  BY ASecures
<1>2. e = Redone(m, S, r)
  BY DEF AInstalled, SecuredBy
<1> HIDE DEF m, e
<1>3. /\ Alike(m, e) /\ AConfig(e)
      /\ \A k \in DOMAIN m.blocks :
           /\ e.blocks[k] = IF r /\ k \in A!Hits(m, S, "80") THEN Rewrite[m.blocks[k]] ELSE m.blocks[k]
           /\ e.blocks[k].cert = m.blocks[k].cert
  BY <1>1, <1>2, ARedoneAt
<1>4. Secured(e, S)
  BY <1>1, <1>3, ASecuredAlike
<1>5. ASSUME r, NEW k \in A!Hits(e, S, "80") PROVE Rewritten(e.blocks[k])
  <2>1. k \in A!Hits(m, S, "80") /\ k \in DOMAIN m.blocks
    BY <1>3, <1>5, AChoiceAlike, AHitsIn
  <2>2. e.blocks[k] = Rewrite[m.blocks[k]] /\ m.blocks[k] \in HostA
    BY <1>1, <1>3, <1>5, <2>1, HostFields
  <2> QED BY <2>2, ABare
<1> QED BY <1>4, <1>5 DEF e

\* Of that the next one changes Includes at most.
LEMMA AInstalledTwice ==
  ASSUME NEW e, AConfig(e), Structured(e), NEW S \in Orders, NEW r \in BOOLEAN, Secured(e, S),
         r => \A k \in A!Hits(e, S, "80") : Rewritten(e.blocks[k])
  PROVE  LET x == AInstalled(e, S, r) IN
         /\ DOMAIN x.blocks = DOMAIN e.blocks /\ AConfig(x)
         /\ \A k \in DOMAIN e.blocks : Bare(x.blocks[k]) = Bare(e.blocks[k])
<1> DEFINE on443 == A!Hits(e, S, "443")
           T == A!Hits(e, S, "80")
           m == SecuredBy(e, S)
           x == AInstalled(e, S, r)
<1>1. /\ AConfig(m) /\ DOMAIN m.blocks = DOMAIN e.blocks
      /\ \A k \in DOMAIN e.blocks :
           \/ m.blocks[k] = e.blocks[k]
           \/ e.blocks[k].cert = S /\ m.blocks[k] = Apply(S)[e.blocks[k]]
  <2>1. CASE on443 # {}
    <3>1. AConfig(m) /\ DOMAIN m.blocks = DOMAIN e.blocks
          /\ \A k \in DOMAIN e.blocks :
               m.blocks[k] = IF k \in on443 THEN Apply(S)[e.blocks[k]] ELSE e.blocks[k]
      BY <2>1, AEditedShape, AMild DEF SecuredBy
    <3> HIDE DEF m
    <3> QED BY <3>1 DEF Secured
  <2>2. CASE on443 = {}
    <3>1. m = A!Clone(e, T, S) /\ T \in SUBSET DOMAIN e.blocks
      BY <2>2, AHitsIn DEF SecuredBy
    <3> HIDE DEF m, T
    <3>2. /\ AConfig(m)
          /\ DOMAIN m.blocks = DOMAIN e.blocks \cup {PlaceOf(e, i) : i \in NewOf(e, T)}
          /\ \A k \in DOMAIN e.blocks :
               m.blocks[k] = IF k \in UpdatedOf(e, T) THEN Apply(S)[e.blocks[k]] ELSE e.blocks[k]
      BY <3>1, ACloneShape
    <3>3. NewOf(e, T) = {} /\ \A k \in UpdatedOf(e, T) : e.blocks[k].cert = S
      BY <2>2 DEF Secured, T
    <3> QED BY <3>2, <3>3
  <2> QED BY <2>1, <2>2
<1>2. x = Redone(m, S, r)
  BY DEF AInstalled, SecuredBy
<1> HIDE DEF m, x
<1>3. /\ Alike(m, x) /\ AConfig(x)
      /\ \A k \in DOMAIN m.blocks :
           x.blocks[k] = IF r /\ k \in A!Hits(m, S, "80") THEN Rewrite[m.blocks[k]] ELSE m.blocks[k]
  BY <1>1, <1>2, ARedoneAt
<1>4. \A k \in DOMAIN e.blocks : e.blocks[k] \in HostA /\ m.blocks[k] \in HostA
  BY <1>1, HostFields
<1>5. Alike(e, m)
  <2>1. ASSUME NEW v \in HostA
        PROVE  LET w == Apply(S)[v] IN
               /\ w.file = v.file /\ w.part = v.part /\ w.port = v.port
               /\ w.names = v.names /\ w.macro = v.macro
    BY AMild DEF Mild
  <2> QED BY <1>1, <1>4, <2>1 DEF Alike
<1>6. A!Hits(m, S, "80") = T
  BY <1>5, AChoiceAlike
<1>7. ASSUME NEW k \in DOMAIN e.blocks PROVE Bare(x.blocks[k]) = Bare(e.blocks[k])
  <2>1. Bare(m.blocks[k]) = Bare(e.blocks[k])
    BY <1>1, <1>4, ABare
  <2>2. x.blocks[k] = m.blocks[k]
    <3>1. CASE r /\ k \in T
      <4>1. Rewritten(m.blocks[k])
        BY <1>1, <1>4, <3>1, ABare
      <4>2. Rewrite[m.blocks[k]] = m.blocks[k]
        BY <1>4, <4>1, ABare
      <4> QED BY <1>1, <1>3, <1>6, <3>1, <4>2
    <3>2. CASE ~(r /\ k \in T)
      BY <1>1, <1>3, <1>6, <3>2
    <3> QED BY <3>1, <3>2
  <2> QED BY <2>1, <2>2
<1>8. DOMAIN x.blocks = DOMAIN e.blocks
  BY <1>1, <1>3 DEF Alike
<1> QED BY <1>3, <1>7, <1>8 DEF x

\* A change that is one of its own results.
LEMMA AEditedTwice ==
  ASSUME NEW c, AConfig(c), NEW T, NEW F, Mild(F), \A v \in HostA : F[F[v]] = F[v]
  PROVE  /\ Alike(c, AEdited(c, T, F))
         /\ AEdited(AEdited(c, T, F), T, F) = AEdited(c, T, F)
<1> DEFINE e == AEdited(c, T, F)
<1>1. AConfig(e) /\ DOMAIN e.blocks = DOMAIN c.blocks
      /\ \A k \in DOMAIN c.blocks : e.blocks[k] = IF k \in T THEN F[c.blocks[k]] ELSE c.blocks[k]
  BY AEditedShape
<1> HIDE DEF e
<1>2. \A k \in DOMAIN c.blocks : c.blocks[k] \in HostA
  BY HostFields
<1>3. AEdited(e, T, F) = [blocks |-> [k \in DOMAIN e.blocks |->
                            IF k \in T THEN F[e.blocks[k]] ELSE e.blocks[k]]]
  BY <1>1, AEditedShape
<1>4. \A k \in DOMAIN e.blocks : (IF k \in T THEN F[e.blocks[k]] ELSE e.blocks[k]) = e.blocks[k]
  BY <1>1, <1>2
<1>5. e.blocks = [k \in DOMAIN e.blocks |-> e.blocks[k]] /\ e = [blocks |-> e.blocks]
  BY <1>1 DEF AConfig, A!IsConfig
<1>6. [k \in DOMAIN e.blocks |-> IF k \in T THEN F[e.blocks[k]] ELSE e.blocks[k]] = e.blocks
  BY <1>4, <1>5
<1>7. AEdited(e, T, F) = e
  BY <1>3, <1>5, <1>6
<1>8. Alike(c, e)
  BY <1>1, <1>2 DEF Alike, Mild
<1> QED BY <1>7, <1>8 DEF e

\* Enhancing again changes nothing.
LEMMA AEnhancedTwice ==
  ASSUME NEW c, AConfig(c), NEW S \in Orders, NEW what \in {"hsts", "staple", "redirect"}
  PROVE  AEnhanced(AEnhanced(c, S, what), S, what) = AEnhanced(c, S, what)
<1> DEFINE port == IF what = "redirect" THEN "80" ELSE "443"
           F == CASE what = "hsts" -> HstsA [] what = "staple" -> StapleA [] what = "redirect" -> Rewrite
           e == AEdited(c, A!Hits(c, S, port), F)
<1>1. \A x : AEnhanced(x, S, what) = AEdited(x, A!Hits(x, S, port), F)
  BY DEF AEnhanced
<1>2. Mild(F)
  BY AMild
<1>3. \A v \in HostA : F[F[v]] = F[v]
  <2>1. \A v \in HostA : HstsA[v] \in HostA /\ HstsA[HstsA[v]] = HstsA[v]
    BY DEF HstsA, HostA, A!Host
  <2>2. \A v \in HostA : StapleA[v] \in HostA /\ StapleA[StapleA[v]] = StapleA[v]
    BY DEF StapleA, HostA, A!Host
  <2>3. \A v \in HostA : Rewrite[Rewrite[v]] = Rewrite[v]
    BY ABare, AMild DEF Mild
  <2> QED BY <2>1, <2>2, <2>3
<1> HIDE DEF F, port
<1>4. Alike(c, e) /\ AEdited(e, A!Hits(c, S, port), F) = e
  BY <1>2, <1>3, AEditedTwice
<1>5. A!Hits(e, S, port) = A!Hits(c, S, port)
  <2> HIDE DEF e
  <2> QED BY <1>4, AChoiceAlike
<1> QED BY <1>1, <1>4, <1>5

\* Either server, any edit.
LEMMA MadeTwice ==
  ASSUME server \in Server, NEW c, Config(server, c), Clean(server, c), NEW j \in Work
  PROVE  LET e == Made(server, c, j) IN
         NoIncludes(Made(server, e, j)) = NoIncludes(e)
<1> DEFINE e == Made(server, c, j)
           x == Made(server, e, j)
<1>1. j.domains \in Orders /\ j.redirect \in BOOLEAN
      /\ (j.then # "install" => j.then \in {"hsts", "staple", "redirect"})
  BY DEF Work
<1>2. CASE server = "nginx"
  <2>1. x = e
    BY <1>1, <1>2, NInstalledTwice, NEnhancedTwice DEF Made, Config
  <2> QED BY <2>1
<1>3. CASE server # "nginx" /\ j.then # "install"
  <2>1. x = e
    BY <1>1, <1>3, AEnhancedTwice DEF Made, Config
  <2> QED BY <2>1
<1>4. CASE server # "nginx" /\ j.then = "install"
  <2>1. AConfig(c) /\ Structured(c) /\ AConfig(e) /\ Structured(e)
    BY <1>4, MadeClean DEF Config, Clean
  <2>2. e = AInstalled(c, j.domains, j.redirect) /\ x = AInstalled(e, j.domains, j.redirect)
    BY <1>4 DEF Made
  <2> HIDE DEF e, x
  <2>3. /\ DOMAIN x.blocks = DOMAIN e.blocks /\ AConfig(x)
        /\ \A k \in DOMAIN e.blocks : Bare(x.blocks[k]) = Bare(e.blocks[k])
    BY <1>1, <2>1, <2>2, AInstalledSettles, AInstalledTwice
  <2>4. \A y : NoIncludes(y) = [y EXCEPT !.blocks = [k \in DOMAIN y.blocks |-> Bare(y.blocks[k])]]
    BY <1>4 DEF NoIncludes, Bare, IsNginx
  <2>5. [k \in DOMAIN x.blocks |-> Bare(x.blocks[k])] = [k \in DOMAIN e.blocks |-> Bare(e.blocks[k])]
    BY <2>3
  <2>6. NoIncludes(x) = NoIncludes(e)
    BY <2>1, <2>3, <2>4, <2>5, HostFields
  <2> QED BY <2>6 DEF e, x
<1> QED BY <1>2, <1>3, <1>4

\* An edit that is made again changes nothing but the Includes of a host of Apache
\* (Install and Enhance of both plugins).
THEOREM TwiceIsOnce == Spec => []InstallTwiceIsOnce
<1>1. Init => InstallTwiceIsOnce
  BY DEF Init, InstallTwiceIsOnce
<1>2. IInv /\ IInv' /\ InstallTwiceIsOnce /\ [Next]_vars => InstallTwiceIsOnce'
  <2> SUFFICES ASSUME IInv, IInv', InstallTwiceIsOnce, [Next]_vars, pc' = "edited"
               PROVE  InstallTwiceIsOnce'
    BY DEF InstallTwiceIsOnce
  <2>1. UNCHANGED vars \/ MakeEdit
    <3>1. CASE Verb
      BY <3>1 DEF Verb, Begin
    <3>2. CASE Prepare \/ PrepareRefused \/ PrepareReloads \/ PrepareReloadFails \/ Present
               \/ (\E ok \in BOOLEAN : Validated(ok)) \/ Cleanup
      BY <3>2 DEF Prepare, PrepareRefused, PrepareReloads, PrepareReloadFails, Present, Validated,
                  Cleanup, NextLineage, Stop
    <3>3. CASE EditRefused \/ EditReloads \/ EditReloadFails \/ Kill
      BY <3>3 DEF EditRefused, EditReloads, EditReloadFails, Kill, Stop
    <3> QED BY <3>1, <3>2, <3>3 DEF Next
  <2>2. CASE UNCHANGED vars
    BY <2>2 DEF vars, InstallTwiceIsOnce, NoIncludes, Edited, IsNginx
  <2>3. CASE MakeEdit
    <3>1. pc = "edit" /\ conf' = Edited(conf, job) /\ server' = server /\ job' = job
      BY <2>3 DEF MakeEdit
    <3>2. /\ server \in Server /\ Config(server, conf) /\ Clean(server, conf) /\ job \in Work
          /\ conf' = Made(server, conf, job)
      BY <3>1, EditOf, Configs DEF IInv
    <3>3. Config(server, conf') /\ Clean(server, conf')
      BY <3>2, MadeClean
    <3>4. Edited(conf', job) = Made(server, conf', job)
      BY <3>2, <3>3, EditedIs
    <3>5. NoIncludes(Edited(conf', job)) = NoIncludes(conf')
      BY <3>2, <3>4, MadeTwice
    <3>6. \A y : NoIncludes(y)' = NoIncludes(y)
      BY <3>1 DEF NoIncludes, IsNginx
    <3>7. \A y, j : Edited(y, j)' = Edited(y, j)
      BY <3>1 DEF Edited, IsNginx
    <3> QED BY <3>1, <3>5, <3>6, <3>7 DEF InstallTwiceIsOnce
  <2> QED BY <2>1, <2>2, <2>3
<1> QED BY <1>1, <1>2, Invariance, PTL DEF Spec

-----------------------------------------------------------------------------
(* Which certificate Apache presents.                                      *)

\* The hosts on the port that name d.
Among(c, port, d) == {i \in A!OnPort(c, port) \cap A!Visible(c) : A!Names(c.blocks[i], d)}

\* The first host that names d answers for it, or the first of all.
LEMMA ARouteIs ==
  ASSUME NEW c, AConfig(c), NEW port, NEW d, NEW i \in A!Routes(c, port, d)
  PROVE  LET T == IF Among(c, port, d) # {} THEN Among(c, port, d)
                  ELSE A!OnPort(c, port) \cap A!Visible(c)
         IN  T \subseteq Nat /\ i \in T /\ \A j \in T : i <= j
<1> DEFINE on == A!OnPort(c, port) \cap A!Visible(c)
           T == IF Among(c, port, d) # {} THEN Among(c, port, d) ELSE on
<1>1. A!Routes(c, port, d) = IF T = {} THEN {} ELSE {A!Min(T)}
  BY DEF A!Routes, Among
<1>2. T \subseteq Nat
  BY HostFields DEF A!OnPort, Among
<1> HIDE DEF T
<1>3. i \in T /\ \A j \in T : i <= j
  BY <1>1, <1>2, AMin
<1> QED BY <1>2, <1>3 DEF T

\* If there is one, it answers.
LEMMA ARouteThere ==
  ASSUME NEW c, AConfig(c), NEW port, NEW d, Among(c, port, d) # {}
  PROVE  \E i \in A!Routes(c, port, d) : i \in Among(c, port, d)
<1>1. Among(c, port, d) \subseteq Nat
  BY HostFields DEF A!OnPort, Among
<1>2. A!Routes(c, port, d) = {A!Min(Among(c, port, d))}
  BY DEF A!Routes, Among
<1> QED BY <1>1, <1>2, AMin

\* Where an installation adds hosts, and whose certificate it changes.
LEMMA AGiven ==
  ASSUME NEW c, AConfig(c), Structured(c), NEW S \in Orders, NEW r \in BOOLEAN
  PROVE  LET e == AInstalled(c, S, r)
             T == A!Hits(c, S, "80")
         IN  /\ A!Hits(c, S, "443") = {} =>
                  \A i \in NewOf(c, T) : PlaceOf(c, i) \in DOMAIN e.blocks \ DOMAIN c.blocks
             /\ \A k \in DOMAIN c.blocks :
                  \/ e.blocks[k].cert = c.blocks[k].cert
                  \/ k \in A!Hits(c, S, "443") \cup UpdatedOf(c, T)
             /\ \A k \in DOMAIN e.blocks \ DOMAIN c.blocks : A!Named(e.blocks[k], S)
<1> DEFINE on443 == A!Hits(c, S, "443")
           T == A!Hits(c, S, "80")
           m == SecuredBy(c, S)
           e == AInstalled(c, S, r)
<1>1. AConfig(m)
  BY ASecures
<1>2. e = Redone(m, S, r)
  BY DEF AInstalled, SecuredBy
<1>3. T \subseteq DOMAIN c.blocks
  BY AHitsIn
<1>4. /\ DOMAIN c.blocks \subseteq DOMAIN m.blocks
      /\ on443 = {} => \A i \in NewOf(c, T) : PlaceOf(c, i) \in DOMAIN m.blocks \ DOMAIN c.blocks
      /\ \A k \in DOMAIN c.blocks :
           m.blocks[k].cert = c.blocks[k].cert \/ k \in on443 \cup UpdatedOf(c, T)
      /\ \A k \in DOMAIN m.blocks \ DOMAIN c.blocks : A!Named(m.blocks[k], S)
  <2>1. CASE on443 # {}
    <3>1. DOMAIN m.blocks = DOMAIN c.blocks
          /\ \A k \in DOMAIN c.blocks :
               m.blocks[k] = IF k \in on443 THEN Apply(S)[c.blocks[k]] ELSE c.blocks[k]
      BY <2>1, AEditedShape, AMild DEF SecuredBy
    <3> HIDE DEF m, on443
    <3> QED BY <2>1, <3>1
  <2>2. CASE on443 = {}
    <3>1. m = A!Clone(c, T, S) /\ T \in SUBSET DOMAIN c.blocks
      BY <2>2, AHitsIn DEF SecuredBy
    <3> HIDE DEF m, T
    <3>2. /\ DOMAIN m.blocks = DOMAIN c.blocks \cup {PlaceOf(c, i) : i \in NewOf(c, T)}
          /\ \A k \in DOMAIN c.blocks :
               m.blocks[k] = IF k \in UpdatedOf(c, T) THEN Apply(S)[c.blocks[k]] ELSE c.blocks[k]
          /\ \A k \in DOMAIN m.blocks \ DOMAIN c.blocks :
               \E i \in NewOf(c, T) :
                 k = PlaceOf(c, i) /\ m.blocks[k] = A!CloneAsSSLVHost(c.blocks[i], S)
          /\ \A i \in NewOf(c, T) :
               i \in T /\ ~A!HasCopy(c, c.blocks[i].file) /\ PlaceOf(c, i) \notin DOMAIN c.blocks
      BY <3>1, ACloneShape
    <3>3. ASSUME NEW k \in DOMAIN m.blocks \ DOMAIN c.blocks PROVE A!Named(m.blocks[k], S)
      <4>1. PICK i \in NewOf(c, T) : m.blocks[k] = A!CloneAsSSLVHost(c.blocks[i], S)
        BY <3>2
      <4>2. i \in T /\ c.blocks[i] \in HostA
        BY <1>3, <3>2, HostFields DEF T
      <4>3. m.blocks[k].names = c.blocks[i].names
        BY <4>1, <4>2 DEF A!CloneAsSSLVHost, HostA, A!Host
      <4>4. A!Named(c.blocks[i], S)
        BY <4>2 DEF A!Hits, T
      <4> QED BY <4>3, <4>4 DEF A!Named, A!Names
    <3> QED BY <3>2, <3>3
  <2> QED BY <2>1, <2>2
<1> HIDE DEF m, e, T, on443
<1>5. Alike(m, e) /\ \A k \in DOMAIN m.blocks : e.blocks[k].cert = m.blocks[k].cert
  BY <1>1, <1>2, ARedoneAt
<1>6. \A k \in DOMAIN m.blocks : A!Named(e.blocks[k], S) <=> A!Named(m.blocks[k], S)
  BY <1>5 DEF Alike, A!Named, A!Names
<1> QED BY <1>4, <1>5, <1>6 DEF Alike, e, T, on443

\* In a file with one host on port 80 a copy has its names.
LEMMA ACopyNames ==
  ASSUME NEW c, AConfig(c), Structured(c), ~Crowded(c),
         NEW k \in A!OnPort(c, "80"), NEW q \in DOMAIN c.blocks,
         c.blocks[q].part = A!Copy, c.blocks[q].file = c.blocks[k].file
  PROVE  /\ c.blocks[q].port = "443" /\ c.blocks[q].names = c.blocks[k].names
         /\ c.blocks[q].macro = c.blocks[k].macro
<1>1. c.blocks[q].part # "source"
  BY DEF A!Copy
<1>2. c.blocks[q].port = "443"
  BY <1>1 DEF Structured
<1>3. PICK j \in A!OnPort(c, "80") :
        /\ c.blocks[j].file = c.blocks[q].file /\ c.blocks[j].names = c.blocks[q].names
        /\ c.blocks[j].macro = c.blocks[q].macro
  BY <1>1 DEF Structured
<1>4. j = k
  BY <1>3 DEF Crowded
<1> QED BY <1>2, <1>3, <1>4

\* After an installation a promised name has a host that names it.
LEMMA AThere ==
  ASSUME NEW c, AConfig(c), Structured(c), NEW S \in Orders, NEW r \in BOOLEAN, NEW d \in S,
         server # "nginx", Promised(c, S, d)
  PROVE  Among(AInstalled(c, S, r), "443", d) # {}
<1> DEFINE e == AInstalled(c, S, r)
           T == A!Hits(c, S, "80")
<1>1. AConfig(e) /\ AFrame(c, e)
  BY AMade
<1>2. /\ A!Hits(c, S, "443") = {} =>
           \A i \in NewOf(c, T) : PlaceOf(c, i) \in DOMAIN e.blocks \ DOMAIN c.blocks
  BY AGiven
<1> HIDE DEF e
<1>3. CASE A!Hits(c, S, "443") # {}
  <2>1. PICK k \in A!Hits(c, {d}, "443") : TRUE
    BY <1>3 DEF Promised, IsNginx
  <2>2. k \in DOMAIN c.blocks /\ c.blocks[k].port = "443" /\ ~c.blocks[k].macro
        /\ A!Names(c.blocks[k], d)
    BY <2>1 DEF A!Hits, A!OnPort, A!Visible, A!Named
  <2>3. k \in DOMAIN e.blocks /\ e.blocks[k].port = "443" /\ ~e.blocks[k].macro
        /\ e.blocks[k].names = c.blocks[k].names
    BY <1>1, <2>2 DEF AFrame
  <2>4. A!Names(e.blocks[k], d)
    BY <2>2, <2>3 DEF A!Names
  <2>5. k \in Among(e, "443", d)
    BY <2>3, <2>4 DEF Among, A!OnPort, A!Visible
  <2> QED BY <2>5 DEF e
<1>4. CASE A!Hits(c, S, "443") = {}
  <2>1. ~Crowded(c) /\ A!Hits(c, {d}, "80") # {}
    BY <1>4 DEF Promised, IsNginx
  <2>2. PICK k \in A!Hits(c, {d}, "80") : TRUE
    BY <2>1
  <2>3. k \in A!OnPort(c, "80") /\ k \in DOMAIN c.blocks /\ c.blocks[k].port = "80"
        /\ ~c.blocks[k].macro /\ A!Names(c.blocks[k], d)
    BY <2>2 DEF A!Hits, A!OnPort, A!Visible, A!Named
  <2>4. k \in T
    BY <2>3 DEF A!Hits, A!Visible, A!Named
  <2>5. ~A!HasCopy(c, c.blocks[k].file)
    <3> SUFFICES ASSUME A!HasCopy(c, c.blocks[k].file) PROVE FALSE
      OBVIOUS
    <3>1. PICK q \in DOMAIN c.blocks : c.blocks[q].file = c.blocks[k].file /\ c.blocks[q].part = A!Copy
      BY DEF A!HasCopy
    <3>2. /\ c.blocks[q].port = "443" /\ c.blocks[q].names = c.blocks[k].names
          /\ ~c.blocks[q].macro
      BY <2>1, <2>3, <3>1, ACopyNames
    <3>3. A!Names(c.blocks[q], d)
      BY <2>3, <3>2 DEF A!Names
    <3>4. q \in A!Hits(c, S, "443")
      BY <3>2, <3>3 DEF A!Hits, A!OnPort, A!Visible, A!Named
    <3> QED BY <1>4, <3>4
  <2>6. k \in NewOf(c, T)
    <3>1. T \subseteq A!OnPort(c, "80")
      BY DEF A!Hits
    <3>2. \A j \in T : c.blocks[j].file = c.blocks[k].file => j = k
      BY <2>1, <2>3, <3>1 DEF Crowded
    <3>3. k \in Nat
      BY <2>3, HostFields
    <3>4. k \in T \ OldOf(c, T)
      BY <2>4, <2>5 DEF OldOf
    <3>5. \A j \in T \ OldOf(c, T) : c.blocks[j].file = c.blocks[k].file => j <= k
      BY <3>2, <3>3
    <3> HIDE DEF T
    <3> QED BY <3>4, <3>5 DEF NewOf, A!Written
  <2> DEFINE p == PlaceOf(c, k)
  <2>7. p \in DOMAIN e.blocks \ DOMAIN c.blocks
    BY <1>2, <1>4, <2>6
  <2>8. c.blocks[p + 1].file = c.blocks[k].file
    BY <2>3, <2>5, FreePlace
  <2> HIDE DEF p
  <2>9. /\ c.blocks[p + 1].file = e.blocks[p].file /\ e.blocks[p].port = "443"
        /\ \E i \in A!OnPort(c, "80") :
             /\ c.blocks[i].file = e.blocks[p].file /\ c.blocks[i].names = e.blocks[p].names
             /\ c.blocks[i].macro = e.blocks[p].macro
    BY <1>1, <2>7 DEF AFrame
  <2>10. e.blocks[p].names = c.blocks[k].names /\ ~e.blocks[p].macro
    BY <2>1, <2>3, <2>8, <2>9 DEF Crowded
  <2>11. A!Names(e.blocks[p], d)
    BY <2>3, <2>10 DEF A!Names
  <2>12. p \in Among(e, "443", d)
    BY <2>7, <2>9, <2>10, <2>11 DEF Among, A!OnPort, A!Visible
  <2> QED BY <2>12 DEF e
<1> QED BY <1>3, <1>4

\* And the host that answers has the certificate.
LEMMA AServed ==
  ASSUME NEW c, AConfig(c), Structured(c), NEW S \in Orders, NEW r \in BOOLEAN, NEW d \in S,
         server # "nginx", Promised(c, S, d)
  PROVE  LET e == AInstalled(c, S, r) IN \E i \in A!Routes(e, "443", d) : e.blocks[i].cert = S
<1> DEFINE e == AInstalled(c, S, r)
<1>1. AConfig(e) /\ Secured(e, S)
  BY AMade, AInstalledSettles
<1>2. Among(e, "443", d) # {}
  BY AThere
<1> HIDE DEF e
<1>3. Among(e, "443", d) \subseteq A!Hits(e, S, "443")
  BY DEF Among, A!Hits, A!Named
<1>4. PICK i \in A!Routes(e, "443", d) : i \in Among(e, "443", d)
  BY <1>1, <1>2, ARouteThere
<1>5. e.blocks[i].cert = S
  BY <1>1, <1>3, <1>4 DEF Secured
<1> QED BY <1>4, <1>5 DEF e

\* Who is not asked for keeps the certificate, or shares a host with one who is.
LEMMA AOthers ==
  ASSUME NEW c, AConfig(c), Structured(c), NEW S \in Orders, NEW r \in BOOLEAN, NEW d,
         ~Crowded(c), NEW i \in A!Routes(c, "443", d),
         NEW j \in A!Routes(AInstalled(c, S, r), "443", d)
  PROVE  LET e == AInstalled(c, S, r) IN
         e.blocks[j].cert = c.blocks[i].cert \/ A!Named(e.blocks[j], S)
<1> DEFINE e == AInstalled(c, S, r)
           T == A!Hits(c, S, "80")
           on(x) == A!OnPort(x, "443") \cap A!Visible(x)
<1>1. AConfig(e) /\ AFrame(c, e)
  BY AMade
<1>2. /\ \A k \in DOMAIN c.blocks :
           \/ e.blocks[k].cert = c.blocks[k].cert
           \/ k \in A!Hits(c, S, "443") \cup UpdatedOf(c, T)
      /\ \A k \in DOMAIN e.blocks \ DOMAIN c.blocks : A!Named(e.blocks[k], S)
  BY AGiven
<1>3. j \in A!Routes(e, "443", d)
  OBVIOUS
<1> HIDE DEF e
<1>4. j \in on(e)
  BY <1>1, <1>3, ARouteListens
<1>5. CASE j \notin DOMAIN c.blocks
  <2>1. j \in DOMAIN e.blocks
    BY <1>4 DEF A!OnPort
  <2> QED BY <1>2, <1>5, <2>1 DEF e
<1>6. CASE j \in DOMAIN c.blocks
  <2>1. Among(c, "443", d) \subseteq Among(e, "443", d) /\ on(c) \subseteq on(e)
    BY <1>1 DEF AFrame, Among, A!OnPort, A!Visible, A!Names
  <2>2. j \in on(c) /\ (j \in Among(e, "443", d) => j \in Among(c, "443", d))
    BY <1>1, <1>4, <1>6 DEF AFrame, Among, A!OnPort, A!Visible, A!Names
  <2>3. i = j
    <3> DEFINE Tc == IF Among(c, "443", d) # {} THEN Among(c, "443", d) ELSE on(c)
               Te == IF Among(e, "443", d) # {} THEN Among(e, "443", d) ELSE on(e)
    <3>1. Tc \subseteq Nat /\ i \in Tc /\ \A k \in Tc : i <= k
      BY ARouteIs
    <3>2. Te \subseteq Nat /\ j \in Te /\ \A k \in Te : j <= k
      BY <1>1, <1>3, ARouteIs
    <3>3. j \in Tc /\ i \in Te
      BY <2>1, <2>2, <3>1, <3>2
    <3> HIDE DEF Tc, Te
    <3>4. i <= j /\ j <= i /\ i \in Nat /\ j \in Nat
      BY <3>1, <3>2, <3>3
    <3> QED BY <3>4
  <2>4. A!Named(e.blocks[j], S) <=> A!Named(c.blocks[j], S)
    BY <1>1, <1>6 DEF AFrame, A!Named, A!Names
  <2>5. CASE j \in A!Hits(c, S, "443")
    BY <2>4, <2>5 DEF A!Hits, e
  <2>6. CASE j \in UpdatedOf(c, T)
    <3>1. PICK k \in OldOf(c, T) : c.blocks[k].file = c.blocks[j].file
      BY <2>6 DEF UpdatedOf
    <3>2. k \in A!OnPort(c, "80") /\ A!Named(c.blocks[k], S) /\ c.blocks[j].part = A!Copy
      BY <2>6, <3>1 DEF OldOf, UpdatedOf, A!Hits
    <3>3. c.blocks[j].names = c.blocks[k].names
      BY <1>6, <3>1, <3>2, ACopyNames
    <3>4. A!Named(c.blocks[j], S)
      BY <3>2, <3>3 DEF A!Named, A!Names
    <3> QED BY <2>4, <3>4 DEF e
  <2>7. CASE e.blocks[j].cert = c.blocks[j].cert
    BY <2>3, <2>7 DEF e
  <2> QED BY <1>2, <1>6, <2>5, <2>6, <2>7
<1> QED BY <1>5, <1>6

\* What a step that installs does, of Apache.
LEMMA AInstalls ==
  ASSUME IInv, Installs, server # "nginx"
  PROVE  /\ AConfig(conf) /\ Structured(conf) /\ job.domains \in Orders /\ job.redirect \in BOOLEAN
         /\ conf' = AInstalled(conf, job.domains, job.redirect)
         /\ server' = server
<1>1. /\ server \in Server /\ Config(server, conf) /\ Clean(server, conf) /\ job \in Work
      /\ conf' = Made(server, conf, job) /\ server' = server
  BY EditOf, Configs DEF IInv, Installs, MakeEdit
<1> QED BY <1>1 DEF Installs, Config, Clean, Made, Work

\* The server is the one of the layout.
LEMMA OneServer ==
  ASSUME \A l \in Layout : l.server = "apache"
  PROVE  Spec => [](server = "apache")
<1> DEFINE OnApache == server = "apache"
<1>1. Init => OnApache
  BY DEF Init
<1>2. OnApache /\ [Next]_vars => OnApache'
  BY DEF Next, Verb, Begin, Prepare, PrepareRefused, PrepareReloads, PrepareReloadFails, Present,
         Validated, Cleanup, MakeEdit, EditRefused, EditReloads, EditReloadFails, Kill, vars
<1>3. Spec => []OnApache
  <2> HIDE DEF OnApache
  <2> QED BY <1>1, <1>2, PTL DEF Spec
<1> QED BY <1>3

\* With Apache the new certificate is presented for every requested name that has a host
\* (Install: the hosts on port 443, or else copies of those on port 80).
THEOREM ApacheServesInstalled ==
  ASSUME \A l \in Layout : l.server = "apache"
  PROVE  Spec => InstalledIsServed
<1> DEFINE Served == \A d \in job.domains : Promised(conf, job.domains, d) =>
                       \E i \in Routes(conf', "443", d) : conf'.blocks[i].cert = job.domains
<1>1. ASSUME IInv, server = "apache", Installs PROVE Served
  <2> SUFFICES ASSUME NEW d \in job.domains, Promised(conf, job.domains, d)
               PROVE  \E i \in Routes(conf', "443", d) : conf'.blocks[i].cert = job.domains
    OBVIOUS
  <2>1. \E i \in A!Routes(conf', "443", d) : conf'.blocks[i].cert = job.domains
    BY <1>1, AInstalls, AServed
  <2> QED BY <1>1, <2>1 DEF Routes, IsNginx
<1>2. IInv /\ server = "apache" /\ [Next]_vars => [Installs => Served]_vars
  BY <1>1
<1> QED BY <1>2, Invariance, OneServer, PTL DEF Spec, InstalledIsServed

\* With Apache nobody else's certificate is changed, unless the host also names a
\* requested domain (Install, updateExistingSSLVHost).
THEOREM ApacheSparesOthers ==
  ASSUME \A l \in Layout : l.server = "apache"
  PROVE  Spec => OthersKeepTheirs
<1> DEFINE Spared ==
       \A d \in Domain \ job.domains :
         \A i \in Routes(conf, "443", d), j \in Routes(conf', "443", d) :
           \/ conf'.blocks[j].cert = conf.blocks[i].cert
           \/ /\ IsNginx
              /\ \/ \E e \in job.domains : j \in Routes(conf', "443", e)
                 \/ \A k \in DOMAIN Blocks : ~Named(Blocks[k], job.domains)
           \/ /\ ~IsNginx
              /\ Named(conf'.blocks[j], job.domains) \/ Crowded(conf)
<1>1. ASSUME IInv, server = "apache", Installs PROVE Spared
  <2> SUFFICES ASSUME NEW d \in Domain \ job.domains,
                      NEW i \in Routes(conf, "443", d), NEW j \in Routes(conf', "443", d),
                      ~Crowded(conf)
               PROVE  conf'.blocks[j].cert = conf.blocks[i].cert \/ Named(conf'.blocks[j], job.domains)
    BY <1>1 DEF IsNginx
  <2>1. i \in A!Routes(conf, "443", d) /\ j \in A!Routes(conf', "443", d)
    BY <1>1 DEF Routes, IsNginx
  <2>2. conf'.blocks[j].cert = conf.blocks[i].cert \/ A!Named(conf'.blocks[j], job.domains)
    BY <1>1, <2>1, AInstalls, AOthers
  <2> QED BY <1>1, <2>2 DEF Named, IsNginx
<1>2. IInv /\ server = "apache" /\ [Next]_vars => [Installs => Spared]_vars
  BY <1>1
<1> QED BY <1>2, Invariance, OneServer, PTL DEF Spec, OthersKeepTheirs
=============================================================================
