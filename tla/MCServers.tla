------------------------------ MODULE MCServers ------------------------------
(***************************************************************************)
(* Configurations of nginx and of Apache that a distribution or an         *)
(* administrator writes for two domains a.x and b.x: exact names,          *)
(* wildcards, default servers, blocks without a listen, with a certificate *)
(* of somebody else's, in one file or in several.                          *)
(***************************************************************************)
EXTENDS Servers

a == <<"a", "x">>
b == <<"b", "x">>
MCDomain == {a, b}

Exact(ds) == {[form |-> "exact", labels |-> d] : d \in ds}
Below(form) == {[form |-> form, labels |-> <<"x">>]}
Dot(ds) == {[form |-> "dot", labels |-> d] : d \in ds}
Trailing == {[form |-> "tail", labels |-> <<"a">>]}

\* ---- nginx: blocks of nginx.conf inside http{}, and of a site file at its top
Block(file, names, listens) ==
  [file |-> file, top |-> file # Root, names |-> names, listens |-> listens,
   cert |-> IF \E l \in listens : l.ssl THEN Foreign ELSE None,
   acme |-> "none", redirects |-> {}, hsts |-> FALSE, chain |-> None]

H == {N!Plain("80")}
HD == {[N!Plain("80") EXCEPT !.default = TRUE]}
S == {[N!Plain("443") EXCEPT !.ssl = TRUE]}
SD == {[N!Plain("443") EXCEPT !.ssl = TRUE, !.default = TRUE]}
P == {N!Plain("8080")}

Nginx(blocks, bucket) ==
  [server |-> "nginx", conf |-> [blocks |-> blocks, include |-> FALSE, bucket |-> bucket]]

Own(block) == [block EXCEPT !.acme = "own"]

NginxLayouts ==
  {Nginx(<<x, y>>, "none") :
     x \in {Block(Root, Exact({a}), H), Block(Root, Exact({a, b}), {}),
            Block(Root, Below("star"), HD), Block(Root, {}, SD),
            Block(Root, Exact({b}), P), Block("other", Below("star"), S)},
     y \in {Block("site", Exact({a}), H), Block("site", Exact({a, b}), H),
            Block("site", Exact({b}), S), Block("site", Below("dot"), H \cup S),
            Block("site", Below("regex"), S), Block("site", Trailing, P),
            Block("site", {}, HD), Block("site", Exact({a}), H \cup S)}}
  \cup
  {Nginx(<<Block(Root, Exact({b}), P), Own(Block("site", Exact({a}), H)),
           Block("site", Exact({a}), S)>>, "own"),
   Nginx(<<Block("site", Exact({a}), H), Block("other", Exact({a}), S),
           Block("other", Below("star"), H \cup S)>>, "none"),
   Nginx(<<Block("other", Dot({a, b}), S), Block("site", Exact({a}), H)>>, "none"),
   Nginx(<<Block("site", Exact({a}), H), Block("other", Dot({a}), H)>>, "none"),
   Nginx(<<Block("other", Below("dot"), S), Block("site", Below("star"), H \cup S)>>, "none")}

\* ---- apache
Host(file, names, port) ==
  [file |-> file, part |-> "source", port |-> port, names |-> names, macro |-> FALSE,
   cert |-> IF port = "443" THEN Foreign ELSE None, includes |-> <<>>,
   redirects |-> {}, hsts |-> FALSE, staple |-> FALSE, snippets |-> 0]

Apache(blocks) ==
  [server |-> "apache",
   conf |-> [blocks |-> [i \in {2 * n : n \in DOMAIN blocks} |-> blocks[i \div 2]]]]

ApacheLayouts ==
  {Apache(<<x, y>>) :
     x \in {Host("one", Exact({a}), "80"), Host("one", Exact({a, b}), "80"),
            Host("one", {}, "80"),
            [Host("one", Exact({a}), "80") EXCEPT !.includes = <<"user">>]},
     y \in {Host("one", Exact({b}), "80"), Host("two", Exact({b}), "80"),
            Host("two", Below("star"), "80"), Host("two", Exact({a}), "443"),
            Host("two", Exact({a, b}), "443"),
            [Host("two", Exact({b}), "80") EXCEPT !.macro = TRUE]}}
  \cup {Apache(<<Host("one", Exact({a}), "80"), Host("two", Exact({b}), "80"), z>>) :
           z \in {Host("two", {}, "80"), Host("three", Below("star"), "443")}}
  \cup {Apache(<<Host("two", Exact({a}), "443")>>)}

MCLayout == NginxLayouts \cup ApacheLayouts
=============================================================================
