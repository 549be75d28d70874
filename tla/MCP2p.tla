------------------------------- MODULE MCP2p -------------------------------
(* Three nodes.  In a pair, b and c know each other, and a does not know     *)
(* anybody; in a chain, a and b know each other, and b and c.                *)
EXTENDS P2p
CONSTANTS a, b, c, hb, hc, l1, l2

OneHost == [n \in Node |-> IF n = b THEN hb ELSE NoHost]
TwoHosts == [n \in Node |-> CASE n = b -> hb [] n = c -> hc [] OTHER -> NoHost]
Pair == {<<b, c>>, <<c, b>>}
Chain == {<<a, b>>, <<b, a>>} \cup Pair
Empty == [n \in Node |-> Nothing]
Announced == [Empty EXCEPT ![c] = With(Nothing, hb, b)]
Both == [Announced EXCEPT ![b] = With(Nothing, hc, c)]

\* a joins a pair.
Join == {[acquainted |-> Pair, db |-> Empty, ids |-> {}, due |-> Due("p", a, {Everyone}, 1)]}

\* That; two searches or announcements on a chain; and one, after b has announced its
\* host to c, while pings of cron's are due.
Pings == Due("p", a, {b}, 1) \cup Due("p", b, {c}, 1)
Prompt == Join \cup
  {[acquainted |-> Chain, db |-> Empty, ids |-> {l1, l2}, due |-> {}],
   [acquainted |-> Chain, db |-> Announced, ids |-> {l1}, due |-> Pings]}

\* Two searches or announcements in a pair; one on a chain; one in a pair with
\* its maintenance; one in a pair where c pings b until it is bad; and that with
\* a ping and a find of b's.
Upkeep == UNION {Due(q, n, {b, c}, 1) : q \in {"p", "f"}, n \in {b, c}}
Silence == Due("p", c, {b}, 1) \cup Due("p", c, {b}, 2)
Recall == Due("p", b, {c}, 1) \cup Due("f", b, {c}, 1)
Lossy ==
  {[acquainted |-> Pair, db |-> Both, ids |-> {l1, l2}, due |-> {}],
   [acquainted |-> Chain, db |-> Announced, ids |-> {l1}, due |-> {}],
   [acquainted |-> Pair, db |-> Empty, ids |-> {l1}, due |-> Upkeep],
   [acquainted |-> Pair, db |-> Empty, ids |-> {l1}, due |-> Silence],
   [acquainted |-> Pair, db |-> Empty, ids |-> {}, due |-> Silence \cup Recall]}
=============================================================================
