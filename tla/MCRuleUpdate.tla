---------------------------- MODULE MCRuleUpdate ----------------------------
(* Two processes: two threads of one that holds a token, and one thread of *)
(* one that insists on the enriched channel.  The open source channel is a *)
(* checkout, the enriched one is installed.                                *)
EXTENDS RuleUpdate, TLC
CONSTANTS u1, u2, u3, p1, p2
All == {u1, u2, u3}
ProcessOf == u1 :> p1 @@ u2 :> p1 @@ u3 :> p2
CallsOf == u1 :> {"refresh", "pin"} @@ u2 :> {"refresh", "ensure"} @@ u3 :> {"refresh", "pin"}
First == {p1}
Second == {p2}
OssCheckout == {"oss"}
EnrichedInstalled == {"enriched"}
=============================================================================
