------------------------------ MODULE MCStartup ------------------------------
(* Configurations for DerpStartup. *)
EXTENDS DerpStartup

(* a and b list each other, and a waits for b or b for a.  c, d and e do   *)
(* not wait for themselves: d has no mesh key and so does not use its      *)
(* list, and c has a name that does not resolve in its own.                *)
MCServers == {"a", "b", "c", "d", "e"}
MCLists == [a |-> <<"b", "d">>, b |-> <<"a", "e">>, c |-> <<"d", "nowhere">>, d |-> <<"a">>,
            e |-> <<"c", "d">>]
MCNotD == [s \in Servers |-> s # "d"]

(* Two servers that list each other. *)
MCPair == {"a", "b"}
MCMutual == [a |-> <<"b">>, b |-> <<"a">>]
MCAllKeys == [s \in Servers |-> TRUE]
=============================================================================
