--------------------------- MODULE MCAlertDelivery ---------------------------
(* Instances of AlertDelivery for TLC. *)
EXTENDS AlertDelivery, TLC

CONSTANTS n1, n2

TwoNodes == {n1, n2}

\* "admin001", the documentation's example, is not hexadecimal: no node.
FourSpellings == ("!000000n1" :> n1) @@ ("0xn2" :> n2) @@
                 ("!ffffffff" :> Everyone) @@ ("admin001" :> NoNode)

To(mode, targets, show) == [mode |-> mode, target_nodes |-> targets, show_on_sender |-> show]
File(from, c, w, i, d) ==
  [from_node_id |-> from,
   routing |-> [s \in Severities |->
     CASE s = "critical" -> c [] s = "warning" -> w [] s = "info" -> i [] OTHER -> d]]

\* The shipped config.yaml.
Shipped == File("!000000n1",
  To("broadcast", <<>>, TRUE), To("direct", <<"!000000n1", "0xn2">>, FALSE),
  To("broadcast", <<>>, FALSE), To("broadcast", <<>>, FALSE))
\* An unreadable target, a mode of its own name, the broadcast id as a target.
Unusual == File("!000000n1",
  To("direct", <<"admin001", "0xn2">>, TRUE), To("mixed", <<"!ffffffff">>, FALSE),
  NoRoute, To("direct", <<"0xn2">>, FALSE))
\* No mode in the default route, none for warnings, an unreadable sender.
Modeless == File("admin001", To("broadcast", <<"0xn2">>, TRUE), NoRoute, NoRoute,
  To("", <<"!000000n1">>, FALSE))
\* A default of null.
NoDefault == File("!000000n1", To("broadcast", <<>>, TRUE), NoRoute, NoRoute, NoRoute)

Both == {"lora"} \X {Shipped, Unusual, Modeless} \cup {<<"standalone", Shipped>>}
Null == {"lora"} \X {NoDefault}
CriticalAndWarning == <<"critical", "warning">>
=============================================================================
