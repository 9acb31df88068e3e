--------------------------- MODULE MCTopicFilter ---------------------------
(* Instances of TopicFilter for TLC. *)
EXTENDS TopicFilter

UpToThree(levels) ==
  {<<a>> : a \in levels} \cup {<<a, b>> : a, b \in levels}
    \cup {<<a, b, c>> : a, b, c \in levels}

AllTopics     == UpToThree({"msh", "json", Blank}) \ {Empty}
AllPatterns   == UpToThree({"msh", "json", Blank, "+", "#"})
Msh           == <<"msh", Blank>>
=============================================================================
