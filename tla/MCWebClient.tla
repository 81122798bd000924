----------------------------- MODULE MCWebClient -----------------------------
(* Persons of several habits in front of the web application.               *)
EXTENDS WebClient

Person(live, external, habits, impatient, actions, failures) ==
    [live |-> live, external |-> external, habits |-> habits, impatient |-> impatient,
     actions |-> actions, failures |-> failures]

Choosing == {"select", "close", "send"} \X {"refresh", "select"}
Looking == {"open", "close"} \X {"send"}

Everyone ==
    <<Person({1, 2}, {}, {"select", "open", "close", "act"}, Choosing, 4, 0),
      Person({1, 2}, {}, {"select", "open", "close", "send"}, Choosing \cup Looking, 3, 0),
      Person({1}, {2}, {"select", "create", "confirm", "send", "provider"}, Choosing, 5, 0),
      Person({1, 2}, {1, 2}, {"select", "confirm", "send", "provider"}, Choosing, 5, 0),
      Person({1}, {}, {"open", "send", "edit", "act"}, Looking, 4, 2),
      Person({}, {1}, {"create", "select", "send", "provider"}, Kinds \X Calls, 3, 1)>>
=============================================================================
