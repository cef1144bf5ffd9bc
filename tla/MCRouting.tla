------------------------------ MODULE MCRouting ------------------------------
(* Instances of MasterMessages and ChatRouting for TLC.                       *)
EXTENDS MasterInvariant
CONSTANTS s1, s2, home, forum, hall, group, t1, t2

Remote == {s1, s2}
Groups == {home, forum, hall, group}
WithTopics == {home, forum, hall}
Callers == {t1, t2}

Cmd(op, from, to, s) == [op |-> op, from |-> from, to |-> to, slave |-> s]
Write(c, kind, s) == [chat |-> c, kind |-> kind, about |-> s]
Plan(l, h, x, said, wrote, stops) ==
    [links |-> l, handler |-> h, sender |-> x, heard |-> said, writes |-> wrote, stops |-> stops]

BothIn(c) == <<Link(c, s1), Link(c, s2)>>
Plain(c) == Write(c, "plain", None)

SomePlans ==
    {Plan(<<>>, <<Cmd("link", None, forum, s1), Cmd("unlink", None, None, s1)>>, <<>>,
          <<s1, s1>>, <<Plain(forum)>>, FALSE),
     Plan(BothIn(forum), <<Cmd("initTopics", forum, None, None), Cmd("unlinkAll", forum, None, None)>>, <<>>,
          <<s1>>, <<Plain(forum)>>, FALSE),
     Plan(BothIn(forum), <<Cmd("relink", forum, hall, None)>>, <<>>, <<s1, s2>>, <<Plain(forum)>>, FALSE),
     Plan(BothIn(group), <<Cmd("migrate", group, forum, None)>>, <<Cmd("migrate", group, forum, None)>>,
          <<s1>>, <<>>, FALSE),
     Plan(BothIn(group), <<>>, <<>>, <<s1, s2>>,
          <<Write(group, "reply", s1), Plain(group), Write(group, "edit", s2)>>, TRUE)}

ErrorPlans == {Plan(BothIn(group), <<Cmd("migrateOnError", group, forum, None)>>, <<>>, <<>>, <<>>, FALSE)}
LinkPlans == {Plan(<<>>, <<Cmd("link", None, forum, s1)>>, <<>>, <<s1, s1>>, <<>>, FALSE)}
==============================================================================
