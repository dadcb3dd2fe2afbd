--------------------------------- MODULE WireMC ---------------------------------
(***************************************************************************)
(* What the clients of the three profiles send.                            *)
(***************************************************************************)
EXTENDS Wire

Parse(name, sql) == Frame("P", "S", name, sql)
Bind(statement) == Frame("B", "P", "", statement)
Execute == Frame("E", "P", "", "")
Limited == Frame("E", "P", "", "limited")
DescribeS(name) == Frame("D", "S", name, "")
DescribeP == Frame("D", "P", "", "")
Close(name) == Frame("C", "S", name, "")
Query(sql) == Frame("Q", "", "", sql)
Flush == Bare("H")

MCStarts ==
  [sync |-> {<<Query("a")>>, <<Query("copyin")>>,
             <<Parse("", "a"), Bind(""), Execute, Sync>>,
             <<Parse("", "b"), Sync>>, <<Bind(""), Execute, Sync>>, <<Execute, Sync>>,
             <<Parse("s", "a"), Sync>>, <<Parse("s", "b"), Bind("s"), Execute, Sync>>,
             <<Close("s"), Sync>>,
             <<Parse("", "copyin"), Bind(""), Execute, Sync>>},
   describe |-> {<<Parse("s", "a"), DescribeS("s"), Flush>>, <<Query("copyout")>>},
   flush |-> {<<Parse("", "a"), Bind(""), DescribeP, Limited, Flush>>,
              <<Parse("", "copyin"), Bind(""), Execute, Flush>>,
              <<Parse("", "a"), DescribeS(""), Flush>>}]

MCStages ==
  [sync |-> {}, describe |-> {<<Bind("s"), Execute, Sync>>},
   flush |-> {<<Execute, Flush>>, <<Sync>>, <<Bind(""), Execute, Sync>>}]
================================================================================
