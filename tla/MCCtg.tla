-------------------------------- MODULE MCCtg --------------------------------
(***************************************************************************)
(* NocCtgApplication in small task graphs, for TLC.                        *)
(***************************************************************************)
EXTENDS NocCtgApplication

\* Two destinations: one flit, then two packets and a half.
TwoDestinations == <<[task |-> "t1", data |-> 1, node |-> "n3"],
                     [task |-> "t1", data |-> 4, node |-> "n2"]>>

\* The second destination is the node itself.
SelfInBetween == <<[task |-> "t1", data |-> 3, node |-> "n2"],
                   [task |-> "t2", data |-> 5, node |-> "n1"],
                   [task |-> "t1", data |-> 2, node |-> "n3"]>>

\* A large destination before a small one.
LargeThenSmall == <<[task |-> "t1", data |-> 9, node |-> "n2"],
                    [task |-> "t1", data |-> 1, node |-> "n3"]>>

\* Two predecessors of task t1, two iterations each; those of p2 overlap.
TwoPredecessors ==
  [p \in {"p1", "p2"} |->
     [task |-> "t1", data |-> 2,
      flits |-> IF p = "p1"
                THEN <<[iteration |-> 0, bytes |-> 1], [iteration |-> 0, bytes |-> 2],
                       [iteration |-> 1, bytes |-> 1], [iteration |-> 1, bytes |-> 2]>>
                ELSE <<[iteration |-> 0, bytes |-> 1], [iteration |-> 1, bytes |-> 1],
                       [iteration |-> 0, bytes |-> 2], [iteration |-> 1, bytes |-> 2]>>]]

\* Nobody sends to the node.
NoPredecessor == [p \in {} |-> Nothing]

\* Three iterations without limits and stop, whose events overlap.
Source ==
  [iterations |-> 3, period |-> 1, totalExecTime |-> 1, maxBytes |-> 0, maxFlits |-> 0,
   localTaskList |-> SelfInBetween, remoteTaskList |-> NoPredecessor,
   stopTime |-> 0, endTime |-> 34]

\* The same with limits and a stop, which may come first: here the fifth flit ends it,
\* with seven bytes,
LimitedSource ==
  [Source EXCEPT !.maxBytes = 8, !.maxFlits = 5, !.localTaskList = LargeThenSmall,
                 !.stopTime = 8, !.endTime = 20]

\* and here its seven bytes do, before a sixth flit.
ByteLimitedSource == [LimitedSource EXCEPT !.maxBytes = 7, !.maxFlits = 6]

\* A node between predecessors and destinations.
Relay ==
  [Source EXCEPT !.iterations = 2, !.period = 0, !.localTaskList = TwoDestinations,
                 !.remoteTaskList = TwoPredecessors, !.endTime = 12]

\* A node that only receives.
Sink == [Relay EXCEPT !.totalExecTime = 3, !.localTaskList = <<>>, !.endTime = 8]

AllSettings == {Source, LimitedSource, ByteLimitedSource, Relay, Sink}

\* No predecessor sends a later iteration before an earlier one.
ASSUME SettingsInOrder == \A s \in AllSettings : IterationsInOrder(s)

=============================================================================
