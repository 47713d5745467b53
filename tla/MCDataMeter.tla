------------------------------ MODULE MCDataMeter ------------------------------
(* Terms for TLC: each measure alone, an allowance on either cycle, and the     *)
(* measures together.                                                           *)
EXTENDS DataMeter, TLC

Daily(n) == [allocation |-> n, cycle |-> "daily", countdown |-> None, schedule |-> None]
Once(n)  == [allocation |-> n, cycle |-> "once", countdown |-> None, schedule |-> None]
Evening  == [allocation |-> 0, cycle |-> "daily", countdown |-> None, schedule |-> {2}]
Sitting  == [allocation |-> 0, cycle |-> "once", countdown |-> 2, schedule |-> None]
Stacked  == [allocation |-> 1, cycle |-> "daily", countdown |-> 2, schedule |-> {0, 1}]

ByteTerms  == {Daily(1), Daily(2), Once(2)}
ClockTerms == {Sitting, Stacked}
OneTerm    == {Once(1)}
AllTerms   == {Evening} \cup ByteTerms \cup ClockTerms
Same == Permutations(Devices)
================================================================================
