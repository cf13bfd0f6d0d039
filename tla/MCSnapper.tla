----------------------------- MODULE MCSnapper ------------------------------
(* Small instances of Snapper for TLC.                                     *)
EXTENDS Snapper

DailyHourly == <<[prefix |-> <<"daily">>, interval |-> 7, hold |-> <<"aws">>],
                 [prefix |-> <<"hourly">>, interval |-> 3, hold |-> <<>>]>>
Daily       == <<[prefix |-> <<"daily">>, interval |-> 3, hold |-> <<>>]>>

\* One file system with two entries.
OneConfig == [home |-> DailyHourly]
OneBelow  == [home |-> {"home"}]

\* A file system and one below it with the same entry.
ChildConfig == [home |-> Daily, child |-> Daily]
ChildBelow  == [home |-> {"home", "child"}, child |-> {"child"}]
=============================================================================
