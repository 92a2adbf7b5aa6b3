----------------------------- MODULE MCSapPages -----------------------------
(* Volunteers with and without what a pass asks for.                       *)
EXTENDS MCSapPool, SapPages

Work == {"PreMon", "PreTue", "PreWed", "PreThur", "PreFri", "PreSat", "OpenSun",
         "Mon", "Tue"}

(* The first two start when Auto of sap_link has it, the third in the week *)
(* before the opening, the last one afterwards.                            *)
Weeks == {Work \cup {"EarlyMan"}, {"EarlyMan", "PreTue"},
          {"PreWed", "PreThur", "PreFri", "Mon"}, {"Tue"}, {}}

Rate == [staff : BOOLEAN, external : BOOLEAN, signed : {TRUE}, trained : BOOLEAN,
         total : {11, 12}, worked : Weeks, arrival : {"PreTue", "Mon"}]

Dates == [y : {2025, 2026}, m : {8, 9, 10}]
(* One of the two passes has a date of op_dates, and a has one of last     *)
(* year's.                                                                 *)
Placed   == (t1 :> 1) @@ (t2 :> 0)
LastYear == a :> 3

Calendars == UNION {[1 .. n -> Dates] : n \in 0 .. 3}
=============================================================================
