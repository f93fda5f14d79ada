--------------------------- MODULE MCJobScheduling ---------------------------
(***************************************************************************)
(* Small instances of JobScheduling for TLC.  "often" fires at 2, 3 and 4, *)
(* "rarely" at 3; both fire again past the horizon of 4.  "never" is       *)
(* accepted by the parser and has no slot.                                 *)
(***************************************************************************)
EXTENDS JobScheduling

MCFires == [e \in Expressions |->
              CASE e = "often"  -> {2, 3, 4, 5}
                [] e = "rarely" -> {3, 5}
                [] e = "never"  -> {}]

PutSchedule(go, e) == [NoUpdates EXCEPT !.schedule = GoValue(go, e)]
PutStatus(s) == [NoUpdates EXCEPT !.status = GoValue("string", s)]

\* another schedule, one that does not parse, one that is not a string, a status
MCUpdates == {PutSchedule("string", "rarely"), PutSchedule("string", "bad"),
              PutSchedule("float64", "rarely"), PutStatus("ACTIVE")}

\* the same, with the schedule the job may already have
MCReschedules == {PutSchedule("string", e) : e \in Expressions}

MCStatusUpdates == {PutStatus("INACTIVE")}

HandlerSymmetry == Permutations(Handlers)

=============================================================================
