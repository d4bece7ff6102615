------------------------ MODULE MCConcurrentUseCases ------------------------
(***************************************************************************)
(* Instances of ConcurrentUseCases for TLC: which commands compete.        *)
(***************************************************************************)
EXTENDS ConcurrentUseCases

CONSTANTS p1, p2, nothing

OneObjective == [s \in Slots |-> "objective"]
AnyPerson == [who \in {NoOne, p1, p2} |-> IF who = NoOne THEN {p1, p2} ELSE {who}]

Empty  == {[a \in Assignments |-> Blank("none")]}
Drafts == {[a \in Assignments |-> Blank("live")]}

(* An assignment of p1 with its activities in every combination of states  *)
(* that are not terminal.                                                  *)
Activity == {[status |-> "UNASSIGNED", assignees |-> {}],
             [status |-> "ASSIGNED", assignees |-> {p1}],
             [status |-> "IN_PROGRESS", assignees |-> {p1}]}
Running ==
    {[a \in Assignments |->
         [Blank("live") EXCEPT !.status = "IN_PROGRESS", !.assignee = p1, !.acts = f]] :
     f \in [Slots -> Activity]}

Command(kinds, args, slots) == [kind: kinds, a: Assignments, s: slots, arg: args]

Creating  == Command({"create"}, {NoOne, p1}, {nothing})
Assigning == Command({"assign"}, {p1, p2}, {nothing})
Steering  == Command({"setStatus"}, {"IN_PROGRESS", "COMPLETED", "FAILED"}, {nothing})
Staffing  == Command({"staff", "unstaff"}, {p1}, Slots)
Working   == Command({"setActivity"}, {"IN_PROGRESS", "COMPLETED", "FAILED"}, Slots)
Deleting  == Command({"delete"}, {nothing}, {nothing})

Opening    == Creating \union Assigning
Assigned   == Opening \union Staffing \union Deleting
Everything == Opening \union Steering \union Staffing \union Working \union Deleting
=============================================================================
