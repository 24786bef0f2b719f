------------------------------ MODULE MCPeople ------------------------------
(* A finite instance of People: a super admin, an admin and one user more, who *)
(* may be created while another is given the same e-mail.                     *)
EXTENDS People

Three == {"s", "a", "n"}
Roles == [s |-> "super_admin", a |-> "admin"]
Addresses == [s |-> "e1", a |-> "e2"]
SomeUpdates ==
    {[NoChange EXCEPT !.role = "manager"],
     [NoChange EXCEPT !.role = "admin", !.email = "e3", !.is_active = TRUE],
     [NoChange EXCEPT !.role = "viewer", !.is_active = FALSE]}
Invited ==
    {[email |-> "e3", role |-> "viewer", is_active |-> Null, password |-> FALSE],
     [email |-> "e3", role |-> "admin", is_active |-> Null, password |-> TRUE],
     [email |-> "e3", role |-> "super_admin", is_active |-> Null, password |-> TRUE]}
=============================================================================
