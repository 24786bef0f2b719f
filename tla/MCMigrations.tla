---------------------------- MODULE MCMigrations ----------------------------
(* Finite instances of Migrations.                                           *)
EXTENDS Migrations

\* Four files, two of which have the same number (as 047 has in the repository).
FourFiles == 1..4
Numbers == <<1, 2, 2, 3>>

\* A new database, and two that have had files run by hand.
HandMade == {{}, {1}, {1, 2}}

\* The first creates a table, the others extend it.
CreatesTable == {1}
AfterTable == <<{}, {1}, {1}, {1, 2}>>

\* The last has a body of several lines.
Lines == << <<"comment", "code", "end">>, <<"end", "comment", "end">>, <<"code">>,
            <<"comment", "open", "comment", "end", "close", "end">> >>
=============================================================================
