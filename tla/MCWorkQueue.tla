---------------------------- MODULE MCWorkQueue ----------------------------
(* Small instances of WorkQueue for TLC: folders as paths.                 *)
EXTENDS WorkQueue

\* A project, a folder inside it, and another project; broad ones are in MCServices.
Proj == <<"p">>
Sub == <<"p", "q">>
Other == <<"o">>

SomeDirs == {Proj, Sub, Other}

\* One folder, for the instances that are about something else.
OneDir == {Proj}
NoBroad == {}

=============================================================================
