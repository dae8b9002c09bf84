------------------------------ MODULE MCScript ------------------------------
(* All the programs, from a shell with errexit off or on.                  *)
EXTENDS MCPrograms, PortableScript

MCInputs == AllInputs
MCPlaces == AllPlaces
MCCommands == AllCommands
=============================================================================
