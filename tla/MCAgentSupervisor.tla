-------------------------- MODULE MCAgentSupervisor --------------------------
EXTENDS AgentSupervisor

CONSTANTS a, b, c, dir, file

\* a edits a file, b the directory that file is in, c needs no lock.
MCRepoOf == [e \in {a, b, c} |-> "repo"]
MCWrites == a :> {file} @@ b :> {dir} @@ c :> {}
MCInside == {<<file, dir>>}
=============================================================================
