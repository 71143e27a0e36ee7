----------------------- MODULE MCArtifactRepository -----------------------
(* A blueprint and a module design that reads it.                           *)
EXTENDS ArtifactRepository

CONSTANT m

MCInputs == [p \in Producers |-> IF p = Blueprint THEN {} ELSE {Blueprint}]
=============================================================================
