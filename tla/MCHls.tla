-------------------------------- MODULE MCHls --------------------------------
(* Instances of Hls, and statements of the code's comments that TLC refutes  *)
(* on them: README, "Where the code departs from its word".                  *)
EXTENDS Hls

\* "Never two egresses writing one room", whoever calls.
NeverTwoWriters == Cardinality(Alive) <= 1

\* A Start that returns an egress to reuse does not return one that is being
\* stopped: what it promised would end with nobody to start it again.
ReusedGoesOn ==
    [][\A c \in Caller :
          Start(c) /\ call'[c] = Idle =>
              \E e \in Ids(LiveForRoom) : eg[e].st # "ending"]_vars
=============================================================================
