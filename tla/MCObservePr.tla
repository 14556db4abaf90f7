---------------------------- MODULE MCObservePr -----------------------------
\* The two halves of observe-pr.ts on the small instance of ObservePr.cfg: the
\* observation of one pull request, and the notices about two.  They share no
\* variable, and a behaviour is one of either.
EXTENDS ObservePr, TrackingNotices

VARIABLE half

MCInit == Init /\ NoticesInit /\ half \in {"observation", "notices"}

MCNext ==
    \/ half = "observation" /\ Next /\ UNCHANGED <<noticesVars, half>>
    \/ half = "notices" /\ NoticesNext /\ UNCHANGED <<vars, half>>

MCSpec == MCInit /\ [][MCNext]_<<vars, noticesVars, half>>
=============================================================================
