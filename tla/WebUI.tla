--------------------------------- MODULE WebUI ---------------------------------
(***************************************************************************)
(* The web UI: the router of App.tsx shows one page, which mounts with a   *)
(* state of its own.  The browser is opened at either page and stays on    *)
(* it: coming from another page is a mount, and what that page had in      *)
(* flight is some other client's doing.                                    *)
(***************************************************************************)
EXTENDS BucketPage, Dashboard

VARIABLE page    \* the page the router shows

vars == <<pageVars, dashboardVars, page>>

TypeOK == PageTypeOK /\ DashboardTypeOK /\ page \in {"bucket", "dashboard"}

Init ==
    /\ page \in {"bucket", "dashboard"}
    /\ PageInit
    /\ DashboardInit

OnBucket(A) == page = "bucket" /\ A /\ UNCHANGED <<dashboardVars, page>>
OnDashboard(A) == page = "dashboard" /\ A /\ UNCHANGED <<pageVars, page>>

Next == OnBucket(PageNext) \/ OnDashboard(DashboardNext)

Spec == Init /\ [][Next]_vars

(* Requests are answered or fail, answers arrive and timers fire: as long  *)
(* as something is under way, something of it goes on.  Nothing is assumed *)
(* of the user.                                                            *)
Fairness ==
    /\ WF_vars(OnBucket(PageGoesOn))
    /\ WF_vars(OnDashboard(CreateStep))
    /\ WF_vars(OnDashboard(ListGoesOn))

FairSpec == Spec /\ Fairness
-----------------------------------------------------------------------------
(* Properties *)

Spinning ==
    \/ page = "bucket" /\ (loading \/ deletingKey # None \/ tasks # <<>>)
    \/ page = "dashboard" /\ \/ Fetching
                             \/ creating.pc # "idle" \/ deletingId # Unset

(* The spinners of a page, the marks of what is being deleted and the      *)
(* upload panel go away, whatever fails and overlaps (load, handleDelete,  *)
(* uploadFiles, handleCreate).                                             *)
SpinningStops == Spinning ~> ~Spinning
=============================================================================
