------------------------- MODULE MCViralUploadClaims -------------------------
(***************************************************************************)
(* What ViralUploadEngine's header and comments say of the engine, each    *)
(* refuted by a run of its own: the code does something else.              *)
(***************************************************************************)
EXTENDS ViralUploadEngine

(* "Start upload - blocks until complete or error": a job is COMPLETED only *)
(* if its TusClient finished.  upload() also returns true when it was       *)
(* paused, and a resume before that hides the pause from the result.        *)
CompletedOnlyIfFinished ==
    [][\A j \in Ids :
          m_jobs[j].status # "COMPLETED" /\ m_jobs'[j].status = "COMPLETED"
             => tus.status = "FINISHED"]_vars

=============================================================================
