---------------------------- MODULE MCAdmission ----------------------------
(* Three requests against two slots and two pool threads: the third heavy  *)
(* request meets a full semaphore, and tasks abandoned by a timeout or a   *)
(* departed client meet a full pool.                                       *)
EXTENDS Admission
=============================================================================
