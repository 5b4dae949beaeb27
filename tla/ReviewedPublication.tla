------------------------ MODULE ReviewedPublication ------------------------
(***************************************************************************)
(* What moderation promises to the readers and the owner of a profile or a *)
(* resume: readers see only the newest approved version, a version is      *)
(* reviewed once, its owner is told of the outcome once, and until then    *)
(* the owner cannot submit another version of the same content.            *)
(***************************************************************************)
EXTENDS Naturals

CONSTANTS
  Roots,       \* profiles and resumes
  MaxVersions  \* bound: versions of one root

VARIABLES
  review,   \* the review of each version
  shown,    \* per root: the version readers see, 0 for none
  told      \* how often the owner was told of the outcome of a version

vars == <<review, shown, told>>

Versions == Roots \X (1 .. MaxVersions)

Init ==
  /\ review = [v \in Versions |-> "none"]
  /\ shown = [r \in Roots |-> 0]
  /\ told = [v \in Versions |-> 0]

(* The owner submits a version newer than all submitted before it; numbers *)
(* may be skipped for drafts that are never submitted.                     *)
Submit(v) ==
  /\ \A n \in 1 .. MaxVersions :
       /\ review[<<v[1], n>>] # "waiting"
       /\ n >= v[2] => review[<<v[1], n>>] = "none"
  /\ review' = [review EXCEPT ![v] = "waiting"]
  /\ UNCHANGED <<shown, told>>

Approve(v) ==
  /\ review[v] = "waiting"
  /\ review' = [review EXCEPT ![v] = "approved"]
  /\ shown' = [shown EXCEPT ![v[1]] = v[2]]
  /\ told' = [told EXCEPT ![v] = @ + 1]

(* A rejected version leaves what readers see alone. *)
Reject(v) ==
  /\ review[v] = "waiting"
  /\ review' = [review EXCEPT ![v] = "rejected"]
  /\ told' = [told EXCEPT ![v] = @ + 1]
  /\ UNCHANGED shown

Next == \E v \in Versions : Submit(v) \/ Approve(v) \/ Reject(v)

Spec == Init /\ [][Next]_vars
============================================================================
