-------------------------- MODULE BookAuthorization --------------------------
(***************************************************************************)
(* What preview approval and print production promise together, without    *)
(* how: files are served only from a run that was released for the content *)
(* the customer approved, and content that changes takes the approval and  *)
(* every release with it.                                                  *)
(***************************************************************************)
CONSTANTS
  Content,      \* contents of a book
  Run,          \* print runs
  None          \* nothing served

VARIABLES
  content,      \* what the pages and the cover are now
  approved,     \* the customer approved it, and that was not withdrawn
  released,     \* runs whose files may leave
  serving       \* the run a file of which is being handed out
vars == <<content, approved, released, serving>>

Init ==
  /\ content \in Content /\ approved = FALSE
  /\ released = {} /\ serving = None

Edit ==
  /\ content' \in Content /\ content' # content
  /\ approved' = FALSE /\ released' = {}
  /\ UNCHANGED serving

Decide ==
  /\ approved' \in BOOLEAN
  /\ UNCHANGED <<content, released, serving>>

Release(r) ==
  /\ approved
  /\ released' = released \cup {r}
  /\ UNCHANGED <<content, approved, serving>>

\* a new profile, or a change of the composition of the same content
Revoke ==
  /\ released' \subseteq released
  /\ approved' \in {approved, FALSE}
  /\ UNCHANGED <<content, serving>>

Serve(r) ==
  /\ approved /\ r \in released
  /\ serving' = r
  /\ UNCHANGED <<content, approved, released>>

Served == serving' = None /\ UNCHANGED <<content, approved, released>>

Next ==
  \/ Edit \/ Decide \/ Revoke \/ Served
  \/ \E r \in Run : Release(r) \/ Serve(r)
Spec == Init /\ [][Next]_vars
=============================================================================
