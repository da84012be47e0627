-------------------------- MODULE ExtractionService --------------------------
(***************************************************************************)
(* What NodeExtractionMgr promises CMainWindow, whatever it reads, lends   *)
(* and keeps between packages: an extraction is asked for some items, it   *)
(* writes only these, and answers yes when it wrote all.  It may answer no *)
(* at any point; what it wrote until then stays written.                   *)
(***************************************************************************)
CONSTANT Items        \* a file, and the path it is to be written under

VARIABLES state,      \* of the extraction asked for last
          wanted,     \* what it was asked for
          written,    \* what of it was written
          answer      \* the last answer given

vars == <<state, wanted, written, answer>>

Init ==
  /\ state = "idle"
  /\ wanted = {} /\ written = {}
  /\ answer = FALSE

Ask ==
  /\ state = "idle" /\ state' = "working"
  /\ wanted' \in SUBSET Items
  /\ written' = {}
  /\ UNCHANGED answer

Write ==
  /\ state = "working"
  /\ \E t \in wanted \ written : written' = written \cup {t}
  /\ UNCHANGED <<state, wanted, answer>>

Succeed ==
  /\ state = "working" /\ written = wanted
  /\ state' = "idle" /\ answer' = TRUE
  /\ UNCHANGED <<wanted, written>>

Fail ==
  /\ state = "working"
  /\ state' = "idle" /\ answer' = FALSE
  /\ UNCHANGED <<wanted, written>>

\* An exception on the job's thread.
Throw ==
  /\ state = "working" /\ state' = "terminated"
  /\ UNCHANGED <<wanted, written, answer>>

Next == Ask \/ Write \/ Succeed \/ Fail \/ Throw

Spec == Init /\ [][Next]_vars
=============================================================================
