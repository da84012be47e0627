--------------------------- MODULE ArchiveSession ---------------------------
(***************************************************************************)
(* What the window promises about the archive the user explores: a request *)
(* to open one replaces what was open, and is answered all or nothing.     *)
(* There is never a part of an archive to explore, and only a request of   *)
(* the user changes it.                                                    *)
(***************************************************************************)
CONSTANTS Requests,    \* packages and indexes the user may ask for
          Packages,
          Contents,    \* the packages a request is for
          None

VARIABLES archive,     \* the packages there are to explore and extract
          request,     \* what the user waits for, or None
          alive        \* the process runs

vars == <<archive, request, alive>>

Init == /\ archive = {}
        /\ request = None
        /\ alive = TRUE

\* The user asks for r: the archive that was open is gone.
Ask(r) == /\ alive /\ request = None
          /\ request' = r
          /\ archive' = {}
          /\ UNCHANGED alive

\* The request is answered, with all of its packages or with none.
Answer == /\ alive /\ request # None
          /\ archive' \in {Contents[request], {}}
          /\ request' = None
          /\ UNCHANGED alive

\* The process ends.
End == /\ alive
       /\ alive' = FALSE
       /\ UNCHANGED <<archive, request>>

Next == (\E r \in Requests : Ask(r)) \/ Answer \/ End

Spec == Init /\ [][Next]_vars

TypeOK == /\ archive \in SUBSET Packages
          /\ request \in Requests \cup {None}
          /\ alive \in BOOLEAN
=============================================================================
