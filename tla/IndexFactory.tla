----------------------------- MODULE IndexFactory -----------------------------
(***************************************************************************)
(* DynamicIndexFileFactory (sources/dynindexfilefactory.cpp) with the      *)
(* beginning of PkgFileModel::LoadIndex, which reads the file and calls    *)
(* it: finding out with which of two key collections an index is           *)
(* encrypted.  PkgIndex validates and parses in place, on the vector.      *)
(***************************************************************************)
\* CS_INDEX_KEY_COLLECTION and TFO_INDEX_KEY_COLLECTION.
Collections == {"cs", "tfo"}

VARIABLES indexOpens,       \* the collections that open the index
          indexAt,
          m_vIndexData,     \* its bytes
          m_pPkgIndex       \* the collection its PkgIndex was given last

indexVars == <<indexOpens, indexAt, m_vIndexData, m_pPkgIndex>>

IndexTypeOK ==
  /\ indexOpens \in SUBSET Collections
  /\ indexAt \in {"idle", "read", "cs", "tfo", "unreadable", "detected", "thrown"}
  /\ m_vIndexData \in {"cipher", "plain", "garbled"}
  /\ m_pPkgIndex \in Collections \cup {"none"}

IndexInit ==
  /\ indexOpens = {}
  /\ indexAt = "idle"
  /\ m_vIndexData = "garbled"
  /\ m_pPkgIndex = "none"

Resting == indexAt \notin {"read", "cs", "tfo"}

LoadIndex(opens) ==
  /\ Resting
  /\ indexAt' = "read"
  /\ indexOpens' = opens
  /\ m_pPkgIndex' = "none"
  /\ UNCHANGED m_vIndexData

ReadIndex ==
  /\ indexAt = "read"
  /\ \/ indexAt' = "cs" /\ m_vIndexData' = "cipher"
     \/ indexAt' = "unreadable" /\ UNCHANGED m_vIndexData
  /\ UNCHANGED <<indexOpens, m_pPkgIndex>>

\* ValidateHeader and Parse of the package library succeed on the file's own
\* bytes with a collection that opens it, and throw otherwise, before or
\* after they changed the bytes.
Parsed(collection) == m_vIndexData = "cipher" /\ collection \in indexOpens

TestCsKeysKeepsBytes ==    \* mutant: the backup is not put back
  /\ indexAt = "cs"
  /\ m_pPkgIndex' = "cs"
  /\ IF Parsed("cs") THEN indexAt' = "detected" /\ m_vIndexData' = "plain"
                     ELSE indexAt' = "tfo" /\ m_vIndexData' \in {m_vIndexData, "garbled"}
  /\ UNCHANGED indexOpens
\* The exception is caught and the backup put back.
TestCsKeys ==
  /\ indexAt = "cs"
  /\ m_pPkgIndex' = "cs"
  /\ IF Parsed("cs") THEN indexAt' = "detected" /\ m_vIndexData' = "plain"
                     ELSE indexAt' = "tfo" /\ m_vIndexData' = "cipher"
  /\ UNCHANGED indexOpens

\* When it fails, too, the constructor throws.
TestTfoIndexKeys ==
  /\ indexAt = "tfo"
  /\ m_pPkgIndex' = "tfo"
  /\ IF Parsed("tfo") THEN indexAt' = "detected" /\ m_vIndexData' = "plain"
                      ELSE indexAt' = "thrown" /\ m_vIndexData' = "garbled"
  /\ UNCHANGED indexOpens

IndexStep == ReadIndex \/ TestCsKeys \/ TestTfoIndexKeys

-----------------------------------------------------------------------------
\* An index that some collection opens is never given up, whatever the
\* collection tried before made of its bytes, and one that is used was
\* decrypted with a collection that opens it.
KnownIndexIsDetected ==
  /\ indexAt = "thrown" => indexOpens = {}
  /\ indexAt = "detected" => m_pPkgIndex \in indexOpens /\ m_vIndexData = "plain"
=============================================================================
