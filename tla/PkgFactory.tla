------------------------------ MODULE PkgFactory ------------------------------
(***************************************************************************)
(* DynamicPkgFileFactory (sources/dynpkgfilefactory.cpp) with what         *)
(* PkgFileModel::LoadPackage does with it: finding out whose keys a        *)
(* package is encrypted with.                                              *)
(*                                                                         *)
(* PkgFile::DecryptHeader works in place, on the vector m_vPkgFileData the *)
(* PkgFile points into.  After a wrong key the bytes are garbage, so       *)
(* TestCsKeys puts a backup back; when DecryptHeader throws it does not,   *)
(* and the next key is tried on what the throwing one left.                *)
(*                                                                         *)
(* A file stands for what opens it: the keys, with the layout, that its    *)
(* header can be decrypted with.  None opens a file of no known provider.  *)
(***************************************************************************)
EXTENDS GameProviders

Lock == [key : Keys, tfo : BOOLEAN]

CONSTANTS PkgFiles,    \* the package files that may be asked for
          NoKey

ASSUME FactoryAssumption ==
  /\ PkgFiles \subseteq SUBSET Lock
  /\ NoKey \notin Keys

VARIABLES file,                \* the file asked for, or the last one
          asked,               \* the provider argument
          factoryAt,           \* where the constructor, or LoadPackage, is
          m_vPkgFileData,      \* [of: none, base or full; bytes]
          vBackupPkgData,      \* the bytes of the backup
          m_pPkgFile,          \* [key, tfo, span: the vector it points into]
          m_DetectedProvider,
          keyIndex,            \* the loop variable of TestCsKeys
          threw,               \* the indexes whose key threw (history)
          result               \* of the last request

factoryVars == <<file, asked, factoryAt, m_vPkgFileData, vBackupPkgData, m_pPkgFile,
                 m_DetectedProvider, keyIndex, threw, result>>

Bytes    == {"cipher", "plain", "garbled"}
Vectors  == {"none", "base", "full"}
NoData   == [of |-> "none", bytes |-> "garbled"]
NoPkg    == [key |-> NoKey, tfo |-> FALSE, span |-> "none"]
KeyCount == Len(CsProviders)

FactoryTypeOK ==
  /\ file \in SUBSET Lock
  /\ asked \in Providers \cup {Unknown}
  /\ factoryAt \in {"idle", "base", "create", "key", "tfo", "specific", "full", "decrypt", "parse"}
  /\ m_vPkgFileData \in [of : Vectors, bytes : Bytes]
  /\ vBackupPkgData \in Bytes
  /\ m_pPkgFile \in [key : Keys \cup {NoKey}, tfo : BOOLEAN, span : Vectors]
  /\ m_DetectedProvider \in Providers \cup {Unknown}
  /\ keyIndex \in 1..KeyCount
  /\ threw \in SUBSET (1..KeyCount)
  /\ result \in {"none", "loaded", "failed"}
  /\ factoryAt # "idle" => result = "none"
  /\ factoryAt = "specific" => asked # Unknown

FactoryInit ==
  /\ file = {}
  /\ asked = Unknown
  /\ factoryAt = "idle"
  /\ m_vPkgFileData = NoData
  /\ vBackupPkgData = "garbled"
  /\ m_pPkgFile = NoPkg
  /\ m_DetectedProvider = Unknown
  /\ keyIndex = 1
  /\ threw = {}
  /\ result = "none"

-----------------------------------------------------------------------------
\* PkgFile::DecryptHeader of the package library: it tells a header by its
\* checksum, so it accepts only untouched bytes with the right key and
\* layout, and leaves them decrypted.  Otherwise it returns false or throws,
\* and the bytes are what it made of them by then.
Decrypted(lock, bytes) ==
  IF bytes = "cipher" /\ lock \in file
  THEN {[ends |-> "true", bytes |-> "plain"]}
  ELSE {[ends |-> "false", bytes |-> "garbled"], [ends |-> "throws", bytes |-> "garbled"],
        [ends |-> "throws", bytes |-> bytes]}

WithBytes(bytes) == [m_vPkgFileData EXCEPT !.bytes = bytes]

\* LoadPackage(pkgPath, provider) constructs the factory.
LoadPackage(f, provider) ==
  /\ factoryAt = "idle"
  /\ factoryAt' = "base"
  /\ file' = f
  /\ asked' = provider
  /\ m_DetectedProvider' = Unknown
  /\ threw' = {}
  /\ result' = "none"
  /\ m_pPkgFile' = NoPkg
  /\ UNCHANGED <<m_vPkgFileData, vBackupPkgData, keyIndex>>

\* The constructor throws, or the parser does, and LoadPackage returns false:
\* the factory's vector is gone, and with it what pointed into it.
Fail ==
  /\ factoryAt' = "idle"
  /\ result' = "failed"
  /\ m_vPkgFileData' = NoData
  /\ m_pPkgFile' = NoPkg

LoadBaseFileHeader ==
  /\ factoryAt = "base"
  /\ \/ /\ m_vPkgFileData' = [of |-> "base", bytes |-> "cipher"]
        /\ factoryAt' = IF asked = Unknown THEN "create" ELSE "specific"
        /\ UNCHANGED <<m_pPkgFile, result>>
     \/ Fail
  /\ UNCHANGED <<file, asked, vBackupPkgData, m_DetectedProvider, keyIndex, threw>>

\* TryDetectProvider up to the loop of TestCsKeys.
CreatePkgFile ==
  /\ factoryAt = "create"
  /\ factoryAt' = "key"
  /\ m_pPkgFile' = [key |-> NoKey, tfo |-> FALSE, span |-> "base"]
  /\ vBackupPkgData' = m_vPkgFileData.bytes
  /\ keyIndex' = 1
  /\ UNCHANGED <<file, asked, m_vPkgFileData, m_DetectedProvider, threw, result>>

NextKey == IF keyIndex < KeyCount THEN factoryAt' = "key" /\ keyIndex' = keyIndex + 1
                                  ELSE factoryAt' = "tfo" /\ UNCHANGED keyIndex

TestCsKeyKeepsBytes ==    \* mutant: the backup is not put back
  /\ factoryAt = "key"
  /\ m_pPkgFile' = [m_pPkgFile EXCEPT !.key = KeyOf[ProviderAt(keyIndex)]]
  /\ \E r \in Decrypted([key |-> KeyOf[ProviderAt(keyIndex)], tfo |-> m_pPkgFile.tfo], m_vPkgFileData.bytes) :
        /\ m_vPkgFileData' = WithBytes(r.bytes)
        /\ threw' = IF r.ends = "throws" THEN threw \cup {keyIndex} ELSE threw
        /\ IF r.ends = "true"
           THEN /\ m_DetectedProvider' = ProviderAt(keyIndex)
                /\ factoryAt' = "full" /\ UNCHANGED keyIndex
           ELSE UNCHANGED m_DetectedProvider /\ NextKey
  /\ UNCHANGED <<file, asked, vBackupPkgData, result>>
TestCsKeyOffByOne ==      \* mutant: reports the provider of the next key
  /\ factoryAt = "key"
  /\ m_pPkgFile' = [m_pPkgFile EXCEPT !.key = KeyOf[ProviderAt(keyIndex)]]
  /\ \E r \in Decrypted([key |-> KeyOf[ProviderAt(keyIndex)], tfo |-> m_pPkgFile.tfo], m_vPkgFileData.bytes) :
        /\ m_vPkgFileData' = WithBytes(IF r.ends = "false" THEN vBackupPkgData ELSE r.bytes)
        /\ threw' = IF r.ends = "throws" THEN threw \cup {keyIndex} ELSE threw
        /\ IF r.ends = "true"
           THEN /\ m_DetectedProvider' = IF keyIndex < KeyCount THEN ProviderAt(keyIndex + 1) ELSE Unknown
                /\ factoryAt' = "full" /\ UNCHANGED keyIndex
           ELSE UNCHANGED m_DetectedProvider /\ NextKey
  /\ UNCHANGED <<file, asked, vBackupPkgData, result>>
\* One turn of the loop of TestCsKeys.
TestCsKey ==
  /\ factoryAt = "key"
  /\ m_pPkgFile' = [m_pPkgFile EXCEPT !.key = KeyOf[ProviderAt(keyIndex)]]
  /\ \E r \in Decrypted([key |-> KeyOf[ProviderAt(keyIndex)], tfo |-> m_pPkgFile.tfo], m_vPkgFileData.bytes) :
        /\ m_vPkgFileData' = WithBytes(IF r.ends = "false" THEN vBackupPkgData ELSE r.bytes)
        /\ threw' = IF r.ends = "throws" THEN threw \cup {keyIndex} ELSE threw
        /\ IF r.ends = "true"
           THEN /\ m_DetectedProvider' = ProviderAt(keyIndex)
                /\ factoryAt' = "full" /\ UNCHANGED keyIndex
           ELSE UNCHANGED m_DetectedProvider /\ NextKey
  /\ UNCHANGED <<file, asked, vBackupPkgData, result>>

\* TestTfoKeys: what DecryptHeader throws leaves the constructor.
TestTfoKeys ==
  /\ factoryAt = "tfo"
  /\ \E r \in Decrypted([key |-> KeyOf[Tfo], tfo |-> TRUE], m_vPkgFileData.bytes) :
        IF r.ends = "true"
        THEN /\ m_pPkgFile' = [m_pPkgFile EXCEPT !.key = KeyOf[Tfo], !.tfo = TRUE]
             /\ m_vPkgFileData' = WithBytes(r.bytes)
             /\ m_DetectedProvider' = Tfo
             /\ factoryAt' = "full"
             /\ UNCHANGED result
        ELSE Fail /\ UNCHANGED m_DetectedProvider
  /\ UNCHANGED <<file, asked, vBackupPkgData, keyIndex, threw>>

TrySpecificProvider ==
  /\ factoryAt = "specific"
  /\ m_DetectedProvider' = asked
  /\ \E r \in Decrypted([key |-> KeyOf[asked], tfo |-> IsTfo(asked)], m_vPkgFileData.bytes) :
        IF r.ends = "true"
        THEN /\ m_pPkgFile' = [key |-> KeyOf[asked], tfo |-> IsTfo(asked), span |-> "base"]
             /\ m_vPkgFileData' = WithBytes(r.bytes)
             /\ factoryAt' = "full"
             /\ UNCHANGED result
        ELSE Fail
  /\ UNCHANGED <<file, asked, vBackupPkgData, keyIndex, threw>>

LoadFullHeaderKeepsSpan ==     \* mutant: SetDataBuffer is not called
  /\ factoryAt = "full"
  /\ \/ /\ m_vPkgFileData' = [of |-> "full", bytes |-> "cipher"]
        /\ factoryAt' = "decrypt"
        /\ UNCHANGED <<m_pPkgFile, result>>
     \/ Fail
  /\ UNCHANGED <<file, asked, vBackupPkgData, m_DetectedProvider, keyIndex, threw>>
\* LoadFullFileHeader: the longer header is read from the file into a new
\* vector, which frees the one with the base header.
LoadFullFileHeader ==
  /\ factoryAt = "full"
  /\ \/ /\ m_vPkgFileData' = [of |-> "full", bytes |-> "cipher"]
        /\ m_pPkgFile' = [m_pPkgFile EXCEPT !.span = "full"]
        /\ factoryAt' = "decrypt"
        /\ UNCHANGED result
     \/ Fail
  /\ UNCHANGED <<file, asked, vBackupPkgData, m_DetectedProvider, keyIndex, threw>>

\* A truncated or damaged file fails here, with the right key.
DecryptFullHeader ==
  /\ factoryAt = "decrypt"
  /\ \/ \E r \in Decrypted([key |-> m_pPkgFile.key, tfo |-> m_pPkgFile.tfo], m_vPkgFileData.bytes) :
           /\ r.ends = "true"
           /\ m_vPkgFileData' = WithBytes(r.bytes)
           /\ factoryAt' = "parse"
           /\ UNCHANGED <<m_pPkgFile, result>>
     \/ Fail
  /\ UNCHANGED <<file, asked, vBackupPkgData, m_DetectedProvider, keyIndex, threw>>

\* LoadPackage parses the PkgFile, lets go of the buffer and leaves the try
\* block, where the factory's vector ends.
Parse ==
  /\ factoryAt = "parse"
  /\ \/ /\ factoryAt' = "idle"
        /\ result' = "loaded"
        /\ m_vPkgFileData' = NoData
        /\ m_pPkgFile' = [m_pPkgFile EXCEPT !.span = "none"]
     \/ Fail
  /\ UNCHANGED <<file, asked, vBackupPkgData, m_DetectedProvider, keyIndex, threw>>

FactoryStep ==
  \/ LoadBaseFileHeader \/ CreatePkgFile \/ TestCsKey \/ TestTfoKeys
  \/ TrySpecificProvider \/ LoadFullFileHeader \/ DecryptFullHeader \/ Parse

FactoryNext ==
  \/ FactoryStep
  \/ \E f \in PkgFiles, provider \in Providers \cup {Unknown} : LoadPackage(f, provider)

FactorySpec == FactoryInit /\ [][FactoryNext]_factoryVars

-----------------------------------------------------------------------------
\* Properties.

Found == factoryAt \in {"full", "decrypt", "parse"} \/ result = "loaded"

\* The provider that is reported for a package, by guess or as asked, is one
\* whose key and layout open it, and the PkgFile that is handed on was
\* given that key and layout.
ProviderFits ==
  Found => /\ [key |-> m_pPkgFile.key, tfo |-> m_pPkgFile.tfo] \in file
           /\ m_DetectedProvider \in Providers
           /\ m_pPkgFile.key = KeyOf[m_DetectedProvider]
           /\ m_pPkgFile.tfo <=> IsTfo(m_DetectedProvider)
           /\ asked # Unknown => m_DetectedProvider = asked

\* DecryptHeader and Parse never go through a pointer into a vector that was
\* replaced or ended, and what is parsed is the long header read afresh and
\* decrypted once, although the short one was decrypted in place before.
ParsesFreshHeader ==
  /\ factoryAt \in {"key", "tfo", "full", "decrypt", "parse"} =>
       m_pPkgFile.span = m_vPkgFileData.of /\ m_pPkgFile.span # "none"
  /\ factoryAt = "parse" => m_vPkgFileData = [of |-> "full", bytes |-> "plain"]
  /\ result = "loaded" => m_pPkgFile.span = "none"

\* The keys that were tried in vain, or passed over, when the guess is at
\* the key of keyIndex or has ended there.
Passed(j) ==
  /\ asked = Unknown
  /\ \/ factoryAt = "key" /\ j < keyIndex
     \/ factoryAt = "tfo"
     \/ Found /\ (j < keyIndex \/ IsTfo(m_DetectedProvider))

\* A key is tried on bytes of the file and not on what another key made of
\* them, unless the one right before it threw; so a guess passes a provider
\* that opens the file for a later one, or for none, only after such a
\* throw, and never the first.
MissedOnlyAfterThrow ==
  /\ factoryAt = "key" => m_vPkgFileData.bytes = "cipher" \/ keyIndex - 1 \in threw
  /\ factoryAt = "tfo" => m_vPkgFileData.bytes = "cipher" \/ KeyCount \in threw
  /\ \A j \in 1..KeyCount :
       Passed(j) /\ [key |-> KeyOf[ProviderAt(j)], tfo |-> FALSE] \in file => j - 1 \in threw
=============================================================================
