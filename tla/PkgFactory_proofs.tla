-------------------------- MODULE PkgFactory_proofs --------------------------
(***************************************************************************)
(* Theorems about PkgFactory: for any providers, keys and packages, and    *)
(* any number of requests, whatever DecryptHeader makes of the bytes when  *)
(* it fails.                                                               *)
(***************************************************************************)
EXTENDS PkgFactory, TLAPS

\* What the constructor holds on the way: the vector with the file's own
\* bytes before anything is tried, and during the guess their backup and a
\* PkgFile of the ordinary layout.
OnTheWay ==
  /\ factoryAt \in {"create", "specific"} => m_vPkgFileData = [of |-> "base", bytes |-> "cipher"]
  /\ factoryAt \in {"create", "key", "tfo"} => asked = Unknown
  /\ factoryAt \in {"key", "tfo"} => vBackupPkgData = "cipher" /\ ~m_pPkgFile.tfo
  /\ factoryAt = "decrypt" => m_vPkgFileData.of = "full"

FactoryInv ==
  FactoryTypeOK /\ OnTheWay /\ ProviderFits /\ ParsesFreshHeader /\ MissedOnlyAfterThrow

\* There is a first key, and none of the keys tried in order is Tfo's.
LEMMA KeysInOrder ==
  /\ KeyCount \in Nat /\ KeyCount > 0
  /\ \A i \in 1..KeyCount : /\ ProviderAt(i) \in Providers
                            /\ ~IsTfo(ProviderAt(i))
                            /\ KeyOf[ProviderAt(i)] \in Keys
BY ProvidersAssumption DEF KeyCount, ProviderAt, IsTfo

\* What DecryptHeader returns: success is for the file's own bytes and a key
\* and layout that open them.
LEMMA DecryptedFacts ==
  ASSUME NEW lock, NEW bytes \in Bytes, NEW r \in Decrypted(lock, bytes)
  PROVE  /\ r.bytes \in Bytes
         /\ r.ends \in {"true", "false", "throws"}
         /\ r.ends = "true" => bytes = "cipher" /\ lock \in file /\ r.bytes = "plain"
         /\ r.ends # "true" => ~(bytes = "cipher" /\ lock \in file)
BY DEF Decrypted, Bytes

LEMMA FactoryInitInv == FactoryInit => FactoryInv
<1> SUFFICES ASSUME FactoryInit PROVE FactoryInv
  OBVIOUS
<1> USE DEF FactoryInit, NoData, NoPkg, Bytes, Vectors
<1>1. FactoryTypeOK
  BY KeysInOrder DEF FactoryTypeOK
<1>2. OnTheWay /\ ProviderFits /\ ParsesFreshHeader /\ MissedOnlyAfterThrow
  BY KeysInOrder DEF OnTheWay, ProviderFits, ParsesFreshHeader, MissedOnlyAfterThrow, Found, Passed
<1> QED BY <1>1, <1>2 DEF FactoryInv

LEMMA LoadPackageStep ==
  ASSUME FactoryInv, NEW f \in PkgFiles, NEW provider \in Providers \cup {Unknown},
         LoadPackage(f, provider)
  PROVE  FactoryInv'
<1> USE DEF FactoryInv, LoadPackage
<1>1. FactoryTypeOK'
  BY FactoryAssumption DEF FactoryTypeOK, NoPkg, Vectors
<1>2. OnTheWay' /\ ProviderFits' /\ ParsesFreshHeader' /\ MissedOnlyAfterThrow'
  BY DEF OnTheWay, ProviderFits, ParsesFreshHeader, MissedOnlyAfterThrow, Found, Passed, NoPkg
<1> QED BY <1>1, <1>2

\* Whatever fails, the invariant holds: nothing is left to be true of.
LEMMA FailStep ==
  ASSUME FactoryInv, Fail, m_DetectedProvider' \in Providers \cup {Unknown},
         UNCHANGED <<file, asked, vBackupPkgData, keyIndex, threw>>
  PROVE  FactoryInv'
<1> USE DEF FactoryInv, Fail, NoPkg, NoData
<1>1. FactoryTypeOK'
  BY DEF FactoryTypeOK, Vectors, Bytes
<1>2. OnTheWay' /\ ProviderFits' /\ ParsesFreshHeader' /\ MissedOnlyAfterThrow'
  BY DEF OnTheWay, ProviderFits, ParsesFreshHeader, MissedOnlyAfterThrow, Found, Passed
<1> QED BY <1>1, <1>2

LEMMA LoadBaseFileHeaderStep ==
  ASSUME FactoryInv, LoadBaseFileHeader
  PROVE  FactoryInv'
<1>1. m_DetectedProvider' \in Providers \cup {Unknown}
  BY DEF FactoryInv, FactoryTypeOK, LoadBaseFileHeader
<1>2. CASE Fail
  BY <1>1, <1>2, FailStep DEF LoadBaseFileHeader
<1>3. CASE ~Fail
  <2> USE DEF FactoryInv, LoadBaseFileHeader
  <2>1. FactoryTypeOK'
    BY <1>3 DEF FactoryTypeOK, Vectors, Bytes
  <2>2. OnTheWay' /\ ProviderFits' /\ ParsesFreshHeader' /\ MissedOnlyAfterThrow'
    BY <1>3 DEF FactoryTypeOK, OnTheWay, ProviderFits, ParsesFreshHeader, MissedOnlyAfterThrow, Found, Passed
  <2> QED BY <2>1, <2>2
<1> QED BY <1>2, <1>3

LEMMA CreatePkgFileStep ==
  ASSUME FactoryInv, CreatePkgFile
  PROVE  FactoryInv'
<1> USE DEF FactoryInv, CreatePkgFile
<1>1. FactoryTypeOK'
  BY KeysInOrder DEF FactoryTypeOK, Vectors
<1>2. OnTheWay' /\ ProviderFits' /\ ParsesFreshHeader'
  BY DEF FactoryTypeOK, OnTheWay, ProviderFits, ParsesFreshHeader, Found
<1>3. MissedOnlyAfterThrow'
  BY DEF FactoryTypeOK, OnTheWay, MissedOnlyAfterThrow, Found, Passed
<1> QED BY <1>1, <1>2, <1>3

LEMMA LoadFullFileHeaderStep ==
  ASSUME FactoryInv, LoadFullFileHeader
  PROVE  FactoryInv'
<1>1. m_DetectedProvider' \in Providers \cup {Unknown}
  BY DEF FactoryInv, FactoryTypeOK, LoadFullFileHeader
<1>2. CASE Fail
  BY <1>1, <1>2, FailStep DEF LoadFullFileHeader
<1>3. CASE ~Fail
  <2> USE DEF FactoryInv, LoadFullFileHeader
  <2>1. FactoryTypeOK'
    BY <1>3 DEF FactoryTypeOK, Vectors, Bytes
  <2>2. OnTheWay' /\ ProviderFits' /\ ParsesFreshHeader'
    BY <1>3 DEF FactoryTypeOK, OnTheWay, ProviderFits, ParsesFreshHeader, Found
  <2>3. MissedOnlyAfterThrow'
    BY <1>3 DEF FactoryTypeOK, MissedOnlyAfterThrow, Found, Passed
  <2> QED BY <2>1, <2>2, <2>3
<1> QED BY <1>2, <1>3

LEMMA DecryptFullHeaderStep ==
  ASSUME FactoryInv, DecryptFullHeader
  PROVE  FactoryInv'
<1>1. m_DetectedProvider' \in Providers \cup {Unknown}
  BY DEF FactoryInv, FactoryTypeOK, DecryptFullHeader
<1>2. CASE Fail
  BY <1>1, <1>2, FailStep DEF DecryptFullHeader
<1>3. CASE ~Fail
  <2>1. m_vPkgFileData.bytes \in Bytes
    BY DEF FactoryInv, FactoryTypeOK
  <2>2. m_vPkgFileData' = WithBytes("plain") /\ factoryAt' = "parse"
        /\ UNCHANGED <<m_pPkgFile, result>>
    BY <1>3, <2>1, DecryptedFacts DEF DecryptFullHeader
  <2> USE <2>2 DEF FactoryInv, DecryptFullHeader, WithBytes
  <2>3. FactoryTypeOK'
    BY DEF FactoryTypeOK, Vectors, Bytes
  <2>4. OnTheWay' /\ ProviderFits' /\ ParsesFreshHeader'
    BY DEF FactoryTypeOK, OnTheWay, ProviderFits, ParsesFreshHeader, Found
  <2>5. MissedOnlyAfterThrow'
    BY DEF FactoryTypeOK, MissedOnlyAfterThrow, Found, Passed
  <2> QED BY <2>3, <2>4, <2>5
<1> QED BY <1>2, <1>3

LEMMA ParseStep ==
  ASSUME FactoryInv, Parse
  PROVE  FactoryInv'
<1>1. m_DetectedProvider' \in Providers \cup {Unknown}
  BY DEF FactoryInv, FactoryTypeOK, Parse
<1>2. CASE Fail
  BY <1>1, <1>2, FailStep DEF Parse
<1>3. CASE ~Fail
  <2> USE DEF FactoryInv, Parse
  <2>1. FactoryTypeOK'
    BY <1>3 DEF FactoryTypeOK, NoData, Vectors, Bytes
  <2>2. OnTheWay' /\ ProviderFits' /\ ParsesFreshHeader'
    BY <1>3 DEF FactoryTypeOK, OnTheWay, ProviderFits, ParsesFreshHeader, Found
  <2>3. MissedOnlyAfterThrow'
    BY <1>3 DEF FactoryTypeOK, MissedOnlyAfterThrow, Found, Passed
  <2> QED BY <2>1, <2>2, <2>3
<1> QED BY <1>2, <1>3

LEMMA TrySpecificProviderStep ==
  ASSUME FactoryInv, TrySpecificProvider
  PROVE  FactoryInv'
<1>1. asked \in Providers /\ m_DetectedProvider' = asked /\ asked # Unknown
  BY ProvidersAssumption DEF FactoryInv, FactoryTypeOK, TrySpecificProvider
<1>2. CASE Fail
  BY <1>1, <1>2, FailStep DEF TrySpecificProvider
<1>3. CASE ~Fail
  <2> DEFINE lock == [key |-> KeyOf[asked], tfo |-> IsTfo(asked)]
  <2>1. m_vPkgFileData.bytes \in Bytes
    BY DEF FactoryInv, FactoryTypeOK
  <2>2. /\ m_pPkgFile' = [key |-> KeyOf[asked], tfo |-> IsTfo(asked), span |-> "base"]
        /\ m_vPkgFileData' = WithBytes("plain") /\ factoryAt' = "full"
        /\ lock \in file /\ UNCHANGED result
    BY <1>3, <2>1, DecryptedFacts DEF TrySpecificProvider
  <2>3. KeyOf[asked] \in Keys /\ IsTfo(asked) \in BOOLEAN
    BY <1>1, ProvidersAssumption DEF IsTfo
  <2> HIDE DEF lock
  <2> USE <2>2 DEF FactoryInv, TrySpecificProvider, WithBytes
  <2>4. FactoryTypeOK'
    BY <1>1, <2>3 DEF FactoryTypeOK, Vectors, Bytes
  <2>5. OnTheWay' /\ ParsesFreshHeader'
    BY DEF FactoryTypeOK, OnTheWay, ParsesFreshHeader
  <2>6. ProviderFits'
    BY <1>1, <2>3 DEF ProviderFits, lock
  <2>7. MissedOnlyAfterThrow'
    BY <1>1 DEF MissedOnlyAfterThrow, Passed
  <2> QED BY <2>4, <2>5, <2>6, <2>7
<1> QED BY <1>2, <1>3

LEMMA TestTfoKeysStep ==
  ASSUME FactoryInv, TestTfoKeys
  PROVE  FactoryInv'
<1>1. Tfo \in Providers /\ Tfo # Unknown /\ KeyOf[Tfo] \in Keys
  BY ProvidersAssumption
<1>2. CASE Fail
  <2>1. CASE UNCHANGED m_DetectedProvider
    BY <1>2, <2>1, FailStep DEF FactoryInv, FactoryTypeOK, TestTfoKeys
  <2>2. CASE m_DetectedProvider' = Tfo
    BY <1>1, <1>2, <2>2, FailStep DEF FactoryInv, FactoryTypeOK, TestTfoKeys
  <2> QED BY <2>1, <2>2 DEF TestTfoKeys
<1>3. CASE ~Fail
  <2> DEFINE lock == [key |-> KeyOf[Tfo], tfo |-> TRUE]
  <2>1. m_vPkgFileData.bytes \in Bytes
    BY DEF FactoryInv, FactoryTypeOK
  <2>2. /\ m_pPkgFile' = [m_pPkgFile EXCEPT !.key = KeyOf[Tfo], !.tfo = TRUE]
        /\ m_vPkgFileData' = WithBytes("plain") /\ factoryAt' = "full"
        /\ m_DetectedProvider' = Tfo
        /\ lock \in file /\ UNCHANGED result
    BY <1>3, <2>1, DecryptedFacts DEF TestTfoKeys
  <2>3. IsTfo(Tfo) = TRUE
    BY DEF IsTfo
  <2> HIDE DEF lock
  <2> USE <2>2 DEF FactoryInv, TestTfoKeys, WithBytes
  <2>4. FactoryTypeOK'
    BY <1>1 DEF FactoryTypeOK, Vectors, Bytes
  <2>5. OnTheWay' /\ ParsesFreshHeader'
    BY DEF FactoryTypeOK, OnTheWay, ParsesFreshHeader
  <2>6. m_pPkgFile'.key = KeyOf[Tfo] /\ m_pPkgFile'.tfo = TRUE
    BY DEF FactoryTypeOK
  <2>7. ProviderFits'
    BY <1>1, <2>3, <2>6 DEF OnTheWay, ProviderFits, lock
  <2>8. MissedOnlyAfterThrow'
    BY DEF MissedOnlyAfterThrow, Passed
  <2> QED BY <2>4, <2>5, <2>7, <2>8
<1> QED BY <1>2, <1>3

\* The key of the turn opens the package: the guess ends.
LEMMA KeyFits ==
  ASSUME FactoryInv, TestCsKey, factoryAt' = "full"
  PROVE  FactoryInv'
<1> DEFINE p == ProviderAt(keyIndex)
           lock == [key |-> KeyOf[p], tfo |-> m_pPkgFile.tfo]
<1>1. m_vPkgFileData.bytes \in Bytes /\ keyIndex \in 1..KeyCount
  BY DEF FactoryInv, FactoryTypeOK
<1>2. p \in Providers /\ p # Unknown /\ ~IsTfo(p) /\ KeyOf[p] \in Keys
  BY <1>1, KeysInOrder, ProvidersAssumption
<1>3. PICK r \in Decrypted(lock, m_vPkgFileData.bytes) : 
        /\ m_vPkgFileData' = WithBytes(IF r.ends = "false" THEN vBackupPkgData ELSE r.bytes)
        /\ threw' = IF r.ends = "throws" THEN threw \cup {keyIndex} ELSE threw
        /\ IF r.ends = "true"
           THEN /\ m_DetectedProvider' = p
                /\ factoryAt' = "full" /\ UNCHANGED keyIndex
           ELSE UNCHANGED m_DetectedProvider /\ NextKey
  BY DEF TestCsKey
<1>4. r.ends = "true"
  BY <1>3 DEF NextKey
<1>5. r.bytes = "plain" /\ lock \in file
  BY <1>1, <1>3, <1>4, DecryptedFacts
<1>6. /\ m_vPkgFileData' = WithBytes("plain") /\ UNCHANGED <<threw, keyIndex>>
      /\ m_DetectedProvider' = p
  BY <1>3, <1>4, <1>5
<1>7. /\ m_pPkgFile' = [m_pPkgFile EXCEPT !.key = KeyOf[p]]
      /\ UNCHANGED <<file, asked, vBackupPkgData, result>> /\ factoryAt = "key"
  BY DEF TestCsKey
<1>8. asked = Unknown /\ ~m_pPkgFile.tfo
  BY <1>7 DEF FactoryInv, OnTheWay
<1>9. m_pPkgFile'.key = KeyOf[p] /\ m_pPkgFile'.tfo = m_pPkgFile.tfo
  BY <1>7 DEF FactoryInv, FactoryTypeOK
<1> HIDE DEF p, lock
<1> USE DEF FactoryInv
<1>10. FactoryTypeOK'
  BY <1>2, <1>6, <1>7 DEF FactoryTypeOK, WithBytes, Vectors, Bytes
<1>11. OnTheWay' /\ ParsesFreshHeader'
  BY <1>6, <1>7 DEF FactoryTypeOK, OnTheWay, ParsesFreshHeader, WithBytes
<1>12. ProviderFits'
  BY <1>2, <1>5, <1>6, <1>7, <1>8, <1>9 DEF ProviderFits, lock
<1>13. MissedOnlyAfterThrow'
  BY <1>2, <1>6, <1>7, <1>8 DEF MissedOnlyAfterThrow, Passed
<1> QED BY <1>10, <1>11, <1>12, <1>13

\* It does not, or it throws: the guess goes on to the next key.
LEMMA KeyDoesNotFit ==
  ASSUME FactoryInv, TestCsKey, factoryAt' # "full"
  PROVE  FactoryInv'
<1> DEFINE p == ProviderAt(keyIndex)
           lock == [key |-> KeyOf[p], tfo |-> m_pPkgFile.tfo]
<1>1. m_vPkgFileData.bytes \in Bytes /\ keyIndex \in 1..KeyCount
  BY DEF FactoryInv, FactoryTypeOK
<1>2. KeyOf[p] \in Keys /\ KeyCount \in Nat
  BY <1>1, KeysInOrder
<1>3. PICK r \in Decrypted(lock, m_vPkgFileData.bytes) : 
        /\ m_vPkgFileData' = WithBytes(IF r.ends = "false" THEN vBackupPkgData ELSE r.bytes)
        /\ threw' = IF r.ends = "throws" THEN threw \cup {keyIndex} ELSE threw
        /\ IF r.ends = "true"
           THEN /\ m_DetectedProvider' = p
                /\ factoryAt' = "full" /\ UNCHANGED keyIndex
           ELSE UNCHANGED m_DetectedProvider /\ NextKey
  BY DEF TestCsKey
<1>4. r.ends \in {"false", "throws"} /\ r.bytes \in Bytes
      /\ ~(m_vPkgFileData.bytes = "cipher" /\ lock \in file)
  BY <1>1, <1>3, DecryptedFacts
<1>5. /\ UNCHANGED m_DetectedProvider /\ NextKey
      /\ threw \subseteq threw' /\ threw' \subseteq threw \cup {keyIndex}
  BY <1>3, <1>4
<1>6. /\ m_pPkgFile' = [m_pPkgFile EXCEPT !.key = KeyOf[p]]
      /\ UNCHANGED <<file, asked, vBackupPkgData, result>> /\ factoryAt = "key"
  BY DEF TestCsKey
<1>7. asked = Unknown /\ ~m_pPkgFile.tfo /\ vBackupPkgData = "cipher"
      /\ m_pPkgFile.tfo \in BOOLEAN
  BY <1>6 DEF FactoryInv, OnTheWay, FactoryTypeOK
<1>8. m_vPkgFileData' \in [of : {m_vPkgFileData.of}, bytes : Bytes]
      /\ (m_vPkgFileData'.bytes = "cipher" \/ keyIndex \in threw')
  BY <1>3, <1>4, <1>7 DEF FactoryInv, FactoryTypeOK, WithBytes, Bytes
<1>9. \/ factoryAt' = "key" /\ keyIndex' = keyIndex + 1 /\ keyIndex' \in 1..KeyCount
      \/ factoryAt' = "tfo" /\ keyIndex' = keyIndex /\ keyIndex = KeyCount
  BY <1>1, <1>2, <1>5 DEF NextKey
<1>10. lock \in file => keyIndex - 1 \in threw
  BY <1>4, <1>6 DEF FactoryInv, MissedOnlyAfterThrow
<1>11. lock = [key |-> KeyOf[p], tfo |-> FALSE]
  BY <1>7
<1>12. \A j \in 1..KeyCount : j < keyIndex /\ [key |-> KeyOf[ProviderAt(j)], tfo |-> FALSE] \in file
                                => j - 1 \in threw
  BY <1>6, <1>7 DEF FactoryInv, MissedOnlyAfterThrow, Passed
<1>13. \A j \in 1..KeyCount : j <= keyIndex /\ [key |-> KeyOf[ProviderAt(j)], tfo |-> FALSE] \in file
                                => j - 1 \in threw
  <2> SUFFICES ASSUME NEW j \in 1..KeyCount, j <= keyIndex,
                      [key |-> KeyOf[ProviderAt(j)], tfo |-> FALSE] \in file
               PROVE  j - 1 \in threw
    OBVIOUS
  <2>1. CASE j = keyIndex
    BY <2>1, <1>10, <1>11
  <2>2. CASE j < keyIndex
    BY <2>2, <1>12
  <2> QED BY <2>1, <2>2, <1>1, <1>2
<1> HIDE DEF p, lock
<1>14. FactoryTypeOK'
  BY <1>1, <1>2, <1>5, <1>6, <1>8, <1>9 DEF FactoryInv, FactoryTypeOK, Vectors, Bytes
<1>15. OnTheWay' /\ ProviderFits' /\ ParsesFreshHeader'
  BY <1>5, <1>6, <1>7, <1>8, <1>9 DEF FactoryInv, FactoryTypeOK, OnTheWay, ProviderFits, ParsesFreshHeader, Found
<1>16. MissedOnlyAfterThrow'
  <2>1. factoryAt' = "key" => m_vPkgFileData'.bytes = "cipher" \/ keyIndex' - 1 \in threw'
    BY <1>1, <1>2, <1>8, <1>9
  <2>2. factoryAt' = "tfo" => m_vPkgFileData'.bytes = "cipher" \/ KeyCount \in threw'
    BY <1>8, <1>9
  <2>3. result' = "none"
    BY <1>6 DEF FactoryInv, FactoryTypeOK
  <2>4. \A j \in 1..KeyCount : Passed(j)' => j <= keyIndex
    BY <1>1, <1>2, <1>9, <2>3 DEF Passed, Found
  <2>5. \A j \in 1..KeyCount : Passed(j)' /\ [key |-> KeyOf[ProviderAt(j)], tfo |-> FALSE] \in file'
                                 => j - 1 \in threw'
    BY <1>5, <1>6, <1>13, <2>4
  <2> QED BY <2>1, <2>2, <2>5 DEF MissedOnlyAfterThrow, KeyCount, ProviderAt
<1> QED BY <1>14, <1>15, <1>16 DEF FactoryInv

LEMMA FactoryNextInv == FactoryInv /\ [FactoryNext]_factoryVars => FactoryInv'
<1> SUFFICES ASSUME FactoryInv, [FactoryNext]_factoryVars PROVE FactoryInv'
  OBVIOUS
<1>1. CASE LoadBaseFileHeader
  BY <1>1, LoadBaseFileHeaderStep
<1>2. CASE CreatePkgFile
  BY <1>2, CreatePkgFileStep
<1>3. CASE TestCsKey
  BY <1>3, KeyFits, KeyDoesNotFit
<1>4. CASE TestTfoKeys
  BY <1>4, TestTfoKeysStep
<1>5. CASE TrySpecificProvider
  BY <1>5, TrySpecificProviderStep
<1>6. CASE LoadFullFileHeader
  BY <1>6, LoadFullFileHeaderStep
<1>7. CASE DecryptFullHeader
  BY <1>7, DecryptFullHeaderStep
<1>8. CASE Parse
  BY <1>8, ParseStep
<1>9. CASE \E f \in PkgFiles, provider \in Providers \cup {Unknown} : LoadPackage(f, provider)
  BY <1>9, LoadPackageStep
<1>10. CASE UNCHANGED factoryVars
  BY <1>10 DEF factoryVars, FactoryInv, FactoryTypeOK, OnTheWay, ProviderFits, ParsesFreshHeader,
               MissedOnlyAfterThrow, Found, Passed
<1> QED
  BY <1>1, <1>2, <1>3, <1>4, <1>5, <1>6, <1>7, <1>8, <1>9, <1>10 DEF FactoryNext, FactoryStep

\* The inductive invariant of any requests for packages, one after another.
THEOREM FactoryInvariant == FactorySpec => []FactoryInv
BY FactoryInitInv, FactoryNextInv, PTL DEF FactorySpec
=============================================================================
