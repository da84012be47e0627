---------------------------- MODULE GameProviders ----------------------------
(***************************************************************************)
(* The game providers (headers/gamedatainfo.hpp) and the keys their        *)
(* packages are encrypted with (sources/dynpkgfilefactory.cpp).  A         *)
(* provider's entry key and data key are always set together: one key here *)
(* stands for both.  Providers may share a key: Nexon, NexonJP and Tfo do, *)
(* and a package of Tfo differs from one of Nexon by its layout alone.     *)
(***************************************************************************)
EXTENDS Naturals, Sequences

CONSTANTS Providers,      \* the values of GameProvider
          Unknown,        \* GameProvider::Unknown
          Tfo,            \* GameProvider::Tfo
          CsProviders,    \* the others, in the order their keys are tried
          Keys,
          KeyOf           \* GetPackageKeysByProvider

ASSUME ProvidersAssumption ==
  /\ Unknown \notin Providers
  /\ Tfo \in Providers
  /\ CsProviders \in Seq(Providers \ {Tfo})
  /\ Len(CsProviders) > 0
  /\ KeyOf \in [Providers -> Keys]

\* GetGameProviderByIndex, for the index of a key in PACKAGE_ENTRY_KEYS.
ProviderAt(i) == CsProviders[i]
IsTfo(provider) == provider = Tfo
=============================================================================
