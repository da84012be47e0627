------------------------------ MODULE MCGameLoad ------------------------------
\* Values for the constants of GameLoad.  The keys of Nexon, NexonJP and Tfo are
\* the same, as in the code.  Four kinds of package: of Nexon or NexonJP, of
\* Tiancity, of Tfo, and one no key opens.  The directories: two with a game
\* in their Data (one of them with another game's package beside it), a
\* directory of Tfo, whose index needs the other collection, one whose index
\* no collection opens, and one without a game.
EXTENDS GameLoad, TLC

CONSTANTS nexon, tiancity, nexonJP, tfo, sharedKey, tiancityKey,
          game, gameData, other, otherData, tfoData, unknownIndex, none

MCProviders   == {nexon, tiancity, nexonJP, tfo}
MCCsProviders == <<nexon, tiancity, nexonJP>>
MCKeys        == {sharedKey, tiancityKey}
MCKeyOf == nexon :> sharedKey @@ tiancity :> tiancityKey @@ nexonJP :> sharedKey @@ tfo :> sharedKey

ofNexon    == {[key |-> sharedKey, tfo |-> FALSE]}
ofTiancity == {[key |-> tiancityKey, tfo |-> FALSE]}
ofTfo      == {[key |-> sharedKey, tfo |-> TRUE]}
MCPkgFiles == {ofNexon, ofTiancity, ofTfo, {}}

MCDirectories == {game, gameData, other, otherData, tfoData, unknownIndex, none}
MCDataOf == game :> gameData @@ other :> otherData @@ gameData :> none @@ otherData :> none
            @@ tfoData :> none @@ unknownIndex :> none @@ none :> none
MCProviderIn == game :> Unknown @@ gameData :> nexonJP @@ other :> tiancity @@ otherData :> nexon
                @@ tfoData :> tfo @@ unknownIndex :> tiancity @@ none :> Unknown
MCIndexIn == game :> {} @@ gameData :> {"cs"} @@ other :> {"cs"} @@ otherData :> {"cs"}
             @@ tfoData :> {"tfo"} @@ unknownIndex :> {} @@ none :> {}
MCPkgsIn == game :> <<>> @@ gameData :> <<ofNexon, ofNexon>> @@ other :> <<ofTiancity, {}>>
            @@ otherData :> <<ofNexon, ofTiancity>> @@ tfoData :> <<ofTfo>>
            @@ unknownIndex :> <<>> @@ none :> <<>>
=============================================================================
