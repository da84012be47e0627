---------------------------- MODULE PackageOpening ----------------------------
(***************************************************************************)
(* What the user is promised of a game's packages: one asked for alone is  *)
(* opened with a lock (a key and a layout) of some game, those an index    *)
(* names, in the order it names them, with the lock of the game that is in *)
(* the directory of the index.  No package is opened with a lock that does *)
(* not fit, and a load that gives up leaves none.                          *)
(***************************************************************************)
EXTENDS Sequences

CONSTANTS Files,       \* the packages; a package is the set of its locks
          Guesses,     \* the locks tried on a package asked for alone
          Games,       \* the directories with a game
          GameLock,    \* game -> its lock
          Named,       \* game -> the packages its index names
          Readable,    \* the games whose index can be opened
          NoGame

VARIABLES stage,       \* rest, package, index, packages or ended
          game,        \* the game whose index is, or was last, loaded
          pending,     \* the packages that are not opened yet
          opened       \* those that are, with the lock each was opened with

vars == <<stage, game, pending, opened>>

Init ==
  /\ stage = "rest"
  /\ game = NoGame
  /\ pending = <<>>
  /\ opened = <<>>

AskPackage(f) ==
  /\ stage = "rest"
  /\ stage' = "package"
  /\ pending' = <<f>>
  /\ opened' = <<>>
  /\ UNCHANGED game

AskIndex(g) ==
  /\ stage = "rest"
  /\ stage' = "index"
  /\ game' = g
  /\ opened' = <<>>
  /\ UNCHANGED pending

ReadIndex ==
  /\ stage = "index" /\ game \in Readable
  /\ stage' = "packages"
  /\ pending' = Named[game]
  /\ UNCHANGED <<game, opened>>

\* An index of no known game ends the process.
Die ==
  /\ stage = "index" /\ game \notin Readable
  /\ stage' = "ended"
  /\ UNCHANGED <<game, pending, opened>>

LocksToTry == IF stage = "package" THEN Guesses ELSE {GameLock[game]}

\* The next package is opened, with a lock of its own.
Open ==
  /\ pending # <<>>
  /\ \E lock \in Head(pending) \cap LocksToTry :
        opened' = Append(opened, [file |-> Head(pending), lock |-> lock])
  /\ pending' = Tail(pending)
  /\ stage' = IF stage = "package" THEN "rest" ELSE stage
  /\ UNCHANGED game

Finish ==
  /\ stage = "packages" /\ pending = <<>>
  /\ stage' = "rest"
  /\ UNCHANGED <<game, pending, opened>>

\* A file cannot be read, or is damaged, or no lock is found to fit.
GiveUp ==
  /\ stage = "index" \/ pending # <<>>
  /\ stage' = "rest"
  /\ pending' = <<>>
  /\ opened' = <<>>
  /\ UNCHANGED game

Next ==
  \/ \E f \in Files : AskPackage(f)
  \/ \E g \in Games : AskIndex(g)
  \/ ReadIndex \/ Die
  \/ Open \/ Finish \/ GiveUp

Spec == Init /\ [][Next]_vars
=============================================================================
