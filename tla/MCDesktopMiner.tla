--------------------------- MODULE MCDesktopMiner ---------------------------
(***************************************************************************)
(* The desktop miner with two wallets: the miner and its commands          *)
(* (DesktopMiner), or the window that invokes them (DesktopScreens).  A    *)
(* behaviour moves one of the two, in the states it has alone.             *)
(***************************************************************************)
EXTENDS DesktopMiner, Sequences

CONSTANTS w1, w2, MAX_CALLS, MAX_STARTS

VARIABLES
  part,  \* which of the two moves
  file, opened, unread, mining, started, ending, events, calls, status, page, busy, revealed,
  button

\* The answer of a command that failed is no key pair.
ASSUME ScreensAssumption == "error" \notin Wallets

MCWallets == {w1, w2}
MCOneWallet == {w1}

windowVars == <<file, opened, unread, mining, started, ending, events, calls, status, page,
                busy, revealed, button>>

Screens == INSTANCE DesktopScreens WITH
  disk <- file, unlocked <- opened, misread <- unread, running <- mining, mode <- page,
  shown <- button

MCInit ==
  /\ part \in {"miner", "window"}
  /\ Init /\ (part # "miner" => disk = NoWallet)
  /\ Screens!Init /\ (part # "window" => file = NoWallet)

MCNext ==
  /\ UNCHANGED part
  /\ \/ part = "miner" /\ Next /\ UNCHANGED windowVars
     \/ part = "window" /\ Screens!Next /\ UNCHANGED vars

\* The fairness of the part that moves.
MCFairness ==
  /\ \A s \in Sessions : WF_vars(part = "miner" /\ Thread(s))
  /\ WF_windowVars(part = "window" /\ Screens!Execute)
  /\ WF_windowVars(part = "window" /\ Screens!Deliver)
  /\ WF_windowVars(part = "window" /\ Screens!DeliverEvent)
  /\ WF_windowVars(part = "window" /\ Screens!PollTick)

MCSpec == MCInit /\ [][MCNext]_<<part, vars, windowVars>> /\ MCFairness

-----------------------------------------------------------------------------
\* The backed-up wallet is the stored one (DesktopScreens).
BackedUpIsStored == Screens!BackedUpIsStored

\* The dashboard does not stay wrong about the miner (DesktopScreens).
DashboardCatchesUp == Screens!DashboardCatchesUp
=============================================================================
