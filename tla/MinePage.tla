------------------------------ MODULE MinePage ------------------------------
(***************************************************************************)
(* The website's mining page: the gate that wants an RPC endpoint of the   *)
(* user's own before mining (components/RpcGate.tsx), the dashboard with   *)
(* the start button (MineDashboard.tsx, MineClient.tsx), and the endpoint  *)
(* a page captures when its modules are loaded (lib/rpc.ts).  The          *)
(* endpoint is kept in localStorage, which the tabs of a browser share.    *)
(*                                                                         *)
(* The gate accepts a scheme in capitals, which clientRpcUrl does not: a   *)
(* URL is "own" or, written like that, "odd".  The gate asks for a reload  *)
(* when it has stored an endpoint; until the new page takes over, the old  *)
(* one goes on, with its buttons and the endpoint it has captured.         *)
(***************************************************************************)
EXTENDS Naturals

CONSTANT Tabs

VARIABLES
  opened,    \* whether the vault is funded
  override,  \* localStorage["equium:rpc-override"]
  \* -- per tab --
  rpc,       \* RPC_URL, captured when the page was loaded
  screen,    \* the wallet locked, or the dashboard
  hasRpc, config, sol, running,  \* the dashboard's state
  saved, editing,                \* the gate's state
  leaving,   \* the gate has called window.location.reload(): the page is about to go
  others     \* whether another tab has written the override since this one loaded

storeVars == <<opened, override>>
gateVars == <<saved, editing>>
dashVars == <<hasRpc, config, sol, running>>
tabVars == <<rpc, screen, dashVars, gateVars, leaving, others>>
vars == <<storeVars, tabVars>>

Urls == {"own", "odd"}

TypeOK ==
  /\ opened \in BOOLEAN
  /\ override \in Urls \cup {"none"}
  /\ rpc \in [Tabs -> {"own", "proxy"}]
  /\ screen \in [Tabs -> {"locked", "dashboard"}]
  /\ hasRpc \in [Tabs -> BOOLEAN] /\ running \in [Tabs -> BOOLEAN]
  /\ config \in [Tabs -> {"null", "closed", "open"}]
  /\ sol \in [Tabs -> {"unknown", "short", "enough"}]
  /\ saved \in [Tabs -> BOOLEAN] /\ editing \in [Tabs -> BOOLEAN]
  /\ leaving \in [Tabs -> BOOLEAN] /\ others \in [Tabs -> BOOLEAN]

\* clientRpcUrl.
ClientRpcUrl(stored) == IF stored = "own" THEN "own" ELSE "proxy"

\* hasRpcOverride.
HasRpcOverride(stored) == stored \in Urls

Init ==
  /\ opened \in BOOLEAN
  /\ override \in Urls \cup {"none"}
  /\ rpc = [t \in Tabs |-> ClientRpcUrl(override)]
  /\ screen = [t \in Tabs |-> "locked"]
  /\ hasRpc = [t \in Tabs |-> FALSE] /\ running = [t \in Tabs |-> FALSE]
  /\ config = [t \in Tabs |-> "null"] /\ sol = [t \in Tabs |-> "unknown"]
  /\ saved = [t \in Tabs |-> FALSE] /\ editing = [t \in Tabs |-> FALSE]
  /\ leaving = [t \in Tabs |-> FALSE] /\ others = [t \in Tabs |-> FALSE]

\* The dashboard leaves the screen, and the miner is stopped; its gate goes too.
Unmount(t) ==
  /\ screen' = [screen EXCEPT ![t] = "locked"]
  /\ hasRpc' = [hasRpc EXCEPT ![t] = FALSE]
  /\ config' = [config EXCEPT ![t] = "null"]
  /\ sol' = [sol EXCEPT ![t] = "unknown"]
  /\ running' = [running EXCEPT ![t] = FALSE]
  /\ saved' = [saved EXCEPT ![t] = FALSE]
  /\ editing' = [editing EXCEPT ![t] = FALSE]

\* The page is loaded, because the gate asked for it or the user did, with what is
\* stored by then.
Reload(t) ==
  /\ Unmount(t)
  /\ rpc' = [rpc EXCEPT ![t] = ClientRpcUrl(override)]
  /\ leaving' = [leaving EXCEPT ![t] = FALSE]
  /\ others' = [others EXCEPT ![t] = FALSE]
  /\ UNCHANGED storeVars

\* The wallet is unlocked, or set up: the dashboard is mounted and its effect
\* reads the override.
Unlock(t) ==
  /\ screen[t] = "locked"
  /\ screen' = [screen EXCEPT ![t] = "dashboard"]
  /\ hasRpc' = [hasRpc EXCEPT ![t] = HasRpcOverride(override)]
  /\ UNCHANGED <<storeVars, rpc, config, sol, running, gateVars, leaving, others>>

Lock(t) ==
  /\ screen[t] = "dashboard"
  /\ Unmount(t)
  /\ UNCHANGED <<storeVars, rpc, leaving, others>>

\* refresh: the config, or null if it cannot be read; the balance, or what it was.
\* The gate is mounted and unmounted with the config, and reads the override too.
Refresh(t, cfg, balance) ==
  /\ screen[t] = "dashboard"
  /\ cfg \in {"null", IF opened THEN "open" ELSE "closed"}
  /\ balance \in {sol[t], "short", "enough"}
  /\ config' = [config EXCEPT ![t] = cfg]
  /\ sol' = [sol EXCEPT ![t] = balance]
  /\ IF cfg = "open" /\ config[t] = "open" THEN UNCHANGED gateVars
     ELSE /\ saved' = [saved EXCEPT ![t] = cfg = "open" /\ override # "none"]
          /\ editing' = [editing EXCEPT ![t] = cfg = "open" /\ override = "none"]
  /\ UNCHANGED <<storeVars, rpc, screen, hasRpc, running, leaving, others>>

-----------------------------------------------------------------------------
(* RpcGate *)
Gate(t) == screen[t] = "dashboard" /\ config[t] = "open"

\* Edit and Cancel.
Edit(t) ==
  /\ Gate(t) /\ saved[t]
  /\ editing' = [editing EXCEPT ![t] = ~editing[t]]
  /\ UNCHANGED <<storeVars, rpc, screen, dashVars, saved, leaving, others>>

\* localStorage.setItem, removeItem: an error is swallowed.  The gate shows what it
\* should have stored and tells the dashboard (onChange).
Store(t, url) ==
  /\ UNCHANGED <<opened, rpc, screen, config, sol, running>>
  /\ \/ /\ override' = url
        /\ others' = [u \in Tabs |-> others[u] \/ (u # t /\ override # url)]
     \/ UNCHANGED <<override, others>>
  /\ saved' = [saved EXCEPT ![t] = url # "none"]
  /\ editing' = [editing EXCEPT ![t] = url = "none"]
  /\ hasRpc' = [hasRpc EXCEPT ![t] = url # "none"]

AskForReload(t) == leaving' = [leaving EXCEPT ![t] = TRUE]

\* Mutant: the page is not loaded again.
SaveInPlace(t, url) ==
  /\ Gate(t) /\ (editing[t] \/ ~saved[t])
  /\ Store(t, url)
  /\ UNCHANGED leaving

\* save, clear
Save(t, url) ==
  /\ Gate(t) /\ (editing[t] \/ ~saved[t])
  /\ Store(t, url)
  /\ AskForReload(t)

Clear(t) ==
  /\ Gate(t) /\ saved[t] /\ ~editing[t]
  /\ Store(t, "none")
  /\ AskForReload(t)

-----------------------------------------------------------------------------
(* The buttons of the dashboard *)
Start(t) ==
  /\ screen[t] = "dashboard" /\ ~running[t]
  /\ config[t] = "open" /\ sol[t] # "short" /\ hasRpc[t]
  /\ running' = [running EXCEPT ![t] = TRUE]
  /\ UNCHANGED <<storeVars, rpc, screen, hasRpc, config, sol, gateVars, leaving, others>>

Stop(t) ==
  /\ running[t]
  /\ running' = [running EXCEPT ![t] = FALSE]
  /\ UNCHANGED <<storeVars, rpc, screen, hasRpc, config, sol, gateVars, leaving, others>>

\* fund_vault is executed.
Launch ==
  /\ ~opened
  /\ opened' = TRUE
  /\ UNCHANGED <<override, tabVars>>

Next ==
  \/ Launch
  \/ \E t \in Tabs :
       \/ Reload(t) \/ Unlock(t) \/ Lock(t)
       \/ \E cfg \in {"null", "closed", "open"}, balance \in {"unknown", "short", "enough"} :
            Refresh(t, cfg, balance)
       \/ Edit(t) \/ Clear(t) \/ \E url \in Urls : Save(t, url)
       \/ Start(t) \/ Stop(t)

Spec == Init /\ [][Next]_vars

-----------------------------------------------------------------------------
\* "Mining is mandatory-RPC: shared Helius can't absorb many concurrent miners"
\* (MineDashboard.tsx:228): who mines does so on an endpoint of their own, through
\* saving, removing, reloading, locking and a config that comes and goes; but for
\* an endpoint another tab has written since this page was loaded, for a scheme in
\* capitals, and for a page whose gate has stored an endpoint and which is about to
\* be replaced: its start button is open at once, and starts on the old endpoint.
MinesOnItsOwnRpc ==
  \A t \in Tabs : running[t] /\ ~others[t] /\ override # "odd" => rpc[t] = "own" \/ leaving[t]
=============================================================================
