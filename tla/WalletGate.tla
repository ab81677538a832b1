------------------------------ MODULE WalletGate ------------------------------
(***************************************************************************)
(* The wallet of a page: the gate that reconnects silently                 *)
(* (SilentReconnectGate.tsx), the hook that connects inside MiniPay and    *)
(* its watchdog (useMinipay.ts), the page behind it (RequireWallet.tsx),   *)
(* and the button of the header (ConnectWalletButton.tsx).  wagmi is       *)
(* external: its connect() is modelled from how these three use it, with a *)
(* status of its own for each of them and one connection for all.          *)
(*                                                                         *)
(* The places a page is opened in differ in the provider they inject:      *)
(* MiniPay ("minipay"), its test mode, whose provider lacks the flag       *)
(* ("test"), a browser with a wallet ("browser") and one without ("bare"). *)
(* A wallet may answer a request late, or never.                           *)
(***************************************************************************)
EXTENDS Integers

CONSTANT MaxDrops     \* bound on the times the wallet takes the connection away

ASSUME WalletGateAssumption == MaxDrops \in Nat

Surfaces == {"gate", "hook", "button"}

VARIABLES
    place,      \* where the page is opened
    approved,   \* the wallet has approved this origin
    connection, \* useAccount().status
    connect,    \* of each surface, the status of its useConnect()
    uninvited,  \* a surface other than the button has made a browser's wallet ask
    gate,       \* the silent reconnect: "fresh", "probing" or "done"
    fired,      \* firedRef
    failed,     \* connectFailed
    watchdog,   \* "off", "armed" or "rung"
    retried,    \* Retry was pressed
    menu,       \* the sheet of the connected address is open
    drops

providerVars == <<place, approved, connection, connect, uninvited, drops>>
hookVars == <<fired, failed, watchdog, retried>>
gateVars == <<providerVars, gate, hookVars, menu>>

InMinipay == place \in {"minipay", "test"}
Connected == connection = "connected"

WalletInit ==
    /\ place \in {"minipay", "test", "browser", "bare"}
    /\ approved \in IF place = "bare" THEN {FALSE} ELSE BOOLEAN
    /\ connection = "disconnected" /\ connect = [s \in Surfaces |-> "idle"] /\ uninvited = FALSE
    /\ gate = "fresh" /\ fired = FALSE /\ failed = FALSE /\ watchdog = "off" /\ retried = FALSE
    /\ menu = FALSE /\ drops = 0
-------------------------------------------------------------------------------
(***************************************************************************)
(* connect(), and the wallet's answers.  All surfaces pick one connector   *)
(* in one place, and there is none in a browser without a wallet.          *)
(***************************************************************************)
CallsConnect(s) ==
    /\ place # "bare"
    /\ connect' = [connect EXCEPT ![s] = IF Connected THEN "error" ELSE "pending"]
    /\ connection' = IF Connected THEN connection ELSE "connecting"
    /\ uninvited' = (uninvited \/ (s # "button" /\ ~InMinipay /\ ~approved /\ ~Connected))
    /\ UNCHANGED <<place, approved, drops>>

WalletAccepts(s) ==
    /\ connect[s] = "pending" /\ connect' = [connect EXCEPT ![s] = "success"]
    /\ connection' = "connected" /\ approved' = TRUE
    /\ UNCHANGED <<place, uninvited, drops, gate, hookVars, menu>>

\* A connection made meanwhile by another surface stays.
WalletRefuses(s) ==
    /\ connect[s] = "pending" /\ connect' = [connect EXCEPT ![s] = "error"]
    /\ connection' = IF Connected THEN "connected" ELSE "disconnected"
    /\ UNCHANGED <<place, approved, uninvited, drops, gate, hookVars, menu>>

\* The wallet is locked, or the origin forgotten.  Bound: MaxDrops.
Drops ==
    /\ Connected /\ drops < MaxDrops /\ drops' = drops + 1
    /\ connection' = "disconnected" /\ approved' \in BOOLEAN
    /\ UNCHANGED <<place, connect, uninvited, gate, hookVars, menu>>
-------------------------------------------------------------------------------
(***************************************************************************)
(* SilentReconnectGate.                                                    *)
(***************************************************************************)
Probes ==
    /\ gate = "fresh" /\ gate' = IF Connected \/ place = "bare" THEN "done" ELSE "probing"
    /\ UNCHANGED <<providerVars, hookVars, menu>>

\* Mutant: the answer is not looked at.
AnyAccount == TRUE

HasAccounts == approved

\* eth_accounts answers, or fails.  Inside MiniPay too the gate connects a wallet that has
\* approved the page before, with the hook's own call perhaps under way.
ProbeAnswers ==
    /\ gate = "probing" /\ gate' = "done"
    /\ IF HasAccounts THEN CallsConnect("gate") ELSE UNCHANGED providerVars
    /\ UNCHANGED <<hookVars, menu>>

ProbeFails == gate = "probing" /\ gate' = "done" /\ UNCHANGED <<providerVars, hookVars, menu>>
-------------------------------------------------------------------------------
(***************************************************************************)
(* useMinipay: its effects and its Retry.                                  *)
(***************************************************************************)
Effect == InMinipay /\ UNCHANGED <<gate, menu, retried>>

\* The call is made once, and once more after a retry that has failed.
AutoConnects ==
    /\ ~fired /\ ~Connected /\ connect["hook"] # "pending" /\ fired' = TRUE
    /\ CallsConnect("hook") /\ UNCHANGED <<failed, watchdog>> /\ Effect

ArmsWatchdog ==
    /\ ~Connected /\ watchdog = "off" /\ watchdog' = "armed"
    /\ UNCHANGED <<providerVars, fired, failed>> /\ Effect

WatchdogRings ==
    /\ watchdog = "armed" /\ ~Connected /\ watchdog' = "rung" /\ failed' = TRUE
    /\ UNCHANGED <<providerVars, fired>> /\ Effect

\* The connection calls the watchdog off, and takes the failure back.
CallsOff ==
    /\ Connected /\ (failed \/ watchdog # "off") /\ watchdog' = "off" /\ failed' = FALSE
    /\ UNCHANGED <<providerVars, fired>> /\ Effect

NoticesError ==
    /\ connect["hook"] = "error" /\ ~Connected /\ ~failed /\ failed' = TRUE
    /\ UNCHANGED <<providerVars, fired, watchdog>> /\ Effect

\* What RequireWallet shows.
Behind ==
    IF failed THEN "failed"
    ELSE IF InMinipay /\ connect["hook"] = "pending" THEN "connecting"
    ELSE IF Connected THEN "content"
    ELSE IF InMinipay THEN "unable" ELSE "elsewhere"

\* Retry connects anew; the watchdog is not armed again.
RetryWallet ==
    /\ Behind \in {"failed", "unable"} /\ InMinipay /\ retried' = TRUE /\ failed' = FALSE /\ fired' = FALSE
    /\ CallsConnect("hook") /\ UNCHANGED <<watchdog, gate, menu>>
-------------------------------------------------------------------------------
(***************************************************************************)
(* ConnectWalletButton: not there inside MiniPay.                          *)
(***************************************************************************)
ConnectOffered == ~InMinipay /\ ~Connected /\ connect["button"] # "pending"

PressConnect == ConnectOffered /\ CallsConnect("button") /\ UNCHANGED <<gate, hookVars, menu>>

OpenMenu == ~InMinipay /\ Connected /\ ~menu /\ menu' = TRUE /\ UNCHANGED <<providerVars, gate, hookVars>>

\* Copying the address changes nothing.  The sheet goes with the connection.
CloseMenu == menu /\ menu' = FALSE /\ UNCHANGED <<providerVars, gate, hookVars>>

\* Disconnecting may take the approval back, as the wallet supports.
Disconnect ==
    /\ menu /\ Connected /\ menu' = FALSE /\ connection' = "disconnected" /\ approved' \in BOOLEAN
    /\ UNCHANGED <<place, connect, uninvited, drops, gate, hookVars>>

HookEffects == AutoConnects \/ ArmsWatchdog \/ WatchdogRings \/ CallsOff \/ NoticesError

WalletNext ==
    \/ \E s \in Surfaces : WalletAccepts(s) \/ WalletRefuses(s)
    \/ Drops \/ Probes \/ ProbeAnswers \/ ProbeFails \/ HookEffects \/ RetryWallet
    \/ PressConnect \/ OpenMenu \/ CloseMenu \/ Disconnect
-------------------------------------------------------------------------------
(***************************************************************************)
(* Properties.                                                             *)
(***************************************************************************)
\* Nobody is asked for a permission who has not pressed the button.
NoUninvitedPrompt == ~uninvited

\* Who waits for MiniPay has the watchdog still to ring: at the first try, as long as the gate
\* has not connected meanwhile, the wait ends though the wallet never answers.
SpinnerIsWatched ==
    Behind = "connecting" /\ ~Connected /\ ~retried => watchdog # "rung"

\* RequireWallet.tsx and useMinipay.ts: a page does not sit on "Connecting to MiniPay" for
\* ever when the provider never resolves the call: the watchdog brings a button to retry,
\* and no second surface connects at the same time.
ConnectingEnds ==
    [](Behind = "connecting" /\ ~retried => <>(Behind # "connecting" \/ retried))
===============================================================================
